------------------------- MODULE ReplyDeliveryProofs -------------------------
(***************************************************************************)
(* Proofs about ReplyDelivery, for every number of replies, workers,       *)
(* attempts and follow-ups.  What is on record is true whatever the leases *)
(* do; that a reply is handed to the server once rests on the assumption   *)
(* that no attempt outlives its lease, and that a closed ticket stays      *)
(* closed on there being one mail worker.                                  *)
(***************************************************************************)
EXTENDS ReplyDelivery, FiniteSetTheorems, TLAPS

Reviews == {"pending", "approved", "auto_approved", "rejected"}

FollowupTaken == \E r \in Replies \ Rma : mail[r].taken > 0

(* A session that has loaded the ticket.                                     *)
Loaded(w) == worker[w].pc \in {"frozen", "calling", "answered", "recorded"}

(* The rows of jobs: one that waits has an attempt left.                     *)
JobsFit ==
    \A r \in Replies : /\ job[r].phase = "waiting" => job[r].attempts < MaxAttempts
                       /\ job[r].phase = "absent" => job[r].attempts = 0

(* What the memory of a worker says is true of the rows it came from.        *)
SessionFits(w) ==
    worker[w].pc # "idle" =>
       LET r == worker[w].reply IN
       /\ r \in Replies /\ job[r].phase # "absent"
       /\ worker[w].pc = "answered" /\ worker[w].answer = "accepted" => mail[r].taken > 0
       /\ worker[w].pc = "recorded" =>
             reply[r].rma /\ reply[r].filed /\ mail[r].taken > 0
       /\ Loaded(w) /\ worker[w].followups > 0 => FollowupTaken

SessionsFit == \A w \in Workers : SessionFits(w)

(* Whatever is pending for a reply concerns one that was drafted.            *)
Known ==
    \A r \in Replies :
       \/ r \in rejecting
       \/ \E by \in {"approved", "auto_approved"} : <<r, by>> \in approving
       \/ job[r].phase # "absent"
       => reply[r].send # "absent"

(* A follow-up exists only where the limit leaves room for one, an RMA reply *)
(* only once its policy allows it.                                           *)
DraftedFor(r) == IF reply[r].rma THEN ticket.policy # "special" ELSE MaxFollowups > 0

DraftsAllowed ==
    \A r \in Replies : reply[r].send # "absent" \/ mail[r].risky > 0 => DraftedFor(r)

RecordsTrue ==
    \A r \in Replies :
       ledger[r] = "succeeded" \/ reply[r].send = "sent" \/ outbox[r] = "accepted"
       => mail[r].taken > 0

Base ==
    /\ TypeOK /\ JobsFit /\ SessionsFit /\ Known /\ DraftsAllowed /\ RecordsTrue
    /\ ClosedOnEvidence /\ FollowupsCounted

(* With leases that protect: one worker at a time holds a reply, and nobody  *)
(* is about to hand over what the server may have already.                   *)
OneHolder ==
    /\ \A w \in Workers : worker[w].pc # "idle" => job[worker[w].reply].phase = "begun"
    /\ \A w, v \in Workers : /\ worker[w].pc # "idle" /\ worker[v].pc # "idle"
                             /\ worker[w].reply = worker[v].reply
                             => w = v

NotYetSent(w) ==
    LET r == worker[w].reply IN
    /\ worker[w].pc = "frozen" /\ worker[w].outbox \in Sendable => mail[r].risky = 0
    /\ worker[w].pc = "calling" => /\ mail[r].risky = 0 /\ ledger[r] = "running"
                                   /\ outbox[r] \notin Sendable \cup {"none"}
    /\ worker[w].pc = "answered" /\ worker[w].answer \in {"rejected", "terminal"}
       => mail[r].risky = 0

SendableIsUnsent ==
    /\ \A r \in Replies : outbox[r] \in Sendable \cup {"none"} => mail[r].risky = 0
    /\ \A r \in Replies : ledger[r] \in {"failed_retryable", "failed_terminal"}
                           => mail[r].risky = 0
    /\ \A w \in Workers : NotYetSent(w)

Leased == Base /\ OneHolder /\ SendableIsUnsent /\ SendsOnce

(* With one worker: while it works from an old copy, nobody closes.          *)
Late == {"rma_sent", "closed"}
CopyIsEarly ==
    \A w \in Workers : Loaded(w) /\ worker[w].status \notin Late => ticket.status \notin Late
-----------------------------------------------------------------------------
(* What any step may do, table by table.                                     *)
RowMoves(r) ==
    /\ reply'[r].rma = reply[r].rma /\ reply'[r].intact = reply[r].intact
    /\ reply[r].filed => reply'[r].filed
    /\ reply[r].send # "absent" => reply'[r].send # "absent"
    /\ reply'[r].send # "absent" => reply[r].send # "absent" \/ DraftedFor(r)
    /\ reply'[r].send = "sent" => reply[r].send = "sent" \/ mail[r].taken > 0

RepliesMove == reply' \in [Replies -> ReplyRow] /\ \A r \in Replies : RowMoves(r)

OutboxMoves ==
    /\ outbox' \in [Replies -> OutboxStatus]
    /\ \A r \in Replies : outbox'[r] = "accepted" => outbox[r] = "accepted" \/ mail[r].taken > 0

LedgerMoves ==
    /\ ledger' \in [Replies -> LedgerStatus]
    /\ \A r \in Replies : ledger'[r] = "succeeded" => ledger[r] = "succeeded" \/ mail[r].taken > 0

MailMoves ==
    /\ mail' \in [Replies -> [risky : Nat, taken : Nat]]
    /\ \A r \in Replies : /\ mail[r].taken > 0 => mail'[r].taken > 0
                          /\ mail'[r].risky > 0 => mail[r].risky > 0 \/ job[r].phase # "absent"

JobsMove ==
    /\ job' \in [Replies -> JobRow]
    /\ JobsFit'
    /\ \A r \in Replies : /\ job[r].phase # "absent" => job'[r].phase # "absent"
                          /\ job'[r].phase # "absent" => job[r].phase # "absent"
                                                         \/ reply[r].send # "absent"

TicketSteps ==
    /\ ticket' \in TicketRow
    /\ ticket'.policy = ticket.policy \/ ticket'.policy = "released"
    /\ ticket'.status = "closed" =>
          \/ ticket.status = "closed"
          \/ \E r \in Rma : reply'[r].filed /\ reply[r].intact /\ mail[r].taken > 0

CountMoves ==
    \/ /\ ticket'.followups = ticket.followups
       /\ \A r \in Replies \ Rma : reply'[r].send = "sent" => reply[r].send = "sent"
    \/ ticket'.followups > 0 /\ FollowupTaken
    \/ ticket'.followups = 0 /\ \A r \in Replies \ Rma : reply'[r].send # "sent"

WorkersMove ==
    /\ worker' \in [Workers -> Session]
    /\ \A w \in Workers : worker'[w] = worker[w] \/ SessionFits(w)'

RequestsMove ==
    /\ tasks' \subseteq TaskType
    /\ approving' \subseteq Replies \X {"approved", "auto_approved"}
    /\ rejecting' \subseteq Replies
    /\ \A r \in Replies :
          r \in rejecting' \/ (\E by \in {"approved", "auto_approved"} : <<r, by>> \in approving')
          => reply'[r].send # "absent"

Step == /\ RepliesMove /\ OutboxMoves /\ LedgerMoves /\ MailMoves /\ JobsMove
        /\ TicketSteps /\ CountMoves /\ WorkersMove /\ RequestsMove
-----------------------------------------------------------------------------
(* A step that keeps to this keeps the invariant.                            *)
LEMMA RmaStays == ASSUME TypeOK, RepliesMove PROVE Rma' = Rma
  BY DEF TypeOK, RepliesMove, RowMoves, Rma

LEMMA TakenStays ==
    ASSUME TypeOK, RepliesMove, MailMoves, FollowupTaken
    PROVE  FollowupTaken'
  BY RmaStays DEF FollowupTaken, MailMoves

LEMMA SessionStays ==
    ASSUME Base, Step, NEW w \in Workers, worker'[w] = worker[w]
    PROVE  SessionFits(w)'
  <1>. DEFINE r == worker[w].reply
  <1>. SUFFICES ASSUME worker[w].pc # "idle"
                PROVE  /\ r \in Replies /\ job'[r].phase # "absent"
                       /\ worker[w].pc = "answered" /\ worker[w].answer = "accepted"
                             => mail'[r].taken > 0
                       /\ worker[w].pc = "recorded" =>
                             reply'[r].rma /\ reply'[r].filed /\ mail'[r].taken > 0
                       /\ Loaded(w) /\ worker[w].followups > 0 => FollowupTaken'
    BY DEF SessionFits, Loaded
  <1>1. SessionFits(w) /\ TypeOK
    BY DEF Base, SessionsFit
  <1>2. r \in Replies /\ job[r].phase # "absent"
    BY <1>1 DEF SessionFits
  <1>3. RowMoves(r) /\ RepliesMove /\ MailMoves /\ JobsMove
    BY <1>2 DEF Step, RepliesMove
  <1>4. job'[r].phase # "absent"
    BY <1>2, <1>3 DEF JobsMove
  <1>5. mail[r].taken > 0 => mail'[r].taken > 0
    BY <1>2, <1>3 DEF MailMoves
  <1>6. worker[w].pc = "recorded" => reply'[r].rma /\ reply'[r].filed /\ mail'[r].taken > 0
    BY <1>1, <1>2, <1>3, <1>5 DEF SessionFits, RowMoves
  <1>7. Loaded(w) /\ worker[w].followups > 0 => FollowupTaken'
    BY <1>1, <1>3, TakenStays DEF SessionFits
  <1>. QED BY <1>1, <1>2, <1>4, <1>5, <1>6, <1>7 DEF SessionFits

LEMMA StepKeepsBase == ASSUME Base, Step PROVE Base'
  <1>. USE DEF Base
  <1>1. TypeOK'
    BY DEF Step, TypeOK, RepliesMove, OutboxMoves, LedgerMoves, MailMoves, JobsMove,
           TicketSteps, WorkersMove, RequestsMove
  <1>2. JobsFit'
    BY DEF Step, JobsMove
  <1>3. SessionsFit'
    BY SessionStays DEF SessionsFit, Step, WorkersMove
  <1>4. Known'
    BY DEF Known, Step, RequestsMove, JobsMove, RepliesMove, RowMoves
  <1>5. DraftsAllowed'
    <2>. SUFFICES ASSUME NEW r \in Replies, reply'[r].send # "absent" \/ mail'[r].risky > 0
                  PROVE  DraftedFor(r)'
      BY DEF DraftsAllowed
    <2>1. reply[r].send # "absent" \/ mail[r].risky > 0 \/ DraftedFor(r)
      BY DEF Step, MailMoves, RepliesMove, RowMoves, Known
    <2>2. DraftedFor(r)
      BY <2>1 DEF DraftsAllowed
    <2>. QED BY <2>2 DEF DraftedFor, Step, TicketSteps, RepliesMove, RowMoves
  <1>6. RecordsTrue'
    BY DEF RecordsTrue, Step, RepliesMove, RowMoves, OutboxMoves, LedgerMoves, MailMoves
  <1>7. ClosedOnEvidence'
    <2>. SUFFICES ASSUME ticket'.status = "closed"
                  PROVE  \E r \in Rma' : reply'[r].filed /\ reply'[r].intact /\ mail'[r].taken > 0
      BY DEF ClosedOnEvidence
    <2>1. PICK r \in Rma : /\ reply[r].filed \/ reply'[r].filed
                           /\ reply[r].intact /\ mail[r].taken > 0
      BY DEF ClosedOnEvidence, Step, TicketSteps
    <2>2. r \in Replies /\ r \in Rma'
      BY RmaStays DEF Rma, Step
    <2>3. reply'[r].filed /\ reply'[r].intact /\ mail'[r].taken > 0
      BY <2>1, <2>2 DEF Step, RepliesMove, RowMoves, MailMoves
    <2>. QED BY <2>2, <2>3
  <1>8. FollowupsCounted'
    <2>1. Rma' = Rma /\ (FollowupTaken => FollowupTaken')
      BY RmaStays, TakenStays DEF Step
    <2>2. ticket.followups \in Nat /\ ticket'.followups \in Nat
      BY <1>1, DeliveryAssumption DEF TypeOK, TicketRow
    <2>3. ASSUME ticket'.followups > 0 PROVE FollowupTaken'
      BY <2>1, <2>2, <2>3 DEF Step, CountMoves, FollowupsCounted, FollowupTaken
    <2>4. ASSUME NEW r \in Replies \ Rma, reply'[r].send = "sent"
          PROVE  ticket'.followups > 0
      BY <2>2, <2>4 DEF Step, CountMoves, FollowupsCounted
    <2>. QED BY <2>1, <2>3, <2>4 DEF FollowupsCounted, FollowupTaken
  <1>. QED BY <1>1, <1>2, <1>3, <1>4, <1>5, <1>6, <1>7, <1>8
-----------------------------------------------------------------------------
(* The operators the actions are built from, as such moves.                  *)
LEMMA RowSet ==
    ASSUME Base, NEW r \in Replies, NEW row \in ReplyRow,
           row.rma = reply[r].rma, row.intact = reply[r].intact,
           reply[r].filed => row.filed, row.send # "absent",
           reply[r].send # "absent" \/ DraftedFor(r),
           row.send = "sent" => reply[r].send = "sent" \/ mail[r].taken > 0,
           reply' = [reply EXCEPT ![r] = row]
    PROVE  /\ RepliesMove /\ reply'[r] = row
           /\ \A q \in Replies \ {r} : reply'[q] = reply[q]
  <1>1. /\ reply' \in [Replies -> ReplyRow] /\ reply'[r] = row
        /\ \A q \in Replies \ {r} : reply'[q] = reply[q]
    BY DEF Base, TypeOK
  <1>2. ASSUME NEW q \in Replies PROVE RowMoves(q)
    BY <1>1 DEF RowMoves
  <1>. QED BY <1>1, <1>2 DEF RepliesMove

LEMMA RowsKept == ASSUME Base, UNCHANGED reply PROVE RepliesMove
  BY DEF Base, TypeOK, RepliesMove, RowMoves

LEMMA SetReplyMoves ==
    ASSUME Base, NEW r \in Replies, NEW review \in Reviews,
           NEW send \in SendStatus \ {"absent"},
           reply[r].send # "absent" \/ DraftedFor(r),
           send = "sent" => reply[r].send = "sent" \/ mail[r].taken > 0,
           SetReply(r, review, send)
    PROVE  /\ RepliesMove /\ reply'[r] = [reply[r] EXCEPT !.review = review, !.send = send]
           /\ reply'[r].send = send /\ reply'[r].filed = reply[r].filed
           /\ \A q \in Replies \ {r} : reply'[q] = reply[q]
  <1>. DEFINE row == [reply[r] EXCEPT !.review = review, !.send = send]
  <1>1. reply[r] \in ReplyRow
    BY DEF Base, TypeOK
  <1>2. /\ row \in ReplyRow /\ row.rma = reply[r].rma /\ row.intact = reply[r].intact
        /\ row.filed = reply[r].filed /\ row.send = send
    BY <1>1 DEF ReplyRow, Reviews
  <1>3. reply' = [reply EXCEPT ![r] = row]
    BY DEF SetReply
  <1>. HIDE DEF row
  <1>4. /\ RepliesMove /\ reply'[r] = row
        /\ \A q \in Replies \ {r} : reply'[q] = reply[q]
    BY <1>2, <1>3, RowSet
  <1>. QED BY <1>2, <1>4 DEF row

LEMMA SetSendMoves ==
    ASSUME Base, NEW r \in Replies, NEW send \in SendStatus \ {"absent"},
           reply[r].send # "absent",
           send = "sent" => reply[r].send = "sent" \/ mail[r].taken > 0,
           SetSend(r, send)
    PROVE  /\ RepliesMove /\ reply'[r].send = send /\ reply'[r].filed = reply[r].filed
           /\ \A q \in Replies \ {r} : reply'[q] = reply[q]
  <1>1. reply[r].review \in Reviews
    BY DEF Base, TypeOK, ReplyRow, Reviews
  <1>2. SetReply(r, reply[r].review, send)
    BY DEF SetSend
  <1>. QED BY <1>1, <1>2, SetReplyMoves

(* A step that changes the status of the ticket only.                        *)
LEMMA StatusSet ==
    ASSUME Base, NEW status \in TicketStatus, ticket' = [ticket EXCEPT !.status = status],
           status = "closed" => \/ ticket.status = "closed"
                                \/ \E r \in Rma : reply'[r].filed /\ reply[r].intact
                                                  /\ mail[r].taken > 0
    PROVE  /\ TicketSteps /\ ticket'.status = status
           /\ ticket'.followups = ticket.followups /\ ticket'.policy = ticket.policy
  BY DEF Base, TypeOK, TicketRow, TicketSteps

LEMMA TicketKept ==
    ASSUME Base, ticket' = ticket
    PROVE  TicketSteps /\ ticket'.followups = ticket.followups /\ ticket'.policy = ticket.policy
  BY DEF Base, TypeOK, TicketSteps

LEMMA OpenTaskMoves ==
    ASSUME Base, NEW open \in SUBSET TaskType, NEW seen \in TicketStatus, OpenTask(open, seen)
    PROVE  /\ TicketSteps /\ tasks' \subseteq TaskType
           /\ ticket'.followups = ticket.followups /\ ticket'.policy = ticket.policy
           /\ seen # "closed"
           /\ \/ ticket'.status = ticket.status
              \/ ticket'.status = "manual_review" /\ seen \notin Late
  <1>1. tasks' \subseteq TaskType /\ seen # "closed"
    BY DEF OpenTask, TaskType
  <1>2. CASE seen \in {"ready_for_export", "rma_sent", "manual_review"}
    BY <1>1, <1>2, TicketKept DEF OpenTask
  <1>3. CASE seen \notin {"ready_for_export", "rma_sent", "manual_review"}
    <2>1. "manual_review" \in TicketStatus /\ seen \notin Late
      BY <1>1, <1>3 DEF TicketStatus, Late
    <2>2. ticket' = [ticket EXCEPT !.status = "manual_review"]
      BY <1>3 DEF OpenTask
    <2>. QED BY <1>1, <2>1, <2>2, StatusSet
  <1>. QED BY <1>2, <1>3

(* A ticket closed by what Verified found of a reply that was taken.         *)
LEMMA ClosedIfMoves ==
    ASSUME Base, NEW r \in Rma, NEW sent \in BOOLEAN, ticket' = ClosedIf(sent),
           sent => reply'[r].filed /\ reply[r].intact /\ mail[r].taken > 0
    PROVE  /\ TicketSteps
           /\ ticket'.followups = ticket.followups /\ ticket'.policy = ticket.policy
           /\ ticket'.status = IF sent THEN "closed" ELSE ticket.status
  <1>1. CASE sent
    <2>1. "closed" \in TicketStatus /\ ticket' = [ticket EXCEPT !.status = "closed"]
      BY <1>1 DEF TicketStatus, ClosedIf
    <2>. QED BY <1>1, <2>1, StatusSet
  <1>2. CASE ~sent
    BY <1>2, TicketKept DEF ClosedIf
  <1>. QED BY <1>1, <1>2

LEMMA FinalizeIssueMoves ==
    ASSUME Base, NEW r \in Rma, NEW filed \in BOOLEAN, NEW seen \in TicketStatus,
           reply[r].send # "absent", mail[r].taken > 0, filed => reply[r].filed,
           FinalizeIssue(r, filed, seen)
    PROVE  /\ RepliesMove /\ TicketSteps /\ tasks' \subseteq TaskType
           /\ ticket'.followups = ticket.followups /\ ticket'.policy = ticket.policy
           /\ reply'[r].send = reply[r].send
           /\ \A q \in Replies \ {r} : reply'[q] = reply[q]
           /\ \/ ticket'.status = ticket.status
              \/ ticket'.status = "closed" /\ seen = "rma_sent"
              \/ ticket'.status = "manual_review" /\ seen \notin Late
  <1>. DEFINE row == [reply[r] EXCEPT !.archive = ArchiveResult(r, filed)]
  <1>1. r \in Replies /\ reply[r] \in ReplyRow
    BY DEF Base, TypeOK, Rma
  <1>2. ArchiveResult(r, filed) \in {"archive_pending", "archived", "archive_failed"}
    BY DEF ArchiveResult
  <1>3. /\ row \in ReplyRow /\ row.rma = reply[r].rma /\ row.intact = reply[r].intact
        /\ row.filed = reply[r].filed /\ row.send = reply[r].send
    BY <1>1, <1>2 DEF ReplyRow
  <1>4. reply' = [reply EXCEPT ![r] = row]
    BY DEF FinalizeIssue
  <1>. HIDE DEF row
  <1>5. /\ RepliesMove /\ reply'[r] = row
        /\ \A q \in Replies \ {r} : reply'[q] = reply[q]
    BY <1>1, <1>3, <1>4, RowSet
  <1>6. tasks \in SUBSET TaskType
    BY DEF Base, TypeOK
  <1>7. CASE filed /\ ~Verified(r, filed)
    <2>1. OpenTask(tasks, seen)
      BY <1>7 DEF FinalizeIssue
    <2>. QED BY <1>3, <1>5, <1>6, <2>1, OpenTaskMoves
  <1>8. CASE ~(filed /\ ~Verified(r, filed))
    <2>. DEFINE closes == Verified(r, filed) /\ seen = "rma_sent"
    <2>1. ticket' = ClosedIf(closes) /\ UNCHANGED tasks
      BY <1>8 DEF FinalizeIssue
    <2>2. closes => reply'[r].filed /\ reply[r].intact /\ seen = "rma_sent"
      BY <1>3, <1>5 DEF Verified
    <2>3. closes \in BOOLEAN
      OBVIOUS
    <2>. HIDE DEF closes
    <2>4. /\ TicketSteps
          /\ ticket'.followups = ticket.followups /\ ticket'.policy = ticket.policy
          /\ ticket'.status = IF closes THEN "closed" ELSE ticket.status
      BY <2>1, <2>2, <2>3, ClosedIfMoves
    <2>. QED BY <1>3, <1>5, <1>6, <2>1, <2>2, <2>4
  <1>. QED BY <1>7, <1>8

LEMMA ArchiveMoves ==
    ASSUME Base, NEW r \in Rma, NEW seen \in TicketStatus, NEW files \in BOOLEAN,
           NEW open \in SUBSET TaskType,
           reply[r].send # "absent", mail[r].taken > 0, Archive(r, seen, files, open)
    PROVE  /\ RepliesMove /\ TicketSteps /\ tasks' \subseteq TaskType
           /\ ticket'.followups = ticket.followups /\ ticket'.policy = ticket.policy
           /\ reply'[r].send = "sent"
           /\ \A q \in Replies \ {r} : reply'[q] = reply[q]
           /\ \/ ticket'.status = ticket.status
              \/ ticket'.status = "closed" /\ seen = "rma_sent"
              \/ ticket'.status = "manual_review" /\ seen \notin Late
  <1>1. r \in Replies /\ reply[r] \in ReplyRow
    BY DEF Base, TypeOK, Rma
  <1>2. CASE seen = "closed"
    <2>1. "sent" \in SendStatus \ {"absent"}
      BY DEF SendStatus
    <2>2. SetSend(r, "sent") /\ tasks' = open /\ ticket' = ticket
      BY <1>2 DEF Archive
    <2>. QED BY <1>1, <2>1, <2>2, SetSendMoves, TicketKept
  <1>3. CASE seen # "closed"
    <2>. DEFINE filed == reply[r].filed \/ files
                row == [reply[r] EXCEPT !.send = "sent", !.filed = filed,
                           !.archive = IF Verified(r, filed) THEN "archived"
                                                             ELSE "archive_failed"]
                closes == seen = "rma_sent"
    <2>1. reply' = [reply EXCEPT ![r] = row]
      BY <1>3 DEF Archive
    <2>2. /\ row \in ReplyRow /\ row.rma = reply[r].rma /\ row.intact = reply[r].intact
          /\ row.filed = filed /\ row.send = "sent"
      BY <1>1 DEF ReplyRow, SendStatus
    <2>3. reply[r].filed => filed
      OBVIOUS
    <2>v. Verified(r, filed) => filed /\ reply[r].intact
      BY DEF Verified
    <2>c. closes \in BOOLEAN /\ (closes <=> seen = "rma_sent")
      OBVIOUS
    <2>o. \/ Verified(r, filed) /\ ticket' = ClosedIf(closes) /\ tasks' = open
          \/ OpenTask(open, seen)
      BY <1>3 DEF Archive
    <2>. HIDE DEF filed, row, closes
    <2>4. /\ RepliesMove /\ reply'[r] = row
          /\ \A q \in Replies \ {r} : reply'[q] = reply[q]
      BY <1>1, <2>1, <2>2, <2>3, RowSet
    <2>5. CASE OpenTask(open, seen)
      BY <2>2, <2>4, <2>5, OpenTaskMoves
    <2>6. CASE Verified(r, filed) /\ ticket' = ClosedIf(closes) /\ tasks' = open
      <3>1. /\ TicketSteps
            /\ ticket'.followups = ticket.followups /\ ticket'.policy = ticket.policy
            /\ ticket'.status = IF closes THEN "closed" ELSE ticket.status
        BY <2>2, <2>4, <2>6, <2>v, <2>c, ClosedIfMoves
      <3>. QED BY <2>2, <2>4, <2>6, <2>c, <3>1
    <2>. QED BY <2>o, <2>5, <2>6
  <1>. QED BY <1>2, <1>3

(* What a step leaves alone.                                                 *)
LEMMA Kept ==
    ASSUME Base
    PROVE  /\ reply' = reply => RepliesMove
           /\ outbox' = outbox => OutboxMoves
           /\ ledger' = ledger => LedgerMoves
           /\ mail' = mail => MailMoves
           /\ job' = job => JobsMove
           /\ worker' = worker => WorkersMove
           /\ ticket' = ticket => TicketSteps /\ ticket'.followups = ticket.followups
  <1>1. outbox' = outbox => OutboxMoves
    BY DEF Base, TypeOK, OutboxMoves
  <1>2. ledger' = ledger => LedgerMoves
    BY DEF Base, TypeOK, LedgerMoves
  <1>3. mail' = mail => MailMoves
    BY DEF Base, TypeOK, MailMoves
  <1>4. job' = job => JobsMove
    BY DEF Base, TypeOK, JobsMove, JobsFit
  <1>5. worker' = worker => WorkersMove
    BY DEF Base, TypeOK, WorkersMove
  <1>. QED BY <1>1, <1>2, <1>3, <1>4, <1>5, RowsKept, TicketKept

LEMMA RequestsKept ==
    ASSUME Base, RepliesMove, tasks' \subseteq TaskType,
           approving' \subseteq approving, rejecting' \subseteq rejecting
    PROVE  RequestsMove
  <1>1. /\ approving' \subseteq Replies \X {"approved", "auto_approved"}
        /\ rejecting' \subseteq Replies
    BY DEF Base, TypeOK
  <1>2. ASSUME NEW r \in Replies,
               \/ r \in rejecting'
               \/ \E by \in {"approved", "auto_approved"} : <<r, by>> \in approving'
        PROVE  reply'[r].send # "absent"
    <2>1. reply[r].send # "absent"
      BY <1>2 DEF Base, Known
    <2>. QED BY <2>1 DEF RepliesMove, RowMoves
  <1>. QED BY <1>1, <1>2 DEF RequestsMove

LEMMA RequestAdded ==
    ASSUME Base, RepliesMove, tasks' \subseteq TaskType, NEW r \in Replies,
           reply'[r].send # "absent",
           \/ /\ rejecting' = rejecting
              /\ \E by \in {"approved", "auto_approved"} : approving' = approving \cup {<<r, by>>}
           \/ rejecting' = rejecting \cup {r} /\ approving' = approving
    PROVE  RequestsMove
  <1>1. /\ approving' \subseteq Replies \X {"approved", "auto_approved"}
        /\ rejecting' \subseteq Replies
    BY DEF Base, TypeOK
  <1>2. ASSUME NEW q \in Replies,
               \/ q \in rejecting'
               \/ \E by \in {"approved", "auto_approved"} : <<q, by>> \in approving'
        PROVE  reply'[q].send # "absent"
    <2>1. q = r \/ q \in rejecting
          \/ \E by \in {"approved", "auto_approved"} : <<q, by>> \in approving
      BY <1>2
    <2>2. q = r \/ reply[q].send # "absent"
      BY <2>1 DEF Base, Known
    <2>. QED BY <2>2 DEF RepliesMove, RowMoves
  <1>. QED BY <1>1, <1>2 DEF RequestsMove

LEMMA CountKept ==
    ASSUME Base, ticket'.followups = ticket.followups, NEW r \in Replies,
           \A q \in Replies \ {r} : reply'[q] = reply[q],
           r \in Rma \/ reply'[r].send # "sent" \/ reply[r].send = "sent"
    PROVE  CountMoves
  BY DEF CountMoves

LEMMA CountSame ==
    ASSUME Base, reply' = reply, ticket'.followups = ticket.followups
    PROVE  CountMoves
  BY DEF CountMoves

LEMMA FrozenMoves ==
    ASSUME Base, NEW r \in Replies, outbox' = Frozen(r)
    PROVE  OutboxMoves
  BY DEF Base, TypeOK, Frozen, OutboxMoves, OutboxStatus

LEMMA OutboxSet ==
    ASSUME Base, NEW r \in Replies, NEW status \in OutboxStatus,
           outbox' = [outbox EXCEPT ![r] = status],
           status = "accepted" => outbox[r] = "accepted" \/ mail[r].taken > 0
    PROVE  OutboxMoves
  BY DEF Base, TypeOK, OutboxMoves

(* Sessions and jobs.                                                        *)
LEMMA SessionSet ==
    ASSUME Base, NEW w \in Workers, NEW session \in Session,
           worker' = [worker EXCEPT ![w] = session], SessionFits(w)'
    PROVE  WorkersMove
  BY DEF Base, TypeOK, WorkersMove

LEMMA IdleMoves ==
    ASSUME Base, NEW w \in Workers, worker' = [worker EXCEPT ![w] = Idle]
    PROVE  WorkersMove
  <1>1. Idle \in Session
    BY DeliveryAssumption DEF Idle, Session, OutboxStatus, TicketStatus, Answers
  <1>2. worker'[w].pc = "idle"
    BY DEF Base, TypeOK, Idle
  <1>3. SessionFits(w)'
    BY <1>2 DEF SessionFits
  <1>. QED BY <1>1, <1>3, SessionSet

LEMMA JobSet ==
    ASSUME Base, NEW r \in Replies, NEW row \in JobRow, row.phase # "absent",
           row.phase = "waiting" => row.attempts < MaxAttempts,
           job[r].phase # "absent" \/ reply[r].send # "absent",
           job' = [job EXCEPT ![r] = row]
    PROVE  JobsMove
  <1>1. job' \in [Replies -> JobRow]
    BY DEF Base, TypeOK
  <1>2. ASSUME NEW q \in Replies
        PROVE  /\ job'[q].phase = "waiting" => job'[q].attempts < MaxAttempts
               /\ job'[q].phase = "absent" => job'[q].attempts = 0
               /\ job[q].phase # "absent" => job'[q].phase # "absent"
               /\ job'[q].phase # "absent" => job[q].phase # "absent" \/ reply[q].send # "absent"
    <2>1. job'[q] = IF q = r THEN row ELSE job[q]
      BY DEF Base, TypeOK
    <2>. QED BY <2>1 DEF Base, JobsFit
  <1>. QED BY <1>1, <1>2 DEF JobsMove, JobsFit

LEMMA PhaseSet ==
    ASSUME Base, NEW r \in Replies,
           NEW phase \in {"waiting", "begun"} \cup Ended,
           phase = "waiting" => job[r].attempts < MaxAttempts,
           job[r].phase # "absent" \/ reply[r].send # "absent",
           job' = [job EXCEPT ![r].phase = phase]
    PROVE  JobsMove
  <1>. DEFINE row == [job[r] EXCEPT !.phase = phase]
  <1>1. job[r] \in JobRow
    BY DEF Base, TypeOK
  <1>2. phase # "absent"
    BY DEF Ended
  <1>3. row \in JobRow /\ row.phase = phase /\ row.attempts = job[r].attempts
    BY <1>1 DEF JobRow
  <1>4. job' = [job EXCEPT ![r] = row]
    OBVIOUS
  <1>. HIDE DEF row
  <1>. QED BY <1>2, <1>3, <1>4, JobSet

LEMMA RetryOrIs ==
    ASSUME Base, NEW r \in Replies, NEW phase \in Ended
    PROVE  /\ RetryOr(r, phase) \in {"waiting"} \cup Ended
           /\ RetryOr(r, phase) = "waiting" => job[r].attempts < MaxAttempts
  BY DEF RetryOr, Ended

(* A worker that is at work holds a reply that has a job.                    *)
LEMMA Holds ==
    ASSUME Base, NEW w \in Workers, worker[w].pc # "idle"
    PROVE  /\ worker[w].reply \in Replies /\ job[worker[w].reply].phase # "absent"
           /\ reply[worker[w].reply].send # "absent" /\ DraftedFor(worker[w].reply)
  <1>1. worker[w].reply \in Replies /\ job[worker[w].reply].phase # "absent"
    BY DEF Base, SessionsFit, SessionFits
  <1>2. reply[worker[w].reply].send # "absent"
    BY <1>1 DEF Base, Known
  <1>. QED BY <1>1, <1>2 DEF Base, DraftsAllowed

LEMMA EndJobMoves ==
    ASSUME Base, NEW w \in Workers, worker[w].pc # "idle",
           NEW phase \in {"waiting"} \cup Ended,
           phase = "waiting" => job[worker[w].reply].attempts < MaxAttempts,
           EndJob(w, phase)
    PROVE  JobsMove /\ WorkersMove
  <1>1. WorkersMove
    BY IdleMoves DEF EndJob
  <1>2. worker[w].reply \in Replies /\ job[worker[w].reply].phase # "absent"
    BY Holds
  <1>3. job' = [job EXCEPT ![worker[w].reply].phase = phase]
    BY DEF EndJob
  <1>. QED BY <1>1, <1>2, <1>3, PhaseSet
-----------------------------------------------------------------------------
(* The operators' actions are such steps.                                    *)
LEMMA SendValues ==
    /\ {"pending_review", "approved_pending_send", "sending", "sent", "send_failed",
        "send_uncertain", "rejected"} = SendStatus \ {"absent"}
    /\ {"pending", "approved", "auto_approved", "rejected"} = Reviews
  BY DEF SendStatus, Reviews

LEMMA DraftedIsAllowed ==
    ASSUME Base, NEW r \in Replies, Drafted(r)
    PROVE  DraftedFor(r) /\ ticket.status \in TicketStatus
  <1>1. ticket.followups \in Nat /\ MaxFollowups \in Nat /\ ticket.status \in TicketStatus
    BY DeliveryAssumption DEF Base, TypeOK, TicketRow
  <1>2. CASE r \in Rma
    BY <1>1, <1>2 DEF Drafted, Issuable, Askable, DraftedFor, Rma
  <1>3. CASE r \notin Rma
    BY <1>1, <1>3 DEF Drafted, Issuable, Askable, DraftedFor, Rma
  <1>. QED BY <1>2, <1>3

LEMMA TicketHasStatus ==
    ASSUME Base
    PROVE  ticket.status \in TicketStatus /\ tasks \in SUBSET TaskType
  BY DEF Base, TypeOK, TicketRow

LEMMA DraftForReviewSteps ==
    ASSUME Base, NEW r \in Replies, DraftForReview(r) PROVE Step
  <1>1. DraftedFor(r)
    BY DraftedIsAllowed DEF DraftForReview
  <1>2. PICK review \in Reviews : SetReply(r, review, "pending_review")
    BY DEF Base, TypeOK, ReplyRow, Reviews, DraftForReview, SetSend
  <1>3. /\ RepliesMove /\ reply'[r].send = "pending_review"
        /\ \A q \in Replies \ {r} : reply'[q] = reply[q]
    BY <1>1, <1>2, SendValues, SetReplyMoves
  <1>4. tasks' \subseteq TaskType
    BY TicketHasStatus DEF DraftForReview, TaskType
  <1>5. RequestsMove
    BY <1>3, <1>4, RequestsKept DEF DraftForReview
  <1>6. CountMoves
    BY <1>3, CountKept DEF DraftForReview
  <1>. QED BY <1>3, <1>5, <1>6, Kept DEF DraftForReview, Step

LEMMA DraftAndSendSteps ==
    ASSUME Base, NEW r \in Replies, DraftAndSend(r) PROVE Step
  <1>1. DraftedFor(r) /\ ticket.status \in TicketStatus /\ tasks \in SUBSET TaskType
    BY DraftedIsAllowed, TicketHasStatus DEF DraftAndSend
  <1>2. ASSUME SetReply(r, "auto_approved",
                        IF r \in Rma THEN "approved_pending_send" ELSE "pending_review"),
               outbox' = Frozen(r), approving' = approving \cup {<<r, "auto_approved">>},
               UNCHANGED <<ticket, tasks>>
        PROVE  Step
    <2>1. PICK send \in {"approved_pending_send", "pending_review"} :
             SetReply(r, "auto_approved", send)
      BY <1>2
    <2>2. /\ RepliesMove /\ reply'[r].send = send
          /\ \A q \in Replies \ {r} : reply'[q] = reply[q]
      BY <1>1, <2>1, SendValues, SetReplyMoves
    <2>3. RequestsMove
      BY <1>1, <1>2, <2>2, RequestAdded DEF DraftAndSend
    <2>4. CountMoves
      BY <1>2, <2>1, <2>2, CountKept
    <2>. QED BY <1>2, <2>2, <2>3, <2>4, FrozenMoves, Kept DEF DraftAndSend, Step
  <1>3. ASSUME SetReply(r, "auto_approved", "send_failed"), OpenTask(tasks, ticket.status),
               UNCHANGED <<outbox, approving>>
        PROVE  Step
    <2>1. /\ RepliesMove /\ reply'[r].send = "send_failed"
          /\ \A q \in Replies \ {r} : reply'[q] = reply[q]
      BY <1>1, <1>3, SendValues, SetReplyMoves
    <2>2. TicketSteps /\ tasks' \subseteq TaskType /\ ticket'.followups = ticket.followups
      BY <1>1, <1>3, OpenTaskMoves
    <2>3. RequestsMove
      BY <1>3, <2>1, <2>2, RequestsKept DEF DraftAndSend
    <2>4. CountMoves
      BY <2>1, <2>2, CountKept
    <2>. QED BY <1>3, <2>1, <2>2, <2>3, <2>4, Kept DEF DraftAndSend, Step
  <1>. QED BY <1>2, <1>3 DEF DraftAndSend

(* An approval: the outbox is frozen and the job still to come.              *)
LEMMA ApprovalSteps ==
    ASSUME Base, NEW r \in Replies, reply[r].send # "absent",
           NEW review \in Reviews, NEW send \in {"pending_review", "approved_pending_send"},
           NEW by \in {"approved", "auto_approved"},
           SetReply(r, review, send), outbox' = Frozen(r),
           approving' = approving \cup {<<r, by>>},
           UNCHANGED <<ledger, ticket, tasks, job, worker, rejecting, mail>>
    PROVE  Step
  <1>1. /\ RepliesMove /\ reply'[r].send = send
        /\ \A q \in Replies \ {r} : reply'[q] = reply[q]
    BY SendValues, SetReplyMoves
  <1>2. RequestsMove
    BY <1>1, TicketHasStatus, RequestAdded
  <1>3. CountMoves
    BY <1>1, CountKept
  <1>. QED BY <1>1, <1>2, <1>3, FrozenMoves, Kept DEF Step

LEMMA AutoApproveSteps == ASSUME Base, NEW r \in Replies, AutoApprove(r) PROVE Step
  BY SendValues, ApprovalSteps DEF AutoApprove

LEMMA ApproveSteps == ASSUME Base, NEW r \in Replies, Approve(r) PROVE Step
  BY SendValues, ApprovalSteps DEF Approve, Approvable

(* A command that fails into send_failed or send_uncertain with a task.      *)
LEMMA FailureSteps ==
    ASSUME Base, NEW r \in Replies, reply[r].send # "absent",
           NEW review \in Reviews, NEW send \in {"send_failed", "send_uncertain"},
           SetReply(r, review, send), OpenTask(tasks, ticket.status),
           UNCHANGED <<outbox, ledger, job, worker, approving, rejecting, mail>>
    PROVE  Step
  <1>1. /\ RepliesMove /\ reply'[r].send = send
        /\ \A q \in Replies \ {r} : reply'[q] = reply[q]
    BY SendValues, SetReplyMoves
  <1>2. TicketSteps /\ tasks' \subseteq TaskType /\ ticket'.followups = ticket.followups
    BY TicketHasStatus, OpenTaskMoves
  <1>3. RequestsMove
    BY <1>1, <1>2, RequestsKept
  <1>4. CountMoves
    BY <1>1, <1>2, CountKept
  <1>. QED BY <1>1, <1>2, <1>3, <1>4, Kept DEF Step

LEMMA ApproveBlockedSteps == ASSUME Base, NEW r \in Replies, ApproveBlocked(r) PROVE Step
  BY SendValues, FailureSteps DEF ApproveBlocked, Approvable

LEMMA ApproveUncertainSteps == ASSUME Base, NEW r \in Replies, ApproveUncertain(r) PROVE Step
  <1>1. reply[r].review \in Reviews
    BY DEF Base, TypeOK, ReplyRow, Reviews
  <1>. QED BY <1>1, FailureSteps DEF ApproveUncertain, SetSend

LEMMA EnqueueSendSteps ==
    ASSUME Base, NEW r \in Replies, NEW by \in {"approved", "auto_approved"}, EnqueueSend(r, by)
    PROVE  Step
  <1>1. reply[r].send # "absent" /\ reply[r].review \in Reviews
    BY DEF EnqueueSend, Base, Known, TypeOK, ReplyRow, Reviews
  <1>2. /\ RepliesMove /\ (reply'[r].send # "sent" \/ reply'[r] = reply[r])
        /\ \A q \in Replies \ {r} : reply'[q] = reply[q]
    <2>1. CASE SetSend(r, "approved_pending_send")
      <3>1. /\ RepliesMove /\ reply'[r].send = "approved_pending_send"
            /\ \A q \in Replies \ {r} : reply'[q] = reply[q]
        BY <1>1, <2>1, SendValues, SetSendMoves
      <3>. QED BY <3>1
    <2>2. CASE UNCHANGED reply
      BY <2>2, RowsKept
    <2>. QED BY <2>1, <2>2 DEF EnqueueSend
  <1>3. JobsMove
    <2>1. CASE job[r].phase = "absent"
      <3>1. job' = [job EXCEPT ![r].phase = "waiting"]
        BY <2>1 DEF EnqueueSend, Base, TypeOK
      <3>2. job[r].attempts < MaxAttempts
        BY <2>1, DeliveryAssumption DEF Base, JobsFit
      <3>. QED BY <1>1, <3>1, <3>2, PhaseSet
    <2>2. CASE job[r].phase # "absent"
      <3>1. job[r] \in JobRow
        BY DEF Base, TypeOK
      <3>2. job' = [job EXCEPT ![r] = [job[r] EXCEPT !.phase = job[r].phase]]
        BY <2>2 DEF EnqueueSend
      <3>3. [job[r] EXCEPT !.phase = job[r].phase] = job[r]
        BY <3>1 DEF JobRow
      <3>4. job' = job
        BY <3>2, <3>3 DEF Base, TypeOK
      <3>. QED BY <3>4, Kept
    <2>. QED BY <2>1, <2>2
  <1>4. RequestsMove
    BY <1>2, TicketHasStatus, RequestsKept DEF EnqueueSend
  <1>5. CountMoves
    BY <1>2, CountKept DEF EnqueueSend
  <1>. QED BY <1>2, <1>3, <1>4, <1>5, Kept DEF EnqueueSend, Step

LEMMA ApprovalLostSteps ==
    ASSUME Base, NEW r \in Replies, NEW by \in {"approved", "auto_approved"}, ApprovalLost(r, by)
    PROVE  Step
  <1>1. RequestsMove
    BY TicketHasStatus, RowsKept, RequestsKept DEF ApprovalLost
  <1>. QED BY <1>1, CountSame, Kept DEF ApprovalLost, Step

LEMMA RejectReadSteps == ASSUME Base, NEW r \in Replies, RejectRead(r) PROVE Step
  <1>1. RequestsMove
    BY TicketHasStatus, RowsKept, RequestAdded DEF RejectRead
  <1>. QED BY <1>1, CountSame, Kept DEF RejectRead, Step

LEMMA RejectWriteSteps == ASSUME Base, NEW r \in Replies, RejectWrite(r) PROVE Step
  <1>1. reply[r].send # "absent"
    BY DEF RejectWrite, Base, Known
  <1>2. /\ RepliesMove /\ reply'[r].send = "rejected"
        /\ \A q \in Replies \ {r} : reply'[q] = reply[q]
    BY <1>1, SendValues, SetReplyMoves DEF RejectWrite
  <1>3. RequestsMove
    BY <1>2, TicketHasStatus, RequestsKept DEF RejectWrite
  <1>4. CountMoves
    BY <1>2, CountKept DEF RejectWrite
  <1>. QED BY <1>2, <1>3, <1>4, Kept DEF RejectWrite, Step

(* An archive attempt of a reply that was taken.                             *)
LEMMA ArchiveSteps ==
    ASSUME Base, NEW r \in Rma, NEW seen \in TicketStatus, NEW files \in BOOLEAN,
           NEW open \in SUBSET TaskType, reply[r].send # "absent", mail[r].taken > 0,
           Archive(r, seen, files, open), OutboxMoves,
           UNCHANGED <<ledger, job, worker, approving, rejecting, mail>>
    PROVE  Step
  <1>1. /\ RepliesMove /\ TicketSteps /\ tasks' \subseteq TaskType
        /\ ticket'.followups = ticket.followups
        /\ \A q \in Replies \ {r} : reply'[q] = reply[q]
    BY ArchiveMoves
  <1>2. RequestsMove
    BY <1>1, RequestsKept
  <1>3. CountMoves
    BY <1>1, CountKept DEF Rma
  <1>. QED BY <1>1, <1>2, <1>3, Kept DEF Step

LEMMA SentIsTaken ==
    ASSUME Base, NEW r \in Replies, reply[r].send = "sent"
    PROVE  reply[r].send # "absent" /\ mail[r].taken > 0
  BY DEF Base, RecordsTrue

LEMMA RetryArchiveSteps == ASSUME Base, NEW r \in Replies, RetryArchive(r) PROVE Step
  <1>1. PICK files \in BOOLEAN : Archive(r, ticket.status, files, tasks)
    BY DEF RetryArchive
  <1>. QED BY <1>1, SentIsTaken, TicketHasStatus, Kept, ArchiveSteps DEF RetryArchive

LEMMA RetrySendSteps == ASSUME Base, NEW r \in Replies, RetrySend(r) PROVE Step
  <1>1. PICK files \in BOOLEAN : Archive(r, ticket.status, files, tasks \ {"rma"})
    BY DEF RetrySend
  <1>2. tasks \ {"rma"} \in SUBSET TaskType
    BY TicketHasStatus
  <1>. QED BY <1>1, <1>2, SentIsTaken, TicketHasStatus, Kept, ArchiveSteps DEF RetrySend

LEMMA ReuseSentSteps == ASSUME Base, NEW r \in Replies, ReuseSent(r) PROVE Step
  <1>1. /\ r \in Rma /\ reply[r].send = "sent" /\ reply[r] \in ReplyRow
        /\ mail[r].taken > 0 /\ OutboxMoves
    BY SentIsTaken, Kept DEF ReuseSent, Base, TypeOK
  <1>2. PICK files \in BOOLEAN :
           \/ Archive(r, "rma_sent", files, tasks)
           \/ LET filed == reply[r].filed \/ files IN
              /\ reply' = [reply EXCEPT ![r] = [@ EXCEPT !.filed = filed,
                                                        !.archive = "archive_failed"]]
              /\ tasks' = tasks \cup {"reply"}
              /\ ticket' = [ticket EXCEPT !.status = "rma_sent"]
    BY DEF ReuseSent
  <1>. DEFINE filed == reply[r].filed \/ files
              row == [reply[r] EXCEPT !.filed = filed, !.archive = "archive_failed"]
  <1>3. CASE Archive(r, "rma_sent", files, tasks)
    <2>1. "rma_sent" \in TicketStatus
      BY DEF TicketStatus
    <2>. QED BY <1>1, <1>3, <2>1, TicketHasStatus, ArchiveSteps DEF ReuseSent
  <1>4. CASE /\ reply' = [reply EXCEPT ![r] = row]
             /\ tasks' = tasks \cup {"reply"}
             /\ ticket' = [ticket EXCEPT !.status = "rma_sent"]
    <2>1. /\ row \in ReplyRow /\ row.rma = reply[r].rma /\ row.intact = reply[r].intact
          /\ (reply[r].filed => row.filed) /\ row.send = "sent"
      BY <1>1 DEF ReplyRow
    <2>. HIDE DEF row
    <2>3. RepliesMove /\ \A q \in Replies \ {r} : reply'[q] = reply[q]
      BY <1>1, <1>4, <2>1, RowSet
    <2>4. TicketSteps /\ ticket'.followups = ticket.followups
      BY <1>4, StatusSet DEF TicketStatus
    <2>5. tasks' \subseteq TaskType
      BY <1>4, TicketHasStatus DEF TaskType
    <2>6. RequestsMove
      BY <2>3, <2>5, RequestsKept DEF ReuseSent
    <2>7. CountMoves
      BY <1>1, <2>3, <2>4, CountKept DEF Rma
    <2>. QED BY <2>3, <2>4, <2>6, <2>7, Kept DEF ReuseSent, Step
  <1>. QED BY <1>2, <1>3, <1>4

LEMMA ReconciledOutbox ==
    ASSUME Base, NEW r \in Replies, NEW status \in OutboxStatus,
           status = "accepted" => mail[r].taken > 0,
           outbox' = [outbox EXCEPT ![r] = IF @ = "none" THEN @ ELSE status]
    PROVE  OutboxMoves
  BY DEF Base, TypeOK, OutboxMoves

(* A follow-up that is counted: the count never passes the limit.            *)
LEMMA OneMoreCounts ==
    ASSUME MaxFollowups > 0, NEW n \in 0..MaxFollowups
    PROVE  OneMore(n) \in 0..MaxFollowups /\ OneMore(n) > 0
  BY DeliveryAssumption DEF OneMore

LEMMA FollowupCounted ==
    ASSUME Base, NEW r \in Replies, r \notin Rma, mail[r].taken > 0, reply[r].send # "absent",
           NEW n \in 0..MaxFollowups, NEW status \in TicketStatus \ {"closed"},
           \/ ticket' = [ticket EXCEPT !.followups = OneMore(n), !.status = status]
           \/ ticket' = [ticket EXCEPT !.followups = OneMore(n)]
    PROVE  TicketSteps /\ CountMoves
  <1>1. MaxFollowups > 0 /\ reply[r].rma = FALSE
    BY DEF Base, DraftsAllowed, DraftedFor, Rma, TypeOK, ReplyRow
  <1>2. OneMore(n) \in 0..MaxFollowups /\ OneMore(n) > 0
    BY <1>1, OneMoreCounts
  <1>3. /\ ticket' \in TicketRow /\ ticket'.policy = ticket.policy
        /\ ticket'.followups = OneMore(n)
        /\ ticket'.status = status \/ ticket'.status = ticket.status
    BY <1>2 DEF Base, TypeOK, TicketRow
  <1>4. TicketSteps
    BY <1>3 DEF TicketSteps
  <1>5. CountMoves
    BY <1>2, <1>3 DEF CountMoves, FollowupTaken
  <1>. QED BY <1>4, <1>5

LEMMA ReconcileSentSteps == ASSUME Base, NEW r \in Replies, ReconcileSent(r) PROVE Step
  <1>1. reply[r].send = "send_uncertain" /\ mail[r].taken > 0 /\ OutboxMoves
    BY ReconciledOutbox DEF ReconcileSent, OutboxStatus
  <1>2. CASE r \in Rma
    <2>1. PICK files \in BOOLEAN : Archive(r, ticket.status, files, tasks)
      BY <1>2 DEF ReconcileSent
    <2>. QED BY <1>1, <1>2, <2>1, TicketHasStatus, ArchiveSteps DEF ReconcileSent
  <1>3. CASE r \notin Rma
    <2>1. SetSend(r, "sent") /\ UNCHANGED tasks
      BY <1>3 DEF ReconcileSent
    <2>2. ticket' = [ticket EXCEPT !.followups = OneMore(ticket.followups),
              !.status = IF ticket.status = "need_customer_info" THEN "auto_replied"
                                                                 ELSE ticket.status]
      BY <1>3 DEF ReconcileSent
    <2>3. ticket.followups \in 0..MaxFollowups /\ ticket \in TicketRow
      BY DEF Base, TypeOK, TicketRow
    <2>4. \/ ticket' = [ticket EXCEPT !.followups = OneMore(ticket.followups),
                                     !.status = "auto_replied"]
          \/ ticket' = [ticket EXCEPT !.followups = OneMore(ticket.followups)]
      BY <2>2, <2>3 DEF TicketRow
    <2>5. "auto_replied" \in TicketStatus \ {"closed"}
      BY DEF TicketStatus
    <2>6. TicketSteps /\ CountMoves
      BY <1>1, <1>3, <2>3, <2>4, <2>5, FollowupCounted
    <2>7. RepliesMove
      BY <1>1, <2>1, SendValues, SetSendMoves
    <2>8. RequestsMove
      BY <2>1, <2>7, TicketHasStatus, RequestsKept DEF ReconcileSent
    <2>. QED BY <1>1, <2>6, <2>7, <2>8, Kept DEF ReconcileSent, Step
  <1>. QED BY <1>2, <1>3

LEMMA ReconcileFailedSteps == ASSUME Base, NEW r \in Replies, ReconcileFailed(r) PROVE Step
  <1>1. OutboxMoves
    BY ReconciledOutbox DEF ReconcileFailed, OutboxStatus
  <1>2. /\ RepliesMove /\ reply'[r].send = "send_failed"
        /\ \A q \in Replies \ {r} : reply'[q] = reply[q]
    BY SendValues, SetSendMoves DEF ReconcileFailed
  <1>3. RequestsMove
    BY <1>2, TicketHasStatus, RequestsKept DEF ReconcileFailed
  <1>4. CountMoves
    BY <1>2, CountKept DEF ReconcileFailed
  <1>. QED BY <1>1, <1>2, <1>3, <1>4, Kept DEF ReconcileFailed, Step
-----------------------------------------------------------------------------
(* So are those of the rest of the system, and the recovery of jobs.         *)
LEMMA ElsewhereSteps ==
    ASSUME Base, TicketSteps, tasks' \subseteq TaskType,
           UNCHANGED <<reply, outbox, ledger, job, worker, approving, rejecting, mail>>,
           ticket'.followups = ticket.followups
    PROVE  Step
  <1>1. RequestsMove
    BY RowsKept, RequestsKept
  <1>. QED BY <1>1, CountSame, Kept DEF Step

LEMMA TicketMovesSteps == ASSUME Base, TicketMoves PROVE Step
  <1>1. PICK status \in TicketStatus \ {"closed"} : ticket' = [ticket EXCEPT !.status = status]
    BY DEF TicketMoves, TicketStatus
  <1>2. TicketSteps /\ ticket'.followups = ticket.followups
    BY <1>1, StatusSet
  <1>. QED BY <1>2, TicketHasStatus, ElsewhereSteps DEF TicketMoves

LEMMA TaskSteps ==
    ASSUME Base, tasks' \subseteq TaskType,
           UNCHANGED <<reply, outbox, ledger, ticket, job, worker, approving, rejecting, mail>>
    PROVE  Step
  BY TicketKept, ElsewhereSteps

LEMMA BounceSteps == ASSUME Base, NEW r \in Replies, Bounce(r) PROVE Step
  BY TicketHasStatus, TaskSteps DEF Bounce, TaskType

LEMMA IssueRefusedSteps == ASSUME Base, IssueRefused PROVE Step
  BY TicketHasStatus, TaskSteps DEF IssueRefused, TaskType

LEMMA ResolveTaskSteps == ASSUME Base, NEW type \in TaskType, ResolveTask(type) PROVE Step
  BY TicketHasStatus, TaskSteps DEF ResolveTask

LEMMA ReleasePolicySteps == ASSUME Base, ReleasePolicy PROVE Step
  <1>1. TicketSteps /\ ticket'.followups = ticket.followups
    BY DEF ReleasePolicy, Base, TypeOK, TicketRow, Policy, TicketSteps
  <1>. QED BY <1>1, TicketHasStatus, ElsewhereSteps DEF ReleasePolicy

LEMMA RecountSteps == ASSUME Base, Recount PROVE Step
  <1>. DEFINE sent == {r \in Replies \ Rma : reply[r].send = "sent"}
  <1>1. Cardinality(sent) <= MaxFollowups
        /\ ticket' = [ticket EXCEPT !.followups = Cardinality(sent)]
    BY DEF Recount
  <1>2. IsFiniteSet(sent)
    BY DeliveryAssumption, FS_Subset
  <1>3. Cardinality(sent) \in Nat /\ (Cardinality(sent) = 0 <=> sent = {})
    BY <1>2, FS_CardinalityType, FS_EmptySet
  <1>4. Cardinality(sent) \in 0..MaxFollowups
    BY <1>1, <1>3, DeliveryAssumption
  <1>5. TicketSteps /\ ticket'.followups = Cardinality(sent)
    BY <1>1, <1>4 DEF Base, TypeOK, TicketRow, TicketSteps
  <1>6. CountMoves
    <2>1. CASE sent = {}
      <3>1. \A r \in Replies \ Rma : reply'[r].send # "sent"
        BY <2>1 DEF Recount
      <3>. QED BY <1>3, <1>5, <2>1, <3>1 DEF CountMoves
    <2>2. CASE sent # {}
      <3>1. PICK r \in Replies \ Rma : reply[r].send = "sent"
        BY <2>2
      <3>2. FollowupTaken
        BY <3>1, SentIsTaken DEF FollowupTaken
      <3>3. ticket'.followups > 0
        BY <1>3, <1>5, <2>2
      <3>. QED BY <3>2, <3>3 DEF CountMoves
    <2>. QED BY <2>1, <2>2
  <1>7. RequestsMove
    BY RowsKept, TicketHasStatus, RequestsKept DEF Recount
  <1>. QED BY <1>5, <1>6, <1>7, Kept DEF Recount, Step

LEMMA RecoverSteps == ASSUME Base, NEW r \in Replies, Recover(r) PROVE Step
  <1>1. PICK phase \in {"waiting"} \cup Ended :
           /\ job' = [job EXCEPT ![r].phase = phase]
           /\ phase = "waiting" => job[r].attempts < MaxAttempts
    BY RetryOrIs DEF Recover, Ended
  <1>2. JobsMove
    BY <1>1, PhaseSet DEF Recover
  <1>3. RequestsMove
    BY RowsKept, TicketHasStatus, RequestsKept DEF Recover
  <1>. QED BY <1>2, <1>3, CountSame, Kept DEF Recover, Step
-----------------------------------------------------------------------------
(* And so are the workers' own steps.                                        *)
LEMMA SessionAdvances ==
    ASSUME Base, RepliesMove, MailMoves, JobsMove, NEW w \in Workers, worker[w].pc # "idle",
           NEW session \in Session, worker' = [worker EXCEPT ![w] = session],
           session.reply = worker[w].reply,
           session.pc = "answered" /\ session.answer = "accepted"
              => mail'[session.reply].taken > 0,
           session.pc = "recorded" => /\ session.reply \in Rma /\ reply'[session.reply].filed
                                      /\ mail'[session.reply].taken > 0,
           session.followups > 0 => FollowupTaken
    PROVE  WorkersMove
  <1>1. worker'[w] = session
    BY DEF Base, TypeOK
  <1>2. session.reply \in Replies /\ job'[session.reply].phase # "absent"
    BY Holds DEF JobsMove
  <1>3. session.followups > 0 => FollowupTaken'
    BY TakenStays DEF Base
  <1>4. session.reply \in Rma => reply'[session.reply].rma
    BY <1>2, RmaStays DEF Rma, Base
  <1>5. SessionFits(w)'
    BY <1>1, <1>2, <1>3, <1>4 DEF SessionFits, Loaded
  <1>. QED BY <1>5, SessionSet

LEMMA SessionTyped ==
    ASSUME Base, NEW w \in Workers
    PROVE  worker[w] \in Session /\ SessionFits(w)
  BY DEF Base, TypeOK, SessionsFit

LEMMA FailureMoves ==
    ASSUME Base, NEW r \in Replies, reply[r].send # "absent",
           NEW send \in {"send_failed", "send_uncertain"}, NEW seen \in TicketStatus,
           SetSend(r, send), OpenTask(tasks, seen), UNCHANGED <<approving, rejecting>>
    PROVE  /\ RepliesMove /\ TicketSteps /\ RequestsMove /\ CountMoves
           /\ \/ ticket'.status = ticket.status
              \/ ticket'.status = "manual_review" /\ seen \notin Late
           /\ \A q \in Replies \ {r} : reply'[q] = reply[q]
  <1>1. /\ RepliesMove /\ reply'[r].send = send
        /\ \A q \in Replies \ {r} : reply'[q] = reply[q]
    BY SendValues, SetSendMoves
  <1>2. /\ TicketSteps /\ tasks' \subseteq TaskType /\ ticket'.followups = ticket.followups
        /\ \/ ticket'.status = ticket.status
           \/ ticket'.status = "manual_review" /\ seen \notin Late
    BY TicketHasStatus, OpenTaskMoves
  <1>3. RequestsMove
    BY <1>1, <1>2, RequestsKept
  <1>4. CountMoves
    BY <1>1, <1>2, CountKept
  <1>. QED BY <1>1, <1>2, <1>3, <1>4

LEMMA ClaimSteps ==
    ASSUME Base, NEW w \in Workers, NEW r \in Replies, Claim(w, r) PROVE Step
  <1>1. job[r] \in JobRow /\ job[r].phase = "waiting" /\ job[r].attempts < MaxAttempts
    BY DEF Claim, Base, TypeOK, JobsFit
  <1>2. job[r].attempts + 1 \in 0..MaxAttempts
    BY <1>1, DeliveryAssumption DEF JobRow
  <1>. DEFINE row == [job[r] EXCEPT !.phase = "begun", !.attempts = @ + 1]
              session == [worker[w] EXCEPT !.pc = "claimed", !.reply = r]
  <1>3. row \in JobRow /\ row.phase = "begun"
    BY <1>1, <1>2 DEF JobRow
  <1>4. job' = [job EXCEPT ![r] = row] /\ worker' = [worker EXCEPT ![w] = session]
    BY DEF Claim
  <1>5. session \in Session /\ session.pc = "claimed" /\ session.reply = r
    BY SessionTyped DEF Session
  <1>. HIDE DEF row, session
  <1>6. JobsMove /\ job'[r].phase = "begun"
    BY <1>1, <1>3, <1>4, JobSet DEF Base, TypeOK
  <1>7. SessionFits(w)'
    BY <1>4, <1>5, <1>6 DEF SessionFits, Loaded, Base, TypeOK
  <1>8. WorkersMove
    BY <1>4, <1>5, <1>7, SessionSet
  <1>9. RequestsMove
    BY RowsKept, TicketHasStatus, RequestsKept DEF Claim
  <1>. QED BY <1>6, <1>8, <1>9, CountSame, Kept DEF Claim, Step

LEMMA FindSentSteps == ASSUME Base, NEW w \in Workers, FindSent(w) PROVE Step
  <1>. DEFINE r == worker[w].reply
  <1>1. /\ worker[w].pc # "idle" /\ r \in Replies /\ reply[r].send = "sent"
        /\ mail[r].taken > 0 /\ reply[r] \in ReplyRow
    BY Holds, SentIsTaken DEF FindSent, Base, TypeOK
  <1>2. "success" \in {"waiting"} \cup Ended /\ "success" # "waiting"
    BY DEF Ended
  <1>3. JobsMove /\ WorkersMove
    BY <1>1, <1>2, EndJobMoves DEF FindSent
  <1>4. /\ RepliesMove /\ TicketSteps /\ tasks' \subseteq TaskType /\ CountMoves
    <2>1. CASE r \in Rma
      <3>1. reply[r].filed \in BOOLEAN /\ FinalizeIssue(r, reply[r].filed, ticket.status)
        BY <1>1, <2>1 DEF ReplyRow, FindSent
      <3>2. /\ RepliesMove /\ TicketSteps /\ tasks' \subseteq TaskType
            /\ ticket'.followups = ticket.followups
            /\ \A q \in Replies \ {r} : reply'[q] = reply[q]
        BY <1>1, <2>1, <3>1, TicketHasStatus, FinalizeIssueMoves
      <3>. QED BY <1>1, <2>1, <3>2, CountKept
    <2>2. CASE r \notin Rma
      BY <2>2, TicketHasStatus, CountSame, Kept DEF FindSent
    <2>. QED BY <2>1, <2>2
  <1>5. RequestsMove
    BY <1>4, RequestsKept DEF FindSent
  <1>. QED BY <1>3, <1>4, <1>5, Kept DEF FindSent, Step

LEMMA FindUncertainSteps == ASSUME Base, NEW w \in Workers, FindUncertain(w) PROVE Step
  <1>1. /\ worker[w].pc # "idle" /\ worker[w].reply \in Replies
        /\ reply[worker[w].reply].send # "absent"
    BY Holds DEF FindUncertain
  <1>2. JobsMove /\ WorkersMove
    BY <1>1, EndJobMoves DEF FindUncertain, Ended
  <1>3. RepliesMove /\ TicketSteps /\ RequestsMove /\ CountMoves
    BY <1>1, TicketHasStatus, FailureMoves DEF FindUncertain
  <1>. QED BY <1>2, <1>3, Kept DEF FindUncertain, Step

LEMMA BlockSteps ==
    ASSUME Base, NEW w \in Workers, NEW broken \in BOOLEAN, NEW retryable \in BOOLEAN,
           Block(w, broken, retryable)
    PROVE  Step
  <1>. DEFINE r == worker[w].reply
  <1>1. worker[w].pc # "idle" /\ r \in Replies /\ reply[r].send # "absent"
    BY Holds DEF Block, Loadable
  <1>2. PICK phase \in {"waiting"} \cup Ended :
           EndJob(w, phase) /\ (phase = "waiting" => job[r].attempts < MaxAttempts)
    BY <1>1, RetryOrIs DEF Block, Ended
  <1>3. JobsMove /\ WorkersMove
    BY <1>1, <1>2, EndJobMoves
  <1>4. RepliesMove /\ TicketSteps /\ RequestsMove /\ CountMoves
    BY <1>1, TicketHasStatus, FailureMoves DEF Block
  <1>5. OutboxMoves
    <2>1. CASE broken
      <3>1. "failed_terminal" \in OutboxStatus
        BY DEF OutboxStatus
      <3>. QED BY <1>1, <2>1, <3>1, OutboxSet DEF Block
    <2>2. CASE ~broken
      BY <2>2, Kept DEF Block
    <2>. QED BY <2>1, <2>2
  <1>. QED BY <1>3, <1>4, <1>5, Kept DEF Block, Step

LEMMA FreezeSteps == ASSUME Base, NEW w \in Workers, Freeze(w) PROVE Step
  <1>. DEFINE r == worker[w].reply
              session == [worker[w] EXCEPT !.pc = "frozen", !.outbox = outbox[r],
                             !.status = ticket.status, !.followups = ticket.followups]
  <1>1. worker[w].pc # "idle" /\ r \in Replies
    BY Holds DEF Freeze, Loadable
  <1>2. worker' = [worker EXCEPT ![w] = session]
    BY DEF Freeze
  <1>3. outbox[r] \in OutboxStatus /\ ticket \in TicketRow
    BY <1>1 DEF Base, TypeOK
  <1>4. /\ session \in Session /\ session.pc = "frozen" /\ session.reply = r
        /\ session.followups = ticket.followups
    BY <1>3, SessionTyped DEF Session, TicketRow
  <1>5. ticket.followups > 0 => FollowupTaken
    BY DEF Base, FollowupsCounted, FollowupTaken
  <1>. HIDE DEF session
  <1>6. RepliesMove /\ MailMoves /\ JobsMove
    BY Kept DEF Freeze
  <1>7. WorkersMove
    BY <1>1, <1>2, <1>4, <1>5, <1>6, SessionAdvances
  <1>8. RequestsMove
    BY RowsKept, TicketHasStatus, RequestsKept DEF Freeze
  <1>. QED BY <1>7, <1>8, CountSame, Kept DEF Freeze, Step

LEMMA SkipSmtpSteps == ASSUME Base, NEW w \in Workers, SkipSmtp(w) PROVE Step
  <1>. DEFINE session == [worker[w] EXCEPT !.pc = "answered", !.answer = "accepted"]
  <1>1. /\ worker[w].pc = "frozen" /\ worker[w].reply \in Replies
        /\ mail[worker[w].reply].taken > 0
    BY Holds DEF SkipSmtp, Base, RecordsTrue
  <1>2. worker' = [worker EXCEPT ![w] = session]
    BY DEF SkipSmtp
  <1>3. /\ session \in Session /\ session.pc = "answered" /\ session.reply = worker[w].reply
        /\ session.followups = worker[w].followups
    BY SessionTyped DEF Session, Answers
  <1>4. worker[w].followups > 0 => FollowupTaken
    BY <1>1, SessionTyped DEF SessionFits, Loaded
  <1>. HIDE DEF session
  <1>5. RepliesMove /\ MailMoves /\ JobsMove /\ mail' = mail
    BY Kept DEF SkipSmtp
  <1>6. WorkersMove
    BY <1>1, <1>2, <1>3, <1>4, <1>5, SessionAdvances
  <1>7. RequestsMove
    BY RowsKept, TicketHasStatus, RequestsKept DEF SkipSmtp
  <1>. QED BY <1>6, <1>7, CountSame, Kept DEF SkipSmtp, Step

LEMMA BeginSmtpSteps == ASSUME Base, NEW w \in Workers, BeginSmtp(w) PROVE Step
  <1>. DEFINE r == worker[w].reply
              row == [reply[r] EXCEPT !.send = "sending",
                         !.archive = IF r \in Rma THEN "archive_pending" ELSE @]
              session == [worker[w] EXCEPT !.pc = "calling"]
  <1>1. /\ worker[w].pc = "frozen" /\ r \in Replies /\ reply[r].send # "absent"
        /\ reply[r] \in ReplyRow
    BY Holds DEF BeginSmtp, Base, TypeOK
  <1>2. reply' = [reply EXCEPT ![r] = row] /\ worker' = [worker EXCEPT ![w] = session]
    BY DEF BeginSmtp, SessionTyped, Session
  <1>3. /\ row \in ReplyRow /\ row.rma = reply[r].rma /\ row.intact = reply[r].intact
        /\ row.filed = reply[r].filed /\ row.send = "sending"
    BY <1>1, SendValues DEF ReplyRow
  <1>4. /\ session \in Session /\ session.pc = "calling" /\ session.reply = r
        /\ session.followups = worker[w].followups
    BY SessionTyped DEF Session
  <1>5. worker[w].followups > 0 => FollowupTaken
    BY <1>1, SessionTyped DEF SessionFits, Loaded
  <1>. HIDE DEF row, session
  <1>6. /\ RepliesMove /\ reply'[r].send = "sending"
        /\ \A q \in Replies \ {r} : reply'[q] = reply[q]
    BY <1>1, <1>2, <1>3, RowSet
  <1>7. OutboxMoves
    BY <1>1, OutboxSet DEF BeginSmtp, OutboxStatus
  <1>8. LedgerMoves
    BY <1>1 DEF BeginSmtp, Started, Base, TypeOK, LedgerMoves, LedgerStatus
  <1>9. MailMoves /\ JobsMove /\ TicketSteps /\ ticket'.followups = ticket.followups
    BY Kept DEF BeginSmtp
  <1>10. WorkersMove
    BY <1>1, <1>2, <1>4, <1>5, <1>6, <1>9, SessionAdvances
  <1>11. RequestsMove
    BY <1>6, TicketHasStatus, RequestsKept DEF BeginSmtp
  <1>12. CountMoves
    BY <1>1, <1>6, <1>9, CountKept
  <1>. QED BY <1>6, <1>7, <1>8, <1>9, <1>10, <1>11, <1>12 DEF Step

LEMMA TransmitSteps ==
    ASSUME Base, NEW w \in Workers, NEW answer \in Answers, NEW taken \in BOOLEAN,
           Transmit(w, answer, taken)
    PROVE  Step
  <1>. DEFINE r == worker[w].reply
              session == [worker[w] EXCEPT !.pc = "answered", !.answer = answer]
              taken1 == IF taken THEN mail[r].taken + 1 ELSE mail[r].taken
              risky1 == IF answer \in {"rejected", "terminal"} THEN mail[r].risky
                                                              ELSE mail[r].risky + 1
              row == [mail[r] EXCEPT !.taken = taken1, !.risky = risky1]
  <1>1. /\ worker[w].pc = "calling" /\ r \in Replies /\ job[r].phase # "absent"
        /\ mail[r] \in [risky : Nat, taken : Nat]
    BY Holds DEF Transmit, Base, TypeOK
  <1>2. worker' = [worker EXCEPT ![w] = session] /\ mail' = [mail EXCEPT ![r] = row]
    BY DEF Transmit
  <1>3. /\ session \in Session /\ session.pc = "answered" /\ session.reply = r
        /\ session.answer = answer /\ session.followups = worker[w].followups
    BY SessionTyped DEF Session
  <1>4. taken1 \in Nat /\ risky1 \in Nat /\ mail[r].taken \in Nat /\ (taken => taken1 > 0)
        /\ (mail[r].taken > 0 => taken1 > 0)
    BY <1>1
  <1>5. worker[w].followups > 0 => FollowupTaken
    BY <1>1, SessionTyped DEF SessionFits, Loaded
  <1>. HIDE DEF taken1, risky1, session
  <1>r. row \in [risky : Nat, taken : Nat] /\ row.taken = taken1
    BY <1>1, <1>4
  <1>. HIDE DEF row
  <1>6. mail' \in [Replies -> [risky : Nat, taken : Nat]] /\ mail'[r] = row
        /\ \A q \in Replies \ {r} : mail'[q] = mail[q]
    BY <1>1, <1>2, <1>r DEF Base, TypeOK
  <1>7. (mail[r].taken > 0 => mail'[r].taken > 0) /\ (taken => mail'[r].taken > 0)
    BY <1>4, <1>6, <1>r
  <1>8. MailMoves
    BY <1>1, <1>6, <1>7 DEF MailMoves
  <1>9. RepliesMove /\ JobsMove
    BY Kept DEF Transmit
  <1>10. answer = "accepted" => mail'[r].taken > 0
    BY <1>7 DEF Transmit
  <1>11. WorkersMove
    BY <1>1, <1>2, <1>3, <1>5, <1>8, <1>9, <1>10, SessionAdvances
  <1>12. RequestsMove
    BY RowsKept, TicketHasStatus, RequestsKept DEF Transmit
  <1>. QED BY <1>8, <1>11, <1>12, CountSame, Kept DEF Transmit, Step

LEMMA SentAndFiledMoves ==
    ASSUME Base, NEW r \in Replies, reply[r].send # "absent", mail[r].taken > 0,
           NEW archive \in {"not_started", "archive_pending", "archived", "archive_failed"},
           reply' = [SentAndFiled(r) EXCEPT ![r].archive = archive]
    PROVE  /\ RepliesMove /\ reply'[r].filed /\ reply'[r].send = "sent"
           /\ \A q \in Replies \ {r} : reply'[q] = reply[q]
  <1>. DEFINE row == [reply[r] EXCEPT !.send = "sent", !.filed = TRUE, !.archive = archive]
  <1>1. reply[r] \in ReplyRow
    BY DEF Base, TypeOK
  <1>2. reply' = [reply EXCEPT ![r] = row]
    BY <1>1 DEF SentAndFiled, Base, TypeOK, ReplyRow
  <1>3. /\ row \in ReplyRow /\ row.rma = reply[r].rma /\ row.intact = reply[r].intact
        /\ row.filed = TRUE /\ row.send = "sent"
    BY <1>1, SendValues DEF ReplyRow
  <1>. HIDE DEF row
  <1>4. /\ RepliesMove /\ reply'[r] = row
        /\ \A q \in Replies \ {r} : reply'[q] = reply[q]
    BY <1>2, <1>3, RowSet
  <1>. QED BY <1>3, <1>4

(* A reply whose acceptance a worker records was taken.                      *)
LEMMA AnsweredIsTaken ==
    ASSUME Base, NEW w \in Workers, worker[w].pc = "answered", worker[w].answer = "accepted"
    PROVE  /\ worker[w].reply \in Replies /\ mail[worker[w].reply].taken > 0
           /\ reply[worker[w].reply].send # "absent"
           /\ reply[worker[w].reply] \in ReplyRow
           /\ worker[w].status \in TicketStatus /\ worker[w].followups \in 0..MaxFollowups
  BY Holds, SessionTyped DEF SessionFits, Base, TypeOK, Session

LEMMA AcceptanceRecorded ==
    ASSUME Base, NEW r \in Replies, mail[r].taken > 0,
           outbox' = [outbox EXCEPT ![r] = "accepted"],
           ledger' = [ledger EXCEPT ![r] = "succeeded"]
    PROVE  OutboxMoves /\ LedgerMoves
  <1>1. "accepted" \in OutboxStatus /\ "succeeded" \in LedgerStatus
    BY DEF OutboxStatus, LedgerStatus
  <1>2. OutboxMoves
    BY <1>1, OutboxSet
  <1>. QED BY <1>1, <1>2 DEF LedgerMoves, Base, TypeOK

LEMMA RecordFollowupSteps == ASSUME Base, NEW w \in Workers, RecordFollowup(w) PROVE Step
  <1>. DEFINE r == worker[w].reply
  <1>1. /\ worker[w].pc = "answered" /\ r \in Replies /\ r \notin Rma /\ mail[r].taken > 0
        /\ reply[r].send # "absent" /\ reply[r] \in ReplyRow
        /\ worker[w].status \in TicketStatus /\ worker[w].followups \in 0..MaxFollowups
    BY AnsweredIsTaken DEF RecordFollowup
  <1>2. reply' = [SentAndFiled(r) EXCEPT ![r].archive = reply[r].archive]
    BY <1>1 DEF RecordFollowup, SentAndFiled, ReplyRow, Base, TypeOK
  <1>3. RepliesMove
    BY <1>1, <1>2, SentAndFiledMoves DEF ReplyRow
  <1>4. OutboxMoves /\ LedgerMoves
    BY <1>1, AcceptanceRecorded DEF RecordFollowup
  <1>5. ticket \in TicketRow
    BY DEF Base, TypeOK
  <1>6. \/ ticket' = [ticket EXCEPT !.followups = OneMore(worker[w].followups),
                                   !.status = "auto_replied"]
        \/ ticket' = [ticket EXCEPT !.followups = OneMore(worker[w].followups)]
    BY <1>5 DEF RecordFollowup, TicketRow
  <1>7. "auto_replied" \in TicketStatus \ {"closed"}
    BY DEF TicketStatus
  <1>8. TicketSteps /\ CountMoves
    BY <1>1, <1>6, <1>7, FollowupCounted
  <1>9. JobsMove /\ WorkersMove
    BY <1>1, EndJobMoves DEF RecordFollowup, Ended
  <1>10. RequestsMove
    BY <1>3, TicketHasStatus, RequestsKept DEF RecordFollowup
  <1>. QED BY <1>3, <1>4, <1>8, <1>9, <1>10, Kept DEF RecordFollowup, Step

LEMMA RecordRmaSteps == ASSUME Base, NEW w \in Workers, RecordRma(w) PROVE Step
  <1>. DEFINE r == worker[w].reply
              status == IF worker[w].status = "ready_for_export" THEN "rma_sent"
                                                                  ELSE worker[w].status
              session == [worker[w] EXCEPT !.pc = "recorded", !.status = status]
  <1>1. /\ worker[w].pc = "answered" /\ r \in Replies /\ r \in Rma /\ mail[r].taken > 0
        /\ reply[r].send # "absent" /\ reply[r] \in ReplyRow
        /\ worker[w].status \in TicketStatus /\ worker[w].followups \in 0..MaxFollowups
    BY AnsweredIsTaken DEF RecordRma
  <1>2. PICK archive \in {"not_started", "archive_pending", "archived", "archive_failed"} :
           reply' = [SentAndFiled(r) EXCEPT ![r].archive = archive]
    <2>1. CASE ledger[r] = "succeeded"
      BY <2>1 DEF RecordRma
    <2>2. CASE ledger[r] # "succeeded"
      <3>1. reply' = [SentAndFiled(r) EXCEPT ![r].archive = reply[r].archive]
        BY <1>1, <2>2 DEF RecordRma, SentAndFiled, ReplyRow, Base, TypeOK
      <3>. QED BY <1>1, <3>1 DEF ReplyRow
    <2>. QED BY <2>1, <2>2
  <1>3. /\ RepliesMove /\ reply'[r].filed
        /\ \A q \in Replies \ {r} : reply'[q] = reply[q]
    BY <1>1, <1>2, SentAndFiledMoves
  <1>4. OutboxMoves /\ LedgerMoves
    BY <1>1, AcceptanceRecorded DEF RecordRma
  <1>5. TicketSteps /\ ticket'.followups = ticket.followups
    <2>1. CASE worker[w].status = "ready_for_export"
      BY <2>1, StatusSet DEF RecordRma, TicketStatus
    <2>2. CASE worker[w].status # "ready_for_export"
      BY <2>2, TicketKept DEF RecordRma
    <2>. QED BY <2>1, <2>2
  <1>6. CountMoves
    BY <1>1, <1>3, <1>5, CountKept
  <1>7. /\ session \in Session /\ session.pc = "recorded" /\ session.reply = r
        /\ session.followups = worker[w].followups
    <2>1. status \in TicketStatus
      BY <1>1 DEF TicketStatus
    <2>. QED BY <2>1, SessionTyped DEF Session
  <1>8. worker' = [worker EXCEPT ![w] = session]
    BY DEF RecordRma
  <1>9. worker[w].followups > 0 => FollowupTaken
    BY <1>1, SessionTyped DEF SessionFits, Loaded
  <1>10. JobsMove /\ MailMoves /\ mail' = mail
    BY Kept DEF RecordRma
  <1>. HIDE DEF session, status
  <1>11. WorkersMove
    BY <1>1, <1>3, <1>7, <1>8, <1>9, <1>10, SessionAdvances
  <1>12. RequestsMove
    BY <1>3, TicketHasStatus, RequestsKept DEF RecordRma
  <1>. QED BY <1>3, <1>4, <1>5, <1>6, <1>10, <1>11, <1>12 DEF Step

LEMMA RecordedIsFiled ==
    ASSUME Base, NEW w \in Workers, worker[w].pc = "recorded"
    PROVE  /\ worker[w].reply \in Rma /\ reply[worker[w].reply].send # "absent"
           /\ mail[worker[w].reply].taken > 0 /\ reply[worker[w].reply].filed
           /\ worker[w].status \in TicketStatus
  BY Holds, SessionTyped DEF SessionFits, Session, Rma

LEMMA FinalizeSteps == ASSUME Base, NEW w \in Workers, Finalize(w) PROVE Step
  <1>. DEFINE r == worker[w].reply
  <1>1. /\ worker[w].pc = "recorded" /\ r \in Rma /\ reply[r].send # "absent"
        /\ mail[r].taken > 0 /\ reply[r].filed /\ worker[w].status \in TicketStatus
    BY RecordedIsFiled DEF Finalize
  <1>2. /\ RepliesMove /\ TicketSteps /\ tasks' \subseteq TaskType
        /\ ticket'.followups = ticket.followups
        /\ \A q \in Replies \ {r} : reply'[q] = reply[q]
    BY <1>1, FinalizeIssueMoves DEF Finalize
  <1>3. JobsMove /\ WorkersMove
    BY <1>1, EndJobMoves DEF Finalize, Ended
  <1>4. RequestsMove
    BY <1>2, RequestsKept DEF Finalize
  <1>5. CountMoves
    BY <1>1, <1>2, CountKept DEF Rma
  <1>. QED BY <1>2, <1>3, <1>4, <1>5, Kept DEF Finalize, Step

LEMMA AfterValues ==
    ASSUME NEW answer \in Answers \ {"accepted"}
    PROVE  /\ SendAfter(answer) \in {"send_failed", "send_uncertain"}
           /\ OutboxAfter(answer) \in OutboxStatus \ {"accepted"}
           /\ OutboxAfter(answer) \in Sendable \cup {"none"} => answer = "rejected"
           /\ LedgerAfter(answer) \in LedgerStatus \ {"succeeded"}
           /\ LedgerAfter(answer) \in {"failed_retryable", "failed_terminal"}
              => answer \in {"rejected", "terminal"}
  BY DEF Answers, SendAfter, OutboxAfter, LedgerAfter, OutboxStatus, LedgerStatus, Sendable

LEMMA RecordFailureSteps ==
    ASSUME Base, NEW w \in Workers, NEW retryable \in BOOLEAN, RecordFailure(w, retryable)
    PROVE  Step
  <1>. DEFINE r == worker[w].reply
              answer == worker[w].answer
  <1>1. /\ worker[w].pc = "answered" /\ r \in Replies /\ reply[r].send # "absent"
        /\ answer \in Answers \ {"accepted"} /\ worker[w].status \in TicketStatus
    BY Holds, SessionTyped DEF RecordFailure, Session
  <1>2. PICK phase \in {"waiting"} \cup Ended :
           EndJob(w, phase) /\ (phase = "waiting" => job[r].attempts < MaxAttempts)
    BY <1>1, RetryOrIs DEF RecordFailure, Ended
  <1>3. JobsMove /\ WorkersMove
    BY <1>1, <1>2, EndJobMoves
  <1>4. RepliesMove /\ TicketSteps /\ RequestsMove /\ CountMoves
    BY <1>1, AfterValues, FailureMoves DEF RecordFailure
  <1>5. OutboxMoves
    BY <1>1, AfterValues, OutboxSet DEF RecordFailure
  <1>6. LedgerMoves
    BY <1>1, AfterValues DEF RecordFailure, LedgerMoves, Base, TypeOK
  <1>. QED BY <1>3, <1>4, <1>5, <1>6, Kept DEF RecordFailure, Step

LEMMA RaiseSteps ==
    ASSUME Base, NEW w \in Workers, NEW retryable \in BOOLEAN, Raise(w, retryable)
    PROVE  Step
  <1>1. worker[w].pc # "idle" /\ worker[w].reply \in Replies
    BY Holds DEF Raise
  <1>2. PICK phase \in {"waiting"} \cup Ended :
           /\ EndJob(w, phase)
           /\ phase = "waiting" => job[worker[w].reply].attempts < MaxAttempts
    BY <1>1, RetryOrIs DEF Raise, Ended
  <1>3. JobsMove /\ WorkersMove
    BY <1>1, <1>2, EndJobMoves
  <1>4. RequestsMove
    BY RowsKept, TicketHasStatus, RequestsKept DEF Raise
  <1>. QED BY <1>3, <1>4, CountSame, Kept DEF Raise, Step

LEMMA CrashSteps == ASSUME Base, NEW w \in Workers, Crash(w) PROVE Step
  <1>1. WorkersMove
    BY IdleMoves DEF Crash
  <1>2. RequestsMove
    BY RowsKept, TicketHasStatus, RequestsKept DEF Crash
  <1>. QED BY <1>1, <1>2, CountSame, Kept DEF Crash, Step
-----------------------------------------------------------------------------
LEMMA OperatorSteps == ASSUME Base, NEW r \in Replies, Operator(r) PROVE Step
  BY DraftForReviewSteps, DraftAndSendSteps, AutoApproveSteps, ApproveSteps,
     ApproveUncertainSteps, ApproveBlockedSteps, EnqueueSendSteps, ApprovalLostSteps,
     RejectReadSteps, RejectWriteSteps, RetryArchiveSteps, RetrySendSteps, ReuseSentSteps,
     BounceSteps, ReconcileSentSteps, ReconcileFailedSteps
  DEF Operator

LEMMA ProgressSteps == ASSUME Base, NEW w \in Workers, Progress(w) PROVE Step
  BY FindSentSteps, FindUncertainSteps, FreezeSteps, BlockSteps, SkipSmtpSteps, BeginSmtpSteps,
     TransmitSteps, RecordFollowupSteps, RecordRmaSteps, RecordFailureSteps, FinalizeSteps,
     RaiseSteps
  DEF Progress, Answer

LEMMA NextSteps == ASSUME Base, Next PROVE Step
  BY OperatorSteps, RecoverSteps, ClaimSteps, ProgressSteps, CrashSteps, TicketMovesSteps,
     IssueRefusedSteps, ReleasePolicySteps, RecountSteps, ResolveTaskSteps
  DEF Next

LEMMA StutterSteps == ASSUME Base, UNCHANGED vars PROVE Step
  <1>1. RequestsMove
    BY RowsKept, TicketHasStatus, RequestsKept DEF vars
  <1>. QED BY <1>1, CountSame, Kept DEF vars, Step

LEMMA InitBase == Init => Base
  <1>. SUFFICES ASSUME Init PROVE Base
    OBVIOUS
  <1>1. PICK rma \in SUBSET Replies : \E agree \in SUBSET rma :
           reply = [r \in Replies |-> [rma |-> r \in rma, review |-> "pending",
                      send |-> "absent", archive |-> "not_started", filed |-> FALSE,
                      intact |-> r \in agree]]
    BY DEF Init
  <1>2. PICK agree \in SUBSET rma :
           reply = [r \in Replies |-> [rma |-> r \in rma, review |-> "pending",
                      send |-> "absent", archive |-> "not_started", filed |-> FALSE,
                      intact |-> r \in agree]]
    BY <1>1
  <1>3. reply \in [Replies -> ReplyRow] /\ \A r \in Replies : reply[r].send = "absent"
    BY <1>2 DEF ReplyRow, SendStatus
  <1>4. /\ outbox \in [Replies -> OutboxStatus] /\ ledger \in [Replies -> LedgerStatus]
        /\ \A r \in Replies : outbox[r] = "none" /\ ledger[r] = "none"
    BY DEF Init, OutboxStatus, LedgerStatus
  <1>5. ticket \in TicketRow /\ ticket.status # "closed" /\ ticket.followups = 0
    BY DeliveryAssumption DEF Init, TicketRow, TicketStatus, Policy
  <1>6. /\ job \in [Replies -> JobRow]
        /\ \A r \in Replies : job[r].phase = "absent" /\ job[r].attempts = 0
    BY DeliveryAssumption DEF Init, JobRow
  <1>7. Idle \in Session /\ Idle.pc = "idle"
    BY DeliveryAssumption DEF Idle, Session, OutboxStatus, TicketStatus, Answers
  <1>8. worker \in [Workers -> Session] /\ \A w \in Workers : worker[w].pc = "idle"
    BY <1>7 DEF Init
  <1>9. /\ mail \in [Replies -> [risky : Nat, taken : Nat]]
        /\ \A r \in Replies : mail[r].risky = 0
    BY DEF Init
  <1>10. tasks = {} /\ approving = {} /\ rejecting = {}
    BY DEF Init
  <1>11. TypeOK
    BY <1>3, <1>4, <1>5, <1>6, <1>8, <1>9, <1>10 DEF TypeOK
  <1>12. JobsFit /\ SessionsFit /\ Known
    BY <1>6, <1>8, <1>10 DEF JobsFit, SessionsFit, SessionFits, Known
  <1>13. DraftsAllowed /\ RecordsTrue /\ ClosedOnEvidence /\ FollowupsCounted
    BY <1>3, <1>4, <1>5, <1>9 DEF DraftsAllowed, RecordsTrue, ClosedOnEvidence, FollowupsCounted
  <1>. QED BY <1>11, <1>12, <1>13 DEF Base

LEMMA NextBase == Base /\ [Next]_vars => Base'
  BY NextSteps, StutterSteps, StepKeepsBase

LEMMA AlwaysBase == Spec => []Base
  BY InitBase, NextBase, PTL DEF Spec
-----------------------------------------------------------------------------
(* The rows, the requests and the workers' sessions keep their shape, a job  *)
(* that waits has an attempt left, and a worker holds a reply that has one.  *)
THEOREM DeliveryTyped == Spec => []TypeOK
  BY AlwaysBase, PTL DEF Base

(* No interleaving of approvals, rejections, reconciliations, archive        *)
(* attempts and workers, with whatever stale copies, closes a ticket before  *)
(* the server took an RMA reply that is filed and whose evidence agrees.     *)
THEOREM ClosesOnEvidence == Spec => []ClosedOnEvidence
  BY AlwaysBase, PTL DEF Base

(* A follow-up on record as sent counts, and nothing counts before the       *)
(* server took a follow-up, whatever the limit and whoever finds it out.     *)
THEOREM CountsFollowups == Spec => []FollowupsCounted
  BY AlwaysBase, PTL DEF Base

(* No retry, approval or job hands over an RMA reply of a policy nobody has  *)
(* released: before the release there is not even a draft of one.            *)
THEOREM HoldsSpecialBack == Spec => []SpecialHeldBack
  <1>1. Base => SpecialHeldBack
    <2>. SUFFICES ASSUME Base, ticket.policy = "special", NEW r \in Rma
                  PROVE  mail[r].risky = 0
      BY DEF SpecialHeldBack
    <2>1. ~(mail[r].risky > 0) /\ mail[r].risky \in Nat
      BY DEF Base, DraftsAllowed, DraftedFor, Rma, TypeOK
    <2>. QED BY <2>1
  <1>. QED BY <1>1, AlwaysBase, PTL
-----------------------------------------------------------------------------
(* Leases that protect.  A step that leaves the workers alone ...            *)
LEMMA QuietKeeps ==
    ASSUME Leased, worker' = worker, mail' = mail, ledger' = ledger,
           \A r \in Replies : outbox'[r] \in Sendable \cup {"none"}
                              => outbox[r] \in Sendable \cup {"none"},
           \A w \in Workers : worker[w].pc # "idle" => job'[worker[w].reply].phase = "begun"
    PROVE  OneHolder' /\ SendableIsUnsent' /\ SendsOnce'
  <1>1. OneHolder'
    BY DEF Leased, OneHolder
  <1>2. ASSUME NEW w \in Workers PROVE NotYetSent(w)'
    <2>1. NotYetSent(w) /\ (worker[w].pc # "idle" => worker[w].reply \in Replies)
      BY Holds DEF Leased, SendableIsUnsent
    <2>. QED BY <2>1 DEF NotYetSent
  <1>3. SendableIsUnsent'
    BY <1>2 DEF Leased, SendableIsUnsent
  <1>. QED BY <1>1, <1>3 DEF Leased, SendsOnce

(* ... one that ends a worker's attempt ...                                  *)
LEMMA EndKeeps ==
    ASSUME Leased, NEW w \in Workers, worker[w].pc # "idle",
           worker' = [worker EXCEPT ![w] = Idle], mail' = mail,
           \A q \in Replies \ {worker[w].reply} :
              job'[q] = job[q] /\ ledger'[q] = ledger[q] /\ outbox'[q] = outbox[q],
           outbox'[worker[w].reply] \in Sendable \cup {"none"} =>
              \/ outbox[worker[w].reply] \in Sendable \cup {"none"}
              \/ mail[worker[w].reply].risky = 0,
           ledger'[worker[w].reply] \in {"failed_retryable", "failed_terminal"} =>
              \/ ledger[worker[w].reply] \in {"failed_retryable", "failed_terminal"}
              \/ mail[worker[w].reply].risky = 0
    PROVE  OneHolder' /\ SendableIsUnsent' /\ SendsOnce'
  <1>1. /\ worker'[w].pc = "idle"
        /\ \A v \in Workers \ {w} : worker'[v] = worker[v]
    BY DEF Leased, Base, TypeOK, Idle
  <1>2. ASSUME NEW v \in Workers, worker'[v].pc # "idle"
        PROVE  /\ v # w /\ worker'[v] = worker[v]
               /\ worker[v].reply \in Replies \ {worker[w].reply}
    <2>1. v # w /\ worker'[v] = worker[v]
      BY <1>1, <1>2
    <2>2. worker[v].reply \in Replies
      BY <1>2, <2>1, Holds DEF Leased
    <2>3. worker[v].reply # worker[w].reply
      BY <1>2, <2>1 DEF Leased, OneHolder
    <2>. QED BY <2>1, <2>2, <2>3
  <1>3. OneHolder'
    <2>1. \A v \in Workers : worker'[v].pc # "idle" => job'[worker'[v].reply].phase = "begun"
      BY <1>2 DEF Leased, OneHolder
    <2>2. ASSUME NEW v \in Workers, NEW u \in Workers, worker'[v].pc # "idle",
                 worker'[u].pc # "idle", worker'[v].reply = worker'[u].reply
          PROVE  v = u
      BY <1>2, <2>2 DEF Leased, OneHolder
    <2>. QED BY <2>1, <2>2 DEF OneHolder
  <1>4. SendableIsUnsent'
    <2>1. ASSUME NEW v \in Workers PROVE NotYetSent(v)'
      <3>1. CASE worker'[v].pc = "idle"
        BY <3>1 DEF NotYetSent
      <3>2. CASE worker'[v].pc # "idle"
        <4>1. worker'[v] = worker[v] /\ worker[v].reply \in Replies \ {worker[w].reply}
          BY <1>2, <3>2
        <4>2. NotYetSent(v)
          BY DEF Leased, SendableIsUnsent
        <4>. QED BY <4>1, <4>2 DEF NotYetSent
      <3>. QED BY <3>1, <3>2
    <2>2. worker[w].reply \in Replies
      BY Holds DEF Leased
    <2>3. ASSUME NEW r \in Replies, outbox'[r] \in Sendable \cup {"none"}
          PROVE  mail'[r].risky = 0
      BY <2>2, <2>3 DEF Leased, SendableIsUnsent
    <2>4. ASSUME NEW r \in Replies, ledger'[r] \in {"failed_retryable", "failed_terminal"}
          PROVE  mail'[r].risky = 0
      BY <2>2, <2>4 DEF Leased, SendableIsUnsent
    <2>. QED BY <2>1, <2>3, <2>4 DEF SendableIsUnsent
  <1>. QED BY <1>3, <1>4 DEF Leased, SendsOnce

(* ... and one that takes it further.                                        *)
LEMMA AdvanceKeeps ==
    ASSUME Leased, NEW w \in Workers, worker[w].pc # "idle", job' = job,
           NEW session, worker' = [worker EXCEPT ![w] = session],
           session.reply = worker[w].reply,
           \A q \in Replies \ {worker[w].reply} :
              mail'[q] = mail[q] /\ ledger'[q] = ledger[q] /\ outbox'[q] = outbox[q],
           outbox'[worker[w].reply] \in Sendable \cup {"none"} => mail'[worker[w].reply].risky = 0,
           ledger'[worker[w].reply] \in {"failed_retryable", "failed_terminal"}
              => mail'[worker[w].reply].risky = 0,
           mail'[worker[w].reply].risky <= 1,
           NotYetSent(w)'
    PROVE  OneHolder' /\ SendableIsUnsent' /\ SendsOnce'
  <1>1. /\ worker'[w] = session
        /\ \A v \in Workers \ {w} : worker'[v] = worker[v]
    BY DEF Leased, Base, TypeOK
  <1>2. ASSUME NEW v \in Workers \ {w}, worker'[v].pc # "idle"
        PROVE  worker[v].reply \in Replies \ {worker[w].reply}
    <2>1. worker[v].reply \in Replies
      BY <1>1, <1>2, Holds DEF Leased
    <2>2. worker[v].reply # worker[w].reply
      BY <1>1, <1>2 DEF Leased, OneHolder
    <2>. QED BY <2>1, <2>2
  <1>3. OneHolder'
    <2>1. \A v \in Workers : worker'[v].reply = worker[v].reply
      BY <1>1
    <2>2. \A v \in Workers : worker'[v].pc # "idle" => worker[v].pc # "idle"
      BY <1>1
    <2>. QED BY <2>1, <2>2 DEF Leased, OneHolder
  <1>4. SendableIsUnsent'
    <2>1. ASSUME NEW v \in Workers PROVE NotYetSent(v)'
      <3>1. CASE v = w
        BY <3>1
      <3>2. CASE v # w /\ worker'[v].pc = "idle"
        BY <3>2 DEF NotYetSent
      <3>3. CASE v # w /\ worker'[v].pc # "idle"
        <4>1. worker'[v] = worker[v] /\ worker[v].reply \in Replies \ {worker[w].reply}
          BY <1>1, <1>2, <3>3
        <4>2. NotYetSent(v)
          BY DEF Leased, SendableIsUnsent
        <4>. QED BY <4>1, <4>2 DEF NotYetSent
      <3>. QED BY <3>1, <3>2, <3>3
    <2>2. ASSUME NEW r \in Replies, outbox'[r] \in Sendable \cup {"none"}
          PROVE  mail'[r].risky = 0
      BY <2>2 DEF Leased, SendableIsUnsent
    <2>3. ASSUME NEW r \in Replies, ledger'[r] \in {"failed_retryable", "failed_terminal"}
          PROVE  mail'[r].risky = 0
      BY <2>3 DEF Leased, SendableIsUnsent
    <2>. QED BY <2>1, <2>2, <2>3 DEF SendableIsUnsent
  <1>5. SendsOnce'
    BY DEF Leased, SendsOnce
  <1>. QED BY <1>3, <1>4, <1>5
-----------------------------------------------------------------------------
LeaseKept == OneHolder' /\ SendableIsUnsent' /\ SendsOnce'

LEMMA QuietOutbox ==
    ASSUME Leased, UNCHANGED <<worker, mail, ledger, job>>,
           \A r \in Replies : outbox'[r] \in Sendable \cup {"none"}
                              => outbox[r] \in Sendable \cup {"none"}
    PROVE  LeaseKept
  <1>1. \A w \in Workers : worker[w].pc # "idle" => job'[worker[w].reply].phase = "begun"
    BY DEF Leased, OneHolder
  <1>. QED BY <1>1, QuietKeeps DEF LeaseKept

LEMMA FreezingIsQuiet ==
    ASSUME Base, NEW r \in Replies, outbox' = Frozen(r) \/ outbox' = outbox,
           NEW q \in Replies, outbox'[q] \in Sendable \cup {"none"}
    PROVE  outbox[q] \in Sendable \cup {"none"}
  BY DEF Frozen, Base, TypeOK

LEMMA ReconcilingIsQuiet ==
    ASSUME Base, NEW r \in Replies, NEW status \in {"accepted", "failed_terminal"},
           outbox' = [outbox EXCEPT ![r] = IF @ = "none" THEN @ ELSE status],
           NEW q \in Replies, outbox'[q] \in Sendable \cup {"none"}
    PROVE  outbox[q] \in Sendable \cup {"none"}
  <1>1. status \notin Sendable \cup {"none"}
    BY DEF Sendable
  <1>. QED BY <1>1 DEF Base, TypeOK

LEMMA EnqueueKeeps ==
    ASSUME Leased, NEW r \in Replies, NEW by \in {"approved", "auto_approved"}, EnqueueSend(r, by)
    PROVE  LeaseKept
  <1>1. ASSUME NEW w \in Workers, worker[w].pc # "idle"
        PROVE  job'[worker[w].reply].phase = "begun"
    <2>1. worker[w].reply \in Replies /\ job[worker[w].reply].phase = "begun"
      BY <1>1, Holds DEF Leased, OneHolder
    <2>. QED BY <2>1 DEF EnqueueSend, Leased, Base, TypeOK, JobRow
  <1>2. UNCHANGED <<worker, mail, ledger, outbox>>
    BY DEF EnqueueSend
  <1>. QED BY <1>1, <1>2, QuietKeeps DEF LeaseKept

LEMMA RecoverKeeps ==
    ASSUME LeaseOutlivesAttempt, Leased, NEW r \in Replies, Recover(r) PROVE LeaseKept
  <1>1. ASSUME NEW w \in Workers, worker[w].pc # "idle"
        PROVE  job'[worker[w].reply].phase = "begun"
    <2>1. worker[w].reply \in Replies /\ job[worker[w].reply].phase = "begun"
      BY <1>1, Holds DEF Leased, OneHolder
    <2>2. worker[w].reply # r
      BY <1>1 DEF Recover, Holders
    <2>. QED BY <2>1, <2>2 DEF Recover, Leased, Base, TypeOK
  <1>2. UNCHANGED <<worker, mail, ledger, outbox>>
    BY DEF Recover
  <1>. QED BY <1>1, <1>2, QuietKeeps DEF LeaseKept

LEMMA OperatorKeeps == ASSUME Leased, NEW r \in Replies, Operator(r) PROVE LeaseKept
  <1>. USE DEF Leased
  <1>1. CASE DraftForReview(r) \/ DraftAndSend(r) \/ AutoApprove(r) \/ Approve(r)
    <2>1. UNCHANGED <<worker, mail, ledger, job>> /\ (outbox' = Frozen(r) \/ outbox' = outbox)
      BY <1>1 DEF DraftForReview, DraftAndSend, AutoApprove, Approve
    <2>. QED BY <2>1, FreezingIsQuiet, QuietOutbox
  <1>2. CASE ApproveUncertain(r) \/ ApproveBlocked(r) \/ RejectRead(r) \/ RejectWrite(r)
    <2>1. UNCHANGED <<worker, mail, ledger, job, outbox>>
      BY <1>2 DEF ApproveUncertain, ApproveBlocked, RejectRead, RejectWrite
    <2>. QED BY <2>1, QuietOutbox
  <1>3. CASE RetryArchive(r) \/ RetrySend(r) \/ ReuseSent(r) \/ Bounce(r)
    <2>1. UNCHANGED <<worker, mail, ledger, job, outbox>>
      BY <1>3 DEF RetryArchive, RetrySend, ReuseSent, Bounce
    <2>. QED BY <2>1, QuietOutbox
  <1>4. CASE ReconcileSent(r) \/ ReconcileFailed(r)
    <2>1. /\ UNCHANGED <<worker, mail, ledger, job>>
          /\ \E status \in {"accepted", "failed_terminal"} :
                outbox' = [outbox EXCEPT ![r] = IF @ = "none" THEN @ ELSE status]
      BY <1>4 DEF ReconcileSent, ReconcileFailed
    <2>. QED BY <2>1, ReconcilingIsQuiet, QuietOutbox
  <1>5. ASSUME NEW by \in {"approved", "auto_approved"}, EnqueueSend(r, by) \/ ApprovalLost(r, by)
        PROVE  LeaseKept
    <2>1. CASE EnqueueSend(r, by)
      BY <2>1, EnqueueKeeps
    <2>2. CASE ApprovalLost(r, by)
      BY <2>2, QuietOutbox DEF ApprovalLost
    <2>. QED BY <1>5, <2>1, <2>2
  <1>. QED BY <1>1, <1>2, <1>3, <1>4, <1>5 DEF Operator

LEMMA ElsewhereKeeps ==
    ASSUME Leased, \/ TicketMoves \/ IssueRefused \/ ReleasePolicy \/ Recount
                   \/ \E type \in TaskType : ResolveTask(type)
                   \/ UNCHANGED vars
    PROVE  LeaseKept
  <1>1. UNCHANGED <<worker, mail, ledger, job, outbox>>
    BY DEF TicketMoves, IssueRefused, ReleasePolicy, Recount, ResolveTask, vars
  <1>. QED BY <1>1, QuietOutbox

LEMMA ClaimKeeps ==
    ASSUME Leased, NEW w \in Workers, NEW r \in Replies, Claim(w, r) PROVE LeaseKept
  <1>1. /\ worker'[w].pc = "claimed" /\ worker'[w].reply = r
        /\ \A v \in Workers \ {w} : worker'[v] = worker[v]
    BY DEF Claim, Leased, Base, TypeOK, Session
  <1>2. /\ job'[r].phase = "begun" /\ job[r].phase = "waiting"
        /\ \A q \in Replies \ {r} : job'[q] = job[q]
    BY DEF Claim, Leased, Base, TypeOK, JobRow
  <1>3. ASSUME NEW v \in Workers \ {w}, worker[v].pc # "idle"
        PROVE  worker[v].reply \in Replies \ {r}
    BY <1>2, <1>3, Holds DEF Leased, OneHolder
  <1>4. OneHolder'
    <2>1. ASSUME NEW v \in Workers, worker'[v].pc # "idle"
          PROVE  job'[worker'[v].reply].phase = "begun"
      <3>1. CASE v = w
        BY <1>1, <1>2, <3>1
      <3>2. CASE v # w
        BY <1>1, <1>2, <1>3, <2>1, <3>2 DEF Leased, OneHolder
      <3>. QED BY <3>1, <3>2
    <2>2. ASSUME NEW v \in Workers, NEW u \in Workers, worker'[v].pc # "idle",
                 worker'[u].pc # "idle", worker'[v].reply = worker'[u].reply
          PROVE  v = u
      BY <1>1, <1>3, <2>2 DEF Leased, OneHolder
    <2>. QED BY <2>1, <2>2 DEF OneHolder
  <1>5. SendableIsUnsent'
    <2>1. NotYetSent(w)'
      BY <1>1 DEF NotYetSent
    <2>2. \A v \in Workers \ {w} : NotYetSent(v)'
      BY <1>1 DEF NotYetSent, Leased, SendableIsUnsent, Claim
    <2>. QED BY <2>1, <2>2 DEF SendableIsUnsent, Leased, Claim
  <1>6. SendsOnce'
    BY DEF Claim, Leased, SendsOnce
  <1>. QED BY <1>4, <1>5, <1>6 DEF LeaseKept

LEMMA EndingKeeps ==
    ASSUME Leased, NEW w \in Workers,
           \/ FindSent(w) \/ FindUncertain(w) \/ Finalize(w) \/ RecordFollowup(w) \/ Crash(w)
           \/ \E retryable \in BOOLEAN : Raise(w, retryable) \/ RecordFailure(w, retryable)
           \/ \E broken, retryable \in BOOLEAN : Block(w, broken, retryable)
    PROVE  LeaseKept
  <1>. DEFINE r == worker[w].reply
  <1>1. worker[w].pc # "idle"
    BY DEF FindSent, FindUncertain, Finalize, RecordFollowup, Crash, Raise, RecordFailure, Block,
           Loadable
  <1>2. worker' = [worker EXCEPT ![w] = Idle] /\ mail' = mail
    BY DEF FindSent, FindUncertain, Finalize, RecordFollowup, Crash, Raise, RecordFailure, Block,
           EndJob
  <1>3. r \in Replies
    BY <1>1, Holds DEF Leased
  <1>4. \A q \in Replies \ {r} : job'[q] = job[q]
    <2>1. job' = job \/ \E phase : EndJob(w, phase)
      BY DEF FindSent, FindUncertain, Finalize, RecordFollowup, Crash, Raise, RecordFailure, Block
    <2>. QED BY <2>1 DEF EndJob, Leased, Base, TypeOK
  <1>. HIDE DEF r
  <1>5. CASE FindSent(w) \/ FindUncertain(w) \/ Finalize(w) \/ Crash(w)
             \/ \E retryable \in BOOLEAN : Raise(w, retryable)
    <2>1. ledger' = ledger /\ outbox' = outbox
      BY <1>5 DEF FindSent, FindUncertain, Finalize, Crash, Raise
    <2>. QED BY <1>1, <1>2, <1>3, <1>4, <2>1, EndKeeps DEF LeaseKept, r
  <1>6. CASE \E broken, retryable \in BOOLEAN : Block(w, broken, retryable)
    <2>1. /\ ledger' = ledger
          /\ outbox' = outbox \/ outbox' = [outbox EXCEPT ![r] = "failed_terminal"]
      BY <1>6 DEF Block, r
    <2>2. \A q \in Replies \ {r} : outbox'[q] = outbox[q]
      BY <2>1 DEF Leased, Base, TypeOK
    <2>3. outbox'[r] \in Sendable \cup {"none"} => outbox[r] \in Sendable \cup {"none"}
      BY <1>3, <2>1 DEF Leased, Base, TypeOK, Sendable
    <2>. QED BY <1>1, <1>2, <1>3, <1>4, <2>1, <2>2, <2>3, EndKeeps DEF LeaseKept, r
  <1>7. CASE RecordFollowup(w)
    <2>1. /\ ledger' = [ledger EXCEPT ![r] = "succeeded"]
          /\ outbox' = [outbox EXCEPT ![r] = "accepted"]
      BY <1>7 DEF RecordFollowup, r
    <2>2. \A q \in Replies \ {r} : ledger'[q] = ledger[q] /\ outbox'[q] = outbox[q]
      BY <2>1 DEF Leased, Base, TypeOK
    <2>3. /\ outbox'[r] \notin Sendable \cup {"none"}
          /\ ledger'[r] \notin {"failed_retryable", "failed_terminal"}
      BY <1>3, <2>1 DEF Leased, Base, TypeOK, Sendable
    <2>. QED BY <1>1, <1>2, <1>3, <1>4, <2>2, <2>3, EndKeeps DEF LeaseKept, r
  <1>8. CASE \E retryable \in BOOLEAN : RecordFailure(w, retryable)
    <2>. DEFINE answer == worker[w].answer
    <2>1. /\ ledger' = [ledger EXCEPT ![r] = LedgerAfter(answer)]
          /\ outbox' = [outbox EXCEPT ![r] = OutboxAfter(answer)]
          /\ worker[w].pc = "answered" /\ answer # "accepted"
      BY <1>8 DEF RecordFailure, r
    <2>2. \A q \in Replies \ {r} : ledger'[q] = ledger[q] /\ outbox'[q] = outbox[q]
      BY <2>1 DEF Leased, Base, TypeOK
    <2>3. answer \in Answers \ {"accepted"}
      BY <2>1, SessionTyped DEF Session, Leased
    <2>4. answer \in {"rejected", "terminal"} => mail[r].risky = 0
      BY <2>1 DEF Leased, SendableIsUnsent, NotYetSent, r
    <2>5. ledger'[r] = LedgerAfter(answer) /\ outbox'[r] = OutboxAfter(answer)
      BY <1>3, <2>1 DEF Leased, Base, TypeOK
    <2>. HIDE DEF answer
    <2>6. /\ outbox'[r] \in Sendable \cup {"none"} => mail[r].risky = 0
          /\ ledger'[r] \in {"failed_retryable", "failed_terminal"} => mail[r].risky = 0
      BY <2>3, <2>4, <2>5, AfterValues
    <2>. QED BY <1>1, <1>2, <1>3, <1>4, <2>2, <2>6, EndKeeps DEF LeaseKept, r
  <1>. QED BY <1>5, <1>6, <1>7, <1>8

LEMMA RiskSoFar ==
    ASSUME Leased, NEW r \in Replies
    PROVE  /\ outbox[r] \in Sendable \cup {"none"} => mail[r].risky = 0
           /\ ledger[r] \in {"failed_retryable", "failed_terminal"} => mail[r].risky = 0
           /\ mail[r].risky <= 1
  BY DEF Leased, SendableIsUnsent, SendsOnce

LEMMA FreezeKeeps ==
    ASSUME Leased, NEW w \in Workers, Freeze(w) \/ SkipSmtp(w) PROVE LeaseKept
  <1>. DEFINE r == worker[w].reply
  <1>1. worker[w].pc # "idle" /\ r \in Replies
    BY Holds DEF Freeze, SkipSmtp, Loadable, Leased
  <1>2. PICK session : /\ worker' = [worker EXCEPT ![w] = session]
                       /\ session.reply = worker[w].reply
                       /\ \/ session.pc = "frozen" /\ session.outbox = outbox[r]
                          \/ session.pc = "answered" /\ session.answer = "accepted"
    <2>1. CASE Freeze(w)
      <3>. DEFINE s == [worker[w] EXCEPT !.pc = "frozen", !.outbox = outbox[r],
                          !.status = ticket.status, !.followups = ticket.followups]
      <3>1. worker' = [worker EXCEPT ![w] = s]
        BY <2>1 DEF Freeze
      <3>2. s.reply = worker[w].reply /\ s.pc = "frozen" /\ s.outbox = outbox[r]
        BY SessionTyped DEF Session, Leased
      <3>. QED BY <3>1, <3>2
    <2>2. CASE SkipSmtp(w)
      <3>. DEFINE s == [worker[w] EXCEPT !.pc = "answered", !.answer = "accepted"]
      <3>1. worker' = [worker EXCEPT ![w] = s]
        BY <2>2 DEF SkipSmtp
      <3>2. s.reply = worker[w].reply /\ s.pc = "answered" /\ s.answer = "accepted"
        BY SessionTyped DEF Session, Leased
      <3>. QED BY <3>1, <3>2
    <2>. QED BY <2>1, <2>2
  <1>3. UNCHANGED <<job, mail, ledger, outbox>>
    BY DEF Freeze, SkipSmtp
  <1>4. worker'[w] = session
    BY <1>2 DEF Leased, Base, TypeOK
  <1>5. NotYetSent(w)'
    BY <1>1, <1>2, <1>3, <1>4, RiskSoFar DEF NotYetSent
  <1>6. /\ outbox'[r] \in Sendable \cup {"none"} => mail'[r].risky = 0
        /\ ledger'[r] \in {"failed_retryable", "failed_terminal"} => mail'[r].risky = 0
        /\ mail'[r].risky <= 1
    BY <1>1, <1>3, RiskSoFar
  <1>7. job' = job /\ \A q \in Replies \ {r} :
                        mail'[q] = mail[q] /\ ledger'[q] = ledger[q] /\ outbox'[q] = outbox[q]
    BY <1>3
  <1>. QED BY <1>1, <1>2, <1>5, <1>6, <1>7, AdvanceKeeps DEF LeaseKept

LEMMA BeginSmtpKeeps == ASSUME Leased, NEW w \in Workers, BeginSmtp(w) PROVE LeaseKept
  <1>. DEFINE r == worker[w].reply
              session == [worker[w] EXCEPT !.pc = "calling"]
  <1>1. worker[w].pc = "frozen" /\ r \in Replies
    BY Holds DEF BeginSmtp, Leased
  <1>2. mail[r].risky = 0
    BY <1>1 DEF BeginSmtp, MayTransmit, Leased, SendableIsUnsent, NotYetSent
  <1>3. worker' = [worker EXCEPT ![w] = session] /\ UNCHANGED <<job, mail>>
    BY SessionTyped DEF BeginSmtp, Session, Leased
  <1>4. session.pc = "calling" /\ session.reply = r
    BY SessionTyped DEF Session, Leased
  <1>5. /\ ledger'[r] = "running" /\ outbox'[r] = "sending"
        /\ \A q \in Replies \ {r} : ledger'[q] = ledger[q] /\ outbox'[q] = outbox[q]
    BY <1>1 DEF BeginSmtp, Started, Leased, Base, TypeOK
  <1>. HIDE DEF session
  <1>6. worker'[w] = session
    BY <1>3 DEF Leased, Base, TypeOK
  <1>7. outbox'[r] \notin Sendable \cup {"none"}
    BY <1>5 DEF Sendable
  <1>8. NotYetSent(w)'
    BY <1>2, <1>3, <1>4, <1>5, <1>6, <1>7 DEF NotYetSent
  <1>9. \A q \in Replies \ {r} :
           mail'[q] = mail[q] /\ ledger'[q] = ledger[q] /\ outbox'[q] = outbox[q]
    BY <1>3, <1>5
  <1>10. mail'[r].risky <= 1 /\ ledger'[r] = "running"
    BY <1>2, <1>3, <1>5
  <1>. QED BY <1>1, <1>3, <1>4, <1>7, <1>8, <1>9, <1>10, AdvanceKeeps DEF LeaseKept

LEMMA TransmitKeeps ==
    ASSUME Leased, NEW w \in Workers, NEW answer \in Answers, NEW taken \in BOOLEAN,
           Transmit(w, answer, taken)
    PROVE  LeaseKept
  <1>. DEFINE r == worker[w].reply
              session == [worker[w] EXCEPT !.pc = "answered", !.answer = answer]
              taken1 == IF taken THEN mail[r].taken + 1 ELSE mail[r].taken
              risky1 == IF answer \in {"rejected", "terminal"} THEN mail[r].risky
                                                              ELSE mail[r].risky + 1
              row == [mail[r] EXCEPT !.taken = taken1, !.risky = risky1]
  <1>1. worker[w].pc = "calling" /\ r \in Replies /\ mail[r] \in [risky : Nat, taken : Nat]
    BY Holds DEF Transmit, Leased, Base, TypeOK
  <1>2. /\ mail[r].risky = 0 /\ ledger[r] = "running"
        /\ outbox[r] \notin Sendable \cup {"none"}
    BY <1>1 DEF Leased, SendableIsUnsent, NotYetSent
  <1>3. worker' = [worker EXCEPT ![w] = session] /\ mail' = [mail EXCEPT ![r] = row]
    BY DEF Transmit
  <1>4. UNCHANGED <<job, ledger, outbox>>
    BY DEF Transmit
  <1>5. session.pc = "answered" /\ session.reply = r /\ session.answer = answer
    BY SessionTyped DEF Session, Leased
  <1>6. risky1 <= 1 /\ (answer \in {"rejected", "terminal"} => risky1 = 0)
    BY <1>2
  <1>. HIDE DEF session, taken1, risky1
  <1>7. row.risky = risky1
    BY <1>1
  <1>. HIDE DEF row
  <1>8. mail'[r] = row /\ \A q \in Replies \ {r} : mail'[q] = mail[q]
    BY <1>1, <1>3 DEF Leased, Base, TypeOK
  <1>9. worker'[w] = session
    BY <1>3 DEF Leased, Base, TypeOK
  <1>10. NotYetSent(w)'
    BY <1>5, <1>6, <1>7, <1>8, <1>9 DEF NotYetSent
  <1>11. /\ outbox'[r] \notin Sendable \cup {"none"} /\ ledger'[r] = "running"
         /\ mail'[r].risky <= 1
         /\ \A q \in Replies \ {r} :
               mail'[q] = mail[q] /\ ledger'[q] = ledger[q] /\ outbox'[q] = outbox[q]
    BY <1>2, <1>4, <1>6, <1>7, <1>8
  <1>. QED BY <1>1, <1>3, <1>4, <1>5, <1>10, <1>11, AdvanceKeeps DEF LeaseKept

LEMMA RecordRmaKeeps == ASSUME Leased, NEW w \in Workers, RecordRma(w) PROVE LeaseKept
  <1>. DEFINE r == worker[w].reply
              status == IF worker[w].status = "ready_for_export" THEN "rma_sent"
                                                                  ELSE worker[w].status
              session == [worker[w] EXCEPT !.pc = "recorded", !.status = status]
  <1>1. worker[w].pc = "answered" /\ r \in Replies
    BY Holds DEF RecordRma, Leased
  <1>2. worker' = [worker EXCEPT ![w] = session] /\ UNCHANGED <<job, mail>>
    BY DEF RecordRma
  <1>3. session.pc = "recorded" /\ session.reply = r
    BY SessionTyped DEF Session, Leased
  <1>4. /\ ledger'[r] = "succeeded" /\ outbox'[r] = "accepted"
        /\ \A q \in Replies \ {r} : ledger'[q] = ledger[q] /\ outbox'[q] = outbox[q]
    BY <1>1 DEF RecordRma, Leased, Base, TypeOK
  <1>. HIDE DEF session
  <1>5. worker'[w] = session
    BY <1>2 DEF Leased, Base, TypeOK
  <1>6. NotYetSent(w)'
    BY <1>3, <1>5 DEF NotYetSent
  <1>7. outbox'[r] \notin Sendable \cup {"none"}
    BY <1>4 DEF Sendable
  <1>. QED BY <1>1, <1>2, <1>3, <1>4, <1>6, <1>7, RiskSoFar, AdvanceKeeps DEF LeaseKept

LEMMA NextKeepsLease ==
    ASSUME LeaseOutlivesAttempt, Leased, [Next]_vars PROVE LeaseKept
  <1>1. CASE \E r \in Replies : Operator(r) \/ Recover(r)
    BY <1>1, OperatorKeeps, RecoverKeeps
  <1>2. CASE \E r \in Replies, w \in Workers : Claim(w, r)
    BY <1>2, ClaimKeeps
  <1>3. ASSUME NEW w \in Workers, Progress(w) \/ Crash(w) PROVE LeaseKept
    <2>1. CASE \/ Freeze(w) \/ SkipSmtp(w) \/ BeginSmtp(w) \/ RecordRma(w)
               \/ \E answer \in Answers, taken \in BOOLEAN : Transmit(w, answer, taken)
      BY <2>1, FreezeKeeps, BeginSmtpKeeps, RecordRmaKeeps, TransmitKeeps
    <2>2. CASE \/ FindSent(w) \/ FindUncertain(w) \/ Finalize(w) \/ RecordFollowup(w) \/ Crash(w)
               \/ \E retryable \in BOOLEAN : Raise(w, retryable) \/ RecordFailure(w, retryable)
               \/ \E broken, retryable \in BOOLEAN : Block(w, broken, retryable)
      BY <2>2, EndingKeeps
    <2>. QED BY <1>3, <2>1, <2>2 DEF Progress, Answer
  <1>4. CASE \/ TicketMoves \/ IssueRefused \/ ReleasePolicy \/ Recount
             \/ \E type \in TaskType : ResolveTask(type)
             \/ UNCHANGED vars
    BY <1>4, ElsewhereKeeps
  <1>. QED BY <1>1, <1>2, <1>3, <1>4 DEF Next

LEMMA InitLeased == Init => OneHolder /\ SendableIsUnsent /\ SendsOnce
  <1>. SUFFICES ASSUME Init PROVE OneHolder /\ SendableIsUnsent /\ SendsOnce
    OBVIOUS
  <1>1. \A w \in Workers : worker[w].pc = "idle"
    BY DEF Init, Idle
  <1>2. \A r \in Replies : mail[r].risky = 0
    BY DEF Init
  <1>. QED BY <1>1, <1>2 DEF OneHolder, SendableIsUnsent, NotYetSent, SendsOnce

LEMMA AlwaysLeased == ASSUME LeaseOutlivesAttempt PROVE Spec => []Leased
  <1>1. Init => Leased
    BY InitBase, InitLeased DEF Leased
  <1>2. Leased /\ [Next]_vars => Leased'
    BY NextBase, NextKeepsLease DEF Leased, LeaseKept
  <1>. QED BY <1>1, <1>2, PTL DEF Spec

(* The most important promise: once the server may have a message, nothing   *)
(* hands it over again, for any number of workers, attempts, approvals and   *)
(* reconciliations.  It rests on leases that outlive every attempt: a second *)
(* holder of the job would have the outbox row in memory as sendable.        *)
THEOREM DeliversOnce ==
    ASSUME LeaseOutlivesAttempt
    PROVE  Spec => []SendsOnce
  BY AlwaysLeased, PTL DEF Leased

(* And the ledger of external operations tells the truth both ways.          *)
THEOREM LedgerTellsTheTruth ==
    ASSUME LeaseOutlivesAttempt
    PROVE  Spec => []LedgerIsTrue
  <1>1. Leased => LedgerIsTrue
    BY DEF Leased, Base, RecordsTrue, SendableIsUnsent, LedgerIsTrue
  <1>. QED BY <1>1, AlwaysLeased, PTL
-----------------------------------------------------------------------------
(* The promise about the message.  The ledger knows of an intention before   *)
(* the call and of nothing but that until the outcome is written; a row that *)
(* may still be sent, stored or in memory, has no intention on record.       *)
Repeatable == {"none", "failed_retryable"}

RowInOrder(r) ==
    /\ outbox[r] \in Sendable \cup {"none"} => ledger[r] \in Repeatable
    /\ mail[r].taken > 0 => mail[r].risky > 0

SessionInOrder(w) ==
    LET r == worker[w].reply IN
    /\ worker[w].pc = "frozen" /\ worker[w].outbox \in Sendable => ledger[r] \in Repeatable
    /\ worker[w].pc = "answered" =>
          ledger[r] = "running" \/ (ledger[r] = "succeeded" /\ worker[w].answer = "accepted")
    /\ worker[w].pc = "answered" /\ worker[w].answer \in {"uncertain", "partial"}
          => mail[r].risky > 0

InOrder == /\ \A r \in Replies : RowInOrder(r)
           /\ \A w \in Workers : SessionInOrder(w)

Written == Leased /\ InOrder

(* A step that leaves the workers alone ...                                  *)
LEMMA QuietOrder ==
    ASSUME Written, UNCHANGED <<worker, mail, ledger>>,
           \A r \in Replies : outbox'[r] \in Sendable \cup {"none"}
                              => outbox[r] \in Sendable \cup {"none"}
    PROVE  InOrder' /\ UNCHANGED Promise!vars
  <1>1. ASSUME NEW r \in Replies PROVE RowInOrder(r)'
    BY DEF Written, InOrder, RowInOrder
  <1>2. ASSUME NEW w \in Workers PROVE SessionInOrder(w)'
    BY DEF Written, InOrder, SessionInOrder
  <1>3. Fate' = Fate
    BY DEF Fate
  <1>. QED BY <1>1, <1>2, <1>3 DEF InOrder, Promise!vars

(* ... and one of a worker, on the reply it holds.                           *)
LEMMA WorkerOrder ==
    ASSUME Written, NEW w \in Workers, worker[w].pc # "idle",
           NEW session, worker' = [worker EXCEPT ![w] = session],
           \A q \in Replies \ {worker[w].reply} :
              mail'[q] = mail[q] /\ ledger'[q] = ledger[q] /\ outbox'[q] = outbox[q],
           \A q \in Replies : q = worker[w].reply => RowInOrder(q)',
           SessionInOrder(w)'
    PROVE  InOrder'
  <1>1. \A v \in Workers \ {w} : worker'[v] = worker[v]
    BY DEF Written, Leased, Base, TypeOK
  <1>2. ASSUME NEW q \in Replies PROVE RowInOrder(q)'
    <2>1. CASE q = worker[w].reply
      BY <2>1
    <2>2. CASE q # worker[w].reply
      <3>1. RowInOrder(q) /\ mail'[q] = mail[q] /\ ledger'[q] = ledger[q] /\ outbox'[q] = outbox[q]
        BY <2>2 DEF Written, InOrder
      <3>. QED BY <3>1 DEF RowInOrder
    <2>. QED BY <2>1, <2>2
  <1>3. ASSUME NEW v \in Workers PROVE SessionInOrder(v)'
    <2>1. CASE v = w
      BY <2>1
    <2>2. CASE v # w /\ worker[v].pc = "idle"
      BY <1>1, <2>2 DEF SessionInOrder
    <2>3. CASE v # w /\ worker[v].pc # "idle"
      <3>1. worker[v].reply \in Replies \ {worker[w].reply}
        BY <2>3, Holds DEF Written, Leased, OneHolder
      <3>2. SessionInOrder(v) /\ worker'[v] = worker[v]
        BY <1>1, <2>3 DEF Written, InOrder
      <3>. QED BY <3>1, <3>2 DEF SessionInOrder
    <2>. QED BY <2>1, <2>2, <2>3
  <1>. QED BY <1>2, <1>3 DEF InOrder

LEMMA IdleInOrder ==
    ASSUME Written, NEW w \in Workers, worker' = [worker EXCEPT ![w] = Idle]
    PROVE  SessionInOrder(w)'
  <1>1. worker'[w].pc = "idle"
    BY DEF Written, Leased, Base, TypeOK, Idle
  <1>. QED BY <1>1 DEF SessionInOrder

LEMMA HeldInOrder ==
    ASSUME Written, NEW w \in Workers, worker[w].pc # "idle"
    PROVE  worker[w].reply \in Replies /\ RowInOrder(worker[w].reply) /\ SessionInOrder(w)
  BY Holds DEF Written, Leased, InOrder

(* The outcome of a call is written down.                                    *)
LEMMA OutcomeRecorded ==
    ASSUME Written, NEW r \in Replies, mail' = mail, ledger[r] = "running",
           NEW status \in {"succeeded", "uncertain", "failed_retryable", "failed_terminal"},
           ledger' = [ledger EXCEPT ![r] = status],
           status = "succeeded" => mail[r].taken > 0,
           status = "uncertain" => mail[r].risky > 0,
           status \in {"failed_retryable", "failed_terminal"} => mail[r].risky = 0
    PROVE  Promise!Next
  <1>1. mail[r].risky \in Nat /\ mail[r].taken \in Nat
    BY DEF Written, Leased, Base, TypeOK
  <1>2. mail[r].taken > 0 => mail[r].risky > 0
    BY DEF Written, InOrder, RowInOrder
  <1>3. Fate' = Fate
    BY DEF Fate
  <1>4. /\ mail[r].risky = 0 => Fate[r] = "held"
        /\ mail[r].risky > 0 => Fate[r] # "held"
        /\ mail[r].taken > 0 => Fate[r] = "taken"
    BY <1>1, <1>2 DEF Fate
  <1>5. Promise!Record(r, status)
    BY <1>3, <1>4 DEF Promise!Record
  <1>. QED BY <1>5 DEF Promise!Next

PromiseKept == InOrder' /\ [Promise!Next]_Promise!vars

LEMMA OperatorPromises ==
    ASSUME Written, NEW r \in Replies, Operator(r) \/ Recover(r) PROVE PromiseKept
  <1>. USE DEF Written, Leased
  <1>1. UNCHANGED <<worker, mail, ledger>>
    BY DEF Operator, Recover, DraftForReview, DraftAndSend, AutoApprove, Approve, ApproveUncertain,
           ApproveBlocked, EnqueueSend, ApprovalLost, RejectRead, RejectWrite, RetryArchive,
           RetrySend, ReuseSent, Bounce, ReconcileSent, ReconcileFailed
  <1>2. \/ outbox' = Frozen(r) \/ outbox' = outbox
        \/ \E status \in {"accepted", "failed_terminal"} :
              outbox' = [outbox EXCEPT ![r] = IF @ = "none" THEN @ ELSE status]
    <2>1. CASE DraftForReview(r) \/ DraftAndSend(r) \/ AutoApprove(r) \/ Approve(r)
      BY <2>1 DEF DraftForReview, DraftAndSend, AutoApprove, Approve
    <2>2. CASE ReconcileSent(r) \/ ReconcileFailed(r)
      BY <2>2 DEF ReconcileSent, ReconcileFailed
    <2>3. CASE \/ ApproveUncertain(r) \/ ApproveBlocked(r) \/ RejectRead(r) \/ RejectWrite(r)
               \/ RetryArchive(r) \/ RetrySend(r) \/ ReuseSent(r) \/ Bounce(r) \/ Recover(r)
               \/ \E by \in {"approved", "auto_approved"} :
                     EnqueueSend(r, by) \/ ApprovalLost(r, by)
      BY <2>3 DEF ApproveUncertain, ApproveBlocked, EnqueueSend, ApprovalLost, RejectRead,
             RejectWrite, RetryArchive, RetrySend, ReuseSent, Bounce, Recover
    <2>. QED BY <2>1, <2>2, <2>3 DEF Operator
  <1>3. \A q \in Replies : outbox'[q] \in Sendable \cup {"none"}
                           => outbox[q] \in Sendable \cup {"none"}
    BY <1>2, FreezingIsQuiet, ReconcilingIsQuiet
  <1>. QED BY <1>1, <1>3, QuietOrder DEF PromiseKept

LEMMA ElsewherePromises ==
    ASSUME Written, \/ TicketMoves \/ IssueRefused \/ ReleasePolicy \/ Recount
                    \/ \E type \in TaskType : ResolveTask(type)
                    \/ UNCHANGED vars
    PROVE  PromiseKept
  <1>1. UNCHANGED <<worker, mail, ledger, outbox>>
    BY DEF TicketMoves, IssueRefused, ReleasePolicy, Recount, ResolveTask, vars
  <1>. QED BY <1>1, QuietOrder DEF PromiseKept

LEMMA ClaimPromises ==
    ASSUME Written, NEW w \in Workers, NEW r \in Replies, Claim(w, r) PROVE PromiseKept
  <1>1. UNCHANGED <<mail, ledger, outbox>>
    BY DEF Claim
  <1>2. worker'[w].pc = "claimed" /\ \A v \in Workers \ {w} : worker'[v] = worker[v]
    BY DEF Claim, Written, Leased, Base, TypeOK, Session
  <1>3. ASSUME NEW v \in Workers PROVE SessionInOrder(v)'
    <2>1. CASE v = w
      BY <1>2, <2>1 DEF SessionInOrder
    <2>2. CASE v # w
      BY <1>1, <1>2, <2>2 DEF SessionInOrder, Written, InOrder
    <2>. QED BY <2>1, <2>2
  <1>4. ASSUME NEW q \in Replies PROVE RowInOrder(q)'
    BY <1>1 DEF RowInOrder, Written, InOrder
  <1>5. UNCHANGED Promise!vars
    BY <1>1 DEF Promise!vars, Fate
  <1>. QED BY <1>3, <1>4, <1>5 DEF PromiseKept, InOrder

LEMMA EndingPromises ==
    ASSUME Written, NEW w \in Workers,
           \/ FindSent(w) \/ FindUncertain(w) \/ Finalize(w) \/ Crash(w)
           \/ \E retryable \in BOOLEAN : Raise(w, retryable)
           \/ \E broken, retryable \in BOOLEAN : Block(w, broken, retryable)
    PROVE  PromiseKept
  <1>. DEFINE r == worker[w].reply
  <1>1. worker[w].pc # "idle"
    BY DEF FindSent, FindUncertain, Finalize, Crash, Raise, Block, Loadable
  <1>2. worker' = [worker EXCEPT ![w] = Idle] /\ UNCHANGED <<mail, ledger>>
    BY DEF FindSent, FindUncertain, Finalize, Crash, Raise, Block, EndJob
  <1>3. r \in Replies /\ RowInOrder(r)
    BY <1>1, HeldInOrder
  <1>4. outbox' = outbox \/ outbox' = [outbox EXCEPT ![r] = "failed_terminal"]
    BY DEF FindSent, FindUncertain, Finalize, Crash, Raise, Block
  <1>5. /\ outbox'[r] \in Sendable \cup {"none"} => outbox[r] \in Sendable \cup {"none"}
        /\ \A q \in Replies \ {r} : outbox'[q] = outbox[q]
    BY <1>3, <1>4 DEF Written, Leased, Base, TypeOK, Sendable
  <1>6. ASSUME NEW q \in Replies, q = r PROVE RowInOrder(q)'
    BY <1>2, <1>3, <1>5, <1>6 DEF RowInOrder
  <1>7. InOrder'
    BY <1>1, <1>2, <1>5, <1>6, IdleInOrder, WorkerOrder
  <1>8. UNCHANGED Promise!vars
    BY <1>2 DEF Promise!vars, Fate
  <1>. QED BY <1>7, <1>8 DEF PromiseKept

(* An acceptance, just answered or found on record by SkipSmtp.              *)
LEMMA AcceptancePromises ==
    ASSUME Written, NEW w \in Workers, RecordFollowup(w) \/ RecordRma(w)
    PROVE  PromiseKept
  <1>. DEFINE r == worker[w].reply
              status == IF worker[w].status = "ready_for_export" THEN "rma_sent"
                                                                  ELSE worker[w].status
              recorded == [worker[w] EXCEPT !.pc = "recorded", !.status = status]
  <1>1. worker[w].pc = "answered" /\ worker[w].answer = "accepted"
    BY DEF RecordFollowup, RecordRma
  <1>2. /\ mail' = mail /\ ledger' = [ledger EXCEPT ![r] = "succeeded"]
        /\ outbox' = [outbox EXCEPT ![r] = "accepted"]
    BY DEF RecordFollowup, RecordRma
  <1>3. PICK session : worker' = [worker EXCEPT ![w] = session] /\ session.pc \in {"idle", "recorded"}
    <2>1. worker' = [worker EXCEPT ![w] = Idle] \/ worker' = [worker EXCEPT ![w] = recorded]
      BY DEF RecordFollowup, RecordRma, EndJob
    <2>2. recorded.pc = "recorded" /\ Idle.pc = "idle"
      BY SessionTyped DEF Session, Idle, Written, Leased
    <2>. QED BY <2>1, <2>2
  <1>4. r \in Replies /\ RowInOrder(r) /\ mail[r].taken > 0
        /\ ledger[r] \in {"running", "succeeded"}
    BY <1>1, HeldInOrder, AnsweredIsTaken DEF SessionInOrder, Written, Leased
  <1>5. /\ outbox'[r] \notin Sendable \cup {"none"}
        /\ \A q \in Replies \ {r} : ledger'[q] = ledger[q] /\ outbox'[q] = outbox[q]
    BY <1>2, <1>4 DEF Written, Leased, Base, TypeOK, Sendable
  <1>6. ASSUME NEW q \in Replies, q = r PROVE RowInOrder(q)'
    BY <1>2, <1>4, <1>5, <1>6 DEF RowInOrder
  <1>7. SessionInOrder(w)'
    BY <1>3 DEF SessionInOrder, Written, Leased, Base, TypeOK
  <1>8. InOrder'
    BY <1>1, <1>2, <1>3, <1>5, <1>6, <1>7, WorkerOrder
  <1>9. CASE ledger[r] = "running"
    BY <1>2, <1>4, <1>8, <1>9, OutcomeRecorded DEF PromiseKept
  <1>10. CASE ledger[r] = "succeeded"
    <2>1. ledger' = ledger /\ Fate' = Fate
      BY <1>2, <1>4, <1>10 DEF Fate, Written, Leased, Base, TypeOK
    <2>. QED BY <1>8, <2>1 DEF PromiseKept, Promise!vars
  <1>. QED BY <1>4, <1>9, <1>10

LEMMA RecordFailurePromises ==
    ASSUME Written, NEW w \in Workers, NEW retryable \in BOOLEAN, RecordFailure(w, retryable)
    PROVE  PromiseKept
  <1>. DEFINE r == worker[w].reply
              answer == worker[w].answer
  <1>1. /\ worker[w].pc = "answered" /\ answer # "accepted" /\ mail' = mail
        /\ ledger' = [ledger EXCEPT ![r] = LedgerAfter(answer)]
        /\ outbox' = [outbox EXCEPT ![r] = OutboxAfter(answer)]
        /\ worker' = [worker EXCEPT ![w] = Idle]
    BY DEF RecordFailure, EndJob
  <1>2. answer \in Answers \ {"accepted"}
    BY <1>1, SessionTyped DEF Session, Written, Leased
  <1>3. r \in Replies /\ ledger[r] = "running" /\ RowInOrder(r)
        /\ (answer \in {"uncertain", "partial"} => mail[r].risky > 0)
    BY <1>1, HeldInOrder DEF SessionInOrder
  <1>4. answer \in {"rejected", "terminal"} => mail[r].risky = 0
    BY <1>1 DEF Written, Leased, SendableIsUnsent, NotYetSent
  <1>5. /\ ledger'[r] = LedgerAfter(answer) /\ outbox'[r] = OutboxAfter(answer)
        /\ \A q \in Replies \ {r} : ledger'[q] = ledger[q] /\ outbox'[q] = outbox[q]
    BY <1>1, <1>3 DEF Written, Leased, Base, TypeOK
  <1>. HIDE DEF answer
  <1>6. /\ OutboxAfter(answer) \in Sendable \cup {"none"}
           => LedgerAfter(answer) = "failed_retryable"
        /\ LedgerAfter(answer) \in {"uncertain", "failed_retryable", "failed_terminal"}
        /\ LedgerAfter(answer) = "uncertain" => answer \in {"uncertain", "partial"}
        /\ LedgerAfter(answer) \in {"failed_retryable", "failed_terminal"}
           => answer \in {"rejected", "terminal"}
    BY <1>2 DEF Answers, OutboxAfter, LedgerAfter, Sendable
  <1>7. ASSUME NEW q \in Replies, q = r PROVE RowInOrder(q)'
    BY <1>1, <1>3, <1>5, <1>6, <1>7 DEF RowInOrder, Repeatable
  <1>8. InOrder'
    BY <1>1, <1>5, <1>7, IdleInOrder, WorkerOrder
  <1>9. Promise!Next
    BY <1>1, <1>3, <1>4, <1>6, OutcomeRecorded
  <1>. QED BY <1>8, <1>9 DEF PromiseKept

(* What a session reads is in order, and so is what it finds done.           *)
LEMMA FreezePromises ==
    ASSUME Written, NEW w \in Workers, Freeze(w) \/ SkipSmtp(w) PROVE PromiseKept
  <1>. DEFINE r == worker[w].reply
              frozen == [worker[w] EXCEPT !.pc = "frozen", !.outbox = outbox[r],
                           !.status = ticket.status, !.followups = ticket.followups]
              skipped == [worker[w] EXCEPT !.pc = "answered", !.answer = "accepted"]
  <1>1. worker[w].pc # "idle" /\ UNCHANGED <<mail, ledger, outbox>>
    BY DEF Freeze, SkipSmtp, Loadable
  <1>2. r \in Replies /\ RowInOrder(r)
    BY <1>1, HeldInOrder
  <1>3. PICK session : /\ worker' = [worker EXCEPT ![w] = session] /\ session.reply = r
                       /\ \/ session.pc = "frozen" /\ session.outbox = outbox[r]
                          \/ /\ session.pc = "answered" /\ session.answer = "accepted"
                             /\ ledger[r] = "succeeded"
    <2>1. \/ worker' = [worker EXCEPT ![w] = frozen]
          \/ worker' = [worker EXCEPT ![w] = skipped] /\ ledger[r] = "succeeded"
      BY DEF Freeze, SkipSmtp
    <2>2. /\ frozen.reply = r /\ frozen.pc = "frozen" /\ frozen.outbox = outbox[r]
          /\ skipped.reply = r /\ skipped.pc = "answered" /\ skipped.answer = "accepted"
      BY SessionTyped DEF Session, Written, Leased
    <2>. QED BY <2>1, <2>2
  <1>4. worker'[w] = session
    BY <1>3 DEF Written, Leased, Base, TypeOK
  <1>5. SessionInOrder(w)' /\ \A q \in Replies : q = r => RowInOrder(q)'
    BY <1>1, <1>2, <1>3, <1>4 DEF SessionInOrder, RowInOrder
  <1>6. InOrder'
    BY <1>1, <1>3, <1>5, WorkerOrder
  <1>7. UNCHANGED Promise!vars
    BY <1>1 DEF Promise!vars, Fate
  <1>. QED BY <1>6, <1>7 DEF PromiseKept

LEMMA BeginSmtpPromises == ASSUME Written, NEW w \in Workers, BeginSmtp(w) PROVE PromiseKept
  <1>. DEFINE r == worker[w].reply
              session == [worker[w] EXCEPT !.pc = "calling"]
  <1>1. worker[w].pc = "frozen" /\ worker[w].outbox \in Sendable /\ mail' = mail
    BY DEF BeginSmtp, MayTransmit
  <1>2. r \in Replies /\ RowInOrder(r) /\ ledger[r] \in Repeatable /\ mail[r].risky = 0
    BY <1>1, HeldInOrder DEF SessionInOrder, Written, Leased, SendableIsUnsent, NotYetSent
  <1>3. /\ worker' = [worker EXCEPT ![w] = session]
        /\ outbox' = [outbox EXCEPT ![r] = "sending"]
        /\ ledger' = [ledger EXCEPT ![r] = "running"]
    BY <1>2, SessionTyped DEF BeginSmtp, Started, Session, Repeatable, Written, Leased, Base, TypeOK
  <1>4. session.pc = "calling"
    BY SessionTyped DEF Session, Written, Leased
  <1>. HIDE DEF session
  <1>5. /\ outbox'[r] = "sending"
        /\ \A q \in Replies \ {r} : ledger'[q] = ledger[q] /\ outbox'[q] = outbox[q]
    BY <1>2, <1>3 DEF Written, Leased, Base, TypeOK
  <1>6. ASSUME NEW q \in Replies, q = r PROVE RowInOrder(q)'
    BY <1>1, <1>2, <1>5, <1>6 DEF RowInOrder, Sendable
  <1>7. SessionInOrder(w)'
    BY <1>3, <1>4 DEF SessionInOrder, Written, Leased, Base, TypeOK
  <1>8. InOrder'
    BY <1>1, <1>3, <1>5, <1>6, <1>7, WorkerOrder
  <1>9. Promise!Intend(r)
    BY <1>1, <1>2, <1>3 DEF Promise!Intend, Fate, Repeatable
  <1>. QED BY <1>2, <1>8, <1>9 DEF PromiseKept, Promise!Next

LEMMA TransmitPromises ==
    ASSUME Written, NEW w \in Workers, NEW answer \in Answers, NEW taken \in BOOLEAN,
           Transmit(w, answer, taken)
    PROVE  PromiseKept
  <1>. DEFINE r == worker[w].reply
              session == [worker[w] EXCEPT !.pc = "answered", !.answer = answer]
              taken1 == IF taken THEN mail[r].taken + 1 ELSE mail[r].taken
              risky1 == IF answer \in {"rejected", "terminal"} THEN mail[r].risky
                                                              ELSE mail[r].risky + 1
              row == [mail[r] EXCEPT !.taken = taken1, !.risky = risky1]
  <1>1. worker[w].pc = "calling" /\ UNCHANGED <<ledger, outbox>>
    BY DEF Transmit
  <1>2. r \in Replies /\ RowInOrder(r)
    BY <1>1, HeldInOrder
  <1>3. mail[r] \in [risky : Nat, taken : Nat] /\ mail[r].risky = 0 /\ ledger[r] = "running"
        /\ outbox[r] \notin Sendable \cup {"none"}
    BY <1>1, <1>2 DEF Written, Leased, Base, TypeOK, SendableIsUnsent, NotYetSent
  <1>4. mail[r].taken = 0
    BY <1>2, <1>3 DEF RowInOrder
  <1>5. worker' = [worker EXCEPT ![w] = session] /\ mail' = [mail EXCEPT ![r] = row]
    BY DEF Transmit
  <1>6. session.pc = "answered" /\ session.reply = r /\ session.answer = answer
    BY SessionTyped DEF Session, Written, Leased
  <1>7. /\ answer \in {"rejected", "terminal"} => risky1 = 0 /\ taken1 = 0
        /\ answer \notin {"rejected", "terminal"} => risky1 = 1 /\ taken1 \in {0, 1}
    BY <1>3, <1>4 DEF Transmit
  <1>. HIDE DEF session, taken1, risky1
  <1>8. row.risky = risky1 /\ row.taken = taken1
    BY <1>3
  <1>. HIDE DEF row
  <1>9. mail'[r] = row /\ worker'[w] = session /\ \A q \in Replies \ {r} : mail'[q] = mail[q]
    BY <1>2, <1>5 DEF Written, Leased, Base, TypeOK
  <1>10. ASSUME NEW q \in Replies, q = r PROVE RowInOrder(q)'
    BY <1>1, <1>3, <1>7, <1>8, <1>9, <1>10 DEF RowInOrder
  <1>11. SessionInOrder(w)'
    BY <1>1, <1>3, <1>6, <1>7, <1>8, <1>9 DEF SessionInOrder
  <1>12. InOrder'
    BY <1>1, <1>5, <1>9, <1>10, <1>11, WorkerOrder
  <1>13. Fate[r] = "held"
    BY <1>2, <1>3 DEF Fate
  <1>14. CASE answer \in {"rejected", "terminal"}
    <2>1. \A q \in Replies : (mail'[q].risky = 0 <=> mail[q].risky = 0)
                             /\ (mail'[q].taken = 0 <=> mail[q].taken = 0)
      BY <1>3, <1>4, <1>7, <1>8, <1>9, <1>14
    <2>2. Fate' = Fate
      BY <2>1 DEF Fate
    <2>. QED BY <1>1, <1>12, <2>2 DEF PromiseKept, Promise!vars
  <1>15. CASE answer \notin {"rejected", "terminal"}
    <2>. DEFINE end == IF taken1 = 0 THEN "lost" ELSE "taken"
    <2>1. \A q \in Replies : Fate'[q] = IF q = r THEN end ELSE Fate[q]
      BY <1>7, <1>8, <1>9, <1>15 DEF Fate
    <2>2. Fate' = [Fate EXCEPT ![r] = end] /\ end \in {"lost", "taken"}
      BY <2>1 DEF Fate
    <2>. HIDE DEF end
    <2>3. Promise!HandOver(r)
      BY <1>1, <1>3, <1>13, <2>2 DEF Promise!HandOver
    <2>. QED BY <1>2, <1>12, <2>3 DEF PromiseKept, Promise!Next
  <1>. QED BY <1>14, <1>15

LEMMA NextPromises ==
    ASSUME Written, [Next]_vars PROVE PromiseKept
  <1>1. CASE \E r \in Replies : Operator(r) \/ Recover(r)
    BY <1>1, OperatorPromises
  <1>2. CASE \E r \in Replies, w \in Workers : Claim(w, r)
    BY <1>2, ClaimPromises
  <1>3. ASSUME NEW w \in Workers, Progress(w) \/ Crash(w) PROVE PromiseKept
    <2>1. CASE \/ Freeze(w) \/ SkipSmtp(w) \/ BeginSmtp(w)
               \/ \E answer \in Answers, taken \in BOOLEAN : Transmit(w, answer, taken)
      BY <2>1, FreezePromises, BeginSmtpPromises, TransmitPromises
    <2>2. CASE Answer(w)
      BY <2>2, AcceptancePromises, RecordFailurePromises DEF Answer
    <2>3. CASE \/ FindSent(w) \/ FindUncertain(w) \/ Finalize(w) \/ Crash(w)
               \/ \E retryable \in BOOLEAN : Raise(w, retryable)
               \/ \E broken, retryable \in BOOLEAN : Block(w, broken, retryable)
      BY <2>3, EndingPromises
    <2>. QED BY <1>3, <2>1, <2>2, <2>3 DEF Progress
  <1>4. CASE \/ TicketMoves \/ IssueRefused \/ ReleasePolicy \/ Recount
             \/ \E type \in TaskType : ResolveTask(type)
             \/ UNCHANGED vars
    BY <1>4, ElsewherePromises
  <1>. QED BY <1>1, <1>2, <1>3, <1>4 DEF Next

LEMMA InitPromises == Init => InOrder /\ Promise!Init
  <1>. SUFFICES ASSUME Init PROVE InOrder /\ Promise!Init
    OBVIOUS
  <1>1. \A w \in Workers : worker[w].pc = "idle"
    BY DEF Init, Idle
  <1>2. \A r \in Replies : mail[r].risky = 0 /\ mail[r].taken = 0 /\ ledger[r] = "none"
    BY DEF Init
  <1>3. InOrder
    BY <1>1, <1>2 DEF InOrder, RowInOrder, SessionInOrder, Repeatable
  <1>4. Promise!Init
    BY <1>2 DEF Promise!Init, Fate, Init
  <1>. QED BY <1>3, <1>4

(* Sending implements DeliveryPromise: no call without an intention on       *)
(* record, one hand-over, one true outcome; whatever crashes, is retried,    *)
(* approved again or reconciled in between.  As for DeliversOnce, leases     *)
(* must outlive the attempts.                                                *)
THEOREM PromiseIsKept ==
    ASSUME LeaseOutlivesAttempt
    PROVE  Spec => KeepsPromise
  <1>1. Spec => []Leased
    BY AlwaysLeased
  <1>2. Leased /\ InOrder /\ [Next]_vars => InOrder' /\ [Promise!Next]_Promise!vars
    BY NextPromises DEF Written, PromiseKept
  <1>. QED BY <1>1, <1>2, InitPromises, PTL DEF Spec, KeepsPromise, Promise!Spec
-----------------------------------------------------------------------------
(* The jobs, as the queue offers them.                                       *)
QueueKept == [Queue!Next]_Queue!vars

LEMMA RunnersKept == ASSUME UNCHANGED worker PROVE Runner' = Runner
  BY DEF Runner, Holders

LEMMA PhasesKept == ASSUME UNCHANGED job PROVE Phase' = Phase
  BY DEF Phase

LEMMA OneRuns ==
    ASSUME Leased, NEW w \in Workers, worker[w].pc # "idle"
    PROVE  /\ worker[w].reply \in Replies /\ Holders(worker[w].reply) = {w}
           /\ Phase[worker[w].reply] = "begun" /\ Runner[worker[w].reply] = {w}
  <1>1. worker[w].reply \in Replies /\ job[worker[w].reply].phase = "begun"
    BY Holds DEF Leased, OneHolder
  <1>2. Holders(worker[w].reply) = {w}
    BY DEF Leased, OneHolder, Holders
  <1>. QED BY <1>1, <1>2 DEF Phase, Runner

(* A worker that goes on with its reply still holds it.                      *)
LEMMA GoingOnRuns ==
    ASSUME Leased, NEW w \in Workers, worker[w].pc # "idle", UNCHANGED job,
           NEW session, session.pc # "idle", session.reply = worker[w].reply,
           worker' = [worker EXCEPT ![w] = session]
    PROVE  QueueKept
  <1>1. /\ worker'[w] = session
        /\ \A v \in Workers \ {w} : worker'[v] = worker[v]
    BY DEF Leased, Base, TypeOK
  <1>2. ASSUME NEW v \in Workers
        PROVE  (worker'[v].pc # "idle" <=> worker[v].pc # "idle")
               /\ worker'[v].reply = worker[v].reply
    BY <1>1
  <1>3. \A r \in Replies : Holders(r)' = Holders(r)
    BY <1>2 DEF Holders
  <1>4. Runner' = Runner
    BY <1>3 DEF Runner
  <1>. QED BY <1>4, PhasesKept DEF QueueKept, Queue!vars

LEMMA IdleRuns ==
    ASSUME Leased, NEW w \in Workers, worker[w].pc # "idle",
           worker' = [worker EXCEPT ![w] = Idle]
    PROVE  Runner' = [Runner EXCEPT ![worker[w].reply] = {}]
  <1>. DEFINE r == worker[w].reply
  <1>1. /\ worker'[w].pc = "idle"
        /\ \A v \in Workers \ {w} : worker'[v] = worker[v]
    BY DEF Leased, Base, TypeOK, Idle
  <1>2. r \in Replies /\ Holders(r) = {w}
    BY OneRuns
  <1>3. ASSUME NEW q \in Replies PROVE Holders(q)' = IF q = r THEN {} ELSE Holders(q)
    BY <1>1, <1>2 DEF Holders
  <1>. QED BY <1>2, <1>3 DEF Runner

LEMMA EndRuns ==
    ASSUME Leased, NEW w \in Workers, worker[w].pc # "idle",
           NEW phase \in {"waiting"} \cup Ended, EndJob(w, phase)
    PROVE  QueueKept
  <1>. DEFINE r == worker[w].reply
  <1>1. r \in Replies /\ Phase[r] = "begun" /\ Runner[r] = {w}
    BY OneRuns
  <1>2. Runner' = [Runner EXCEPT ![r] = {}]
    BY IdleRuns DEF EndJob
  <1>3. job' = [job EXCEPT ![r].phase = phase]
    BY DEF EndJob
  <1>4. \A q \in Replies : job'[q].phase = IF q = r THEN phase ELSE job[q].phase
    BY <1>1, <1>3 DEF Leased, Base, TypeOK, JobRow
  <1>5. Phase' = [Phase EXCEPT ![r] = phase]
    BY <1>4 DEF Phase
  <1>6. Queue!Report(r, phase)
    BY <1>1, <1>2, <1>5 DEF Queue!Report
  <1>. QED BY <1>1, <1>6 DEF QueueKept, Queue!Next

LEMMA CrashRuns == ASSUME Leased, NEW w \in Workers, Crash(w) PROVE QueueKept
  <1>. DEFINE r == worker[w].reply
  <1>1. worker[w].pc # "idle" /\ UNCHANGED job /\ worker' = [worker EXCEPT ![w] = Idle]
    BY DEF Crash
  <1>2. r \in Replies /\ Runner[r] = {w} /\ Runner' = [Runner EXCEPT ![r] = {}]
    BY <1>1, OneRuns, IdleRuns
  <1>3. Phase' = Phase /\ Phase' = [Phase EXCEPT ![r] = IF @ = "failing" THEN "failed" ELSE @]
    BY <1>1, <1>2, OneRuns, PhasesKept DEF Phase
  <1>4. Queue!Vanish(r)
    BY <1>2, <1>3 DEF Queue!Vanish
  <1>. QED BY <1>2, <1>4 DEF QueueKept, Queue!Next

LEMMA ClaimRuns ==
    ASSUME Leased, NEW w \in Workers, NEW r \in Replies, Claim(w, r) PROVE QueueKept
  <1>1. /\ worker[w].pc = "idle" /\ worker'[w].pc = "claimed" /\ worker'[w].reply = r
        /\ \A v \in Workers \ {w} : worker'[v] = worker[v]
    BY DEF Claim, Leased, Base, TypeOK, Session
  <1>2. /\ job[r].phase = "waiting" /\ job'[r].phase = "begun"
        /\ \A q \in Replies \ {r} : job'[q] = job[q]
    BY DEF Claim, Leased, Base, TypeOK, JobRow
  <1>3. Holders(r) = {}
    BY <1>2 DEF Holders, Leased, OneHolder
  <1>4. ASSUME NEW q \in Replies PROVE Holders(q)' = IF q = r THEN {w} ELSE Holders(q)
    BY <1>1, <1>3 DEF Holders
  <1>5. Runner[r] = {} /\ Runner' = [Runner EXCEPT ![r] = {w}]
    BY <1>3, <1>4 DEF Runner
  <1>6. Phase[r] = "waiting" /\ Phase' = [Phase EXCEPT ![r] = "begun"]
    BY <1>2 DEF Phase
  <1>7. Queue!Take(r, w)
    BY <1>5, <1>6 DEF Queue!Take
  <1>. QED BY <1>7 DEF QueueKept, Queue!Next

LEMMA EnqueueRuns ==
    ASSUME Leased, NEW r \in Replies, NEW by \in {"approved", "auto_approved"}, EnqueueSend(r, by)
    PROVE  QueueKept
  <1>1. UNCHANGED worker /\ job' = [job EXCEPT ![r].phase = IF @ = "absent" THEN "waiting" ELSE @]
    BY DEF EnqueueSend
  <1>2. \A q \in Replies : job'[q].phase = IF q = r /\ job[r].phase = "absent" THEN "waiting"
                                           ELSE job[q].phase
    BY <1>1 DEF Leased, Base, TypeOK, JobRow
  <1>3. CASE job[r].phase = "absent"
    <2>1. Phase[r] = "absent" /\ Phase' = [Phase EXCEPT ![r] = "waiting"]
      BY <1>2, <1>3 DEF Phase
    <2>2. Queue!Submit(r)
      BY <1>1, <2>1, RunnersKept DEF Queue!Submit
    <2>. QED BY <2>2 DEF QueueKept, Queue!Next
  <1>4. CASE job[r].phase # "absent"
    <2>1. Phase' = Phase
      BY <1>2, <1>4 DEF Phase
    <2>. QED BY <1>1, <2>1, RunnersKept DEF QueueKept, Queue!vars
  <1>. QED BY <1>3, <1>4

LEMMA RecoverRuns ==
    ASSUME LeaseOutlivesAttempt, Leased, NEW r \in Replies, Recover(r) PROVE QueueKept
  <1>. DEFINE to == RetryOr(r, "failed")
  <1>1. /\ UNCHANGED worker /\ job' = [job EXCEPT ![r].phase = to]
        /\ job[r].phase = "begun" /\ Holders(r) = {} /\ to \in {"waiting", "failed"}
    BY DEF Recover, RetryOr
  <1>. HIDE DEF to
  <1>2. \A q \in Replies : job'[q].phase = IF q = r THEN to ELSE job[q].phase
    BY <1>1 DEF Leased, Base, TypeOK, JobRow
  <1>3. Phase[r] = "begun" /\ Runner[r] = {} /\ Phase' = [Phase EXCEPT ![r] = to]
    BY <1>1, <1>2 DEF Phase, Runner
  <1>4. Phase' \in [Replies -> {"absent", "waiting", "begun"} \cup Ended]
    <2>1. \A q \in Replies : job[q].phase \in {"absent", "waiting", "begun"} \cup Ended
      BY DEF Leased, Base, TypeOK, JobRow
    <2>2. \A q \in Replies : job'[q].phase \in {"absent", "waiting", "begun"} \cup Ended
      BY <1>1, <1>2, <2>1 DEF Ended
    <2>. QED BY <2>2 DEF Phase
  <1>5. ASSUME NEW q \in Replies PROVE Queue!Dispatched(q)
    <2>1. CASE q = r
      BY <1>1, <1>3, <2>1 DEF Queue!Dispatched, Phase
    <2>2. CASE q # r
      BY <1>3, <2>2 DEF Queue!Dispatched, Phase
    <2>. QED BY <2>1, <2>2
  <1>6. Queue!Dispatch
    BY <1>1, <1>4, <1>5, RunnersKept DEF Queue!Dispatch
  <1>. QED BY <1>6 DEF QueueKept, Queue!Next

LEMMA OperatorRuns == ASSUME Leased, NEW r \in Replies, Operator(r) PROVE QueueKept
  <1>1. ASSUME NEW by \in {"approved", "auto_approved"}, EnqueueSend(r, by) PROVE QueueKept
    BY <1>1, EnqueueRuns
  <1>2. CASE ~\E by \in {"approved", "auto_approved"} : EnqueueSend(r, by)
    <2>1. UNCHANGED <<job, worker>>
      BY <1>2, Zenon DEF Operator, DraftForReview, DraftAndSend, AutoApprove, Approve,
             ApproveUncertain, ApproveBlocked, ApprovalLost, RejectRead, RejectWrite,
             RetryArchive, RetrySend, ReuseSent, Bounce, ReconcileSent, ReconcileFailed
    <2>. QED BY <2>1, RunnersKept, PhasesKept DEF QueueKept, Queue!vars
  <1>. QED BY <1>1, <1>2

LEMMA ProgressRuns == ASSUME Leased, NEW w \in Workers, Progress(w) PROVE QueueKept
  <1>. DEFINE r == worker[w].reply
  <1>1. ASSUME NEW phase \in {"waiting"} \cup Ended, EndJob(w, phase), worker[w].pc # "idle"
        PROVE  QueueKept
    BY <1>1, EndRuns
  <1>2. \A q, phase : phase \in Ended => RetryOr(q, phase) \in {"waiting"} \cup Ended
    BY DEF RetryOr
  <1>3. CASE FindSent(w) \/ FindUncertain(w) \/ Finalize(w) \/ RecordFollowup(w)
    BY <1>1, <1>3 DEF FindSent, FindUncertain, Finalize, RecordFollowup, Ended
  <1>4. ASSUME NEW broken \in BOOLEAN, NEW retryable \in BOOLEAN, Block(w, broken, retryable)
        PROVE  QueueKept
    <2>1. \E phase \in {"waiting"} \cup Ended : EndJob(w, phase)
      BY <1>2, <1>4 DEF Block, Ended
    <2>. QED BY <1>1, <1>4, <2>1 DEF Block, Loadable
  <1>5. ASSUME NEW retryable \in BOOLEAN, Raise(w, retryable) PROVE QueueKept
    <2>1. \E phase \in {"waiting"} \cup Ended : EndJob(w, phase)
      BY <1>2, <1>5 DEF Raise, Ended
    <2>. QED BY <1>1, <1>5, <2>1 DEF Raise
  <1>6. ASSUME NEW retryable \in BOOLEAN, RecordFailure(w, retryable) PROVE QueueKept
    <2>1. \E phase \in {"waiting"} \cup Ended : EndJob(w, phase)
      BY <1>2, <1>6 DEF RecordFailure, Ended
    <2>. QED BY <1>1, <1>6, <2>1 DEF RecordFailure
  <1>7. ASSUME NEW session, worker' = [worker EXCEPT ![w] = session], session.pc # "idle",
               session.reply = r, worker[w].pc # "idle", UNCHANGED job
        PROVE  QueueKept
    BY <1>7, GoingOnRuns
  <1>. DEFINE frozen == [worker[w] EXCEPT !.pc = "frozen", !.outbox = outbox[r],
                           !.status = ticket.status, !.followups = ticket.followups]
              skipped == [worker[w] EXCEPT !.pc = "answered", !.answer = "accepted"]
              calling == [worker[w] EXCEPT !.pc = "calling"]
              answered(answer) == [worker[w] EXCEPT !.pc = "answered", !.answer = answer]
              sent == IF worker[w].status = "ready_for_export" THEN "rma_sent"
                                                                ELSE worker[w].status
              recorded == [worker[w] EXCEPT !.pc = "recorded", !.status = sent]
  <1>8. /\ frozen.pc # "idle" /\ frozen.reply = r
        /\ skipped.pc # "idle" /\ skipped.reply = r
        /\ calling.pc # "idle" /\ calling.reply = r
        /\ \A answer : answered(answer).pc # "idle" /\ answered(answer).reply = r
        /\ recorded.pc # "idle" /\ recorded.reply = r
    BY SessionTyped DEF Session, Leased
  <1>9. CASE Freeze(w)
    <2>1. worker' = [worker EXCEPT ![w] = frozen] /\ worker[w].pc # "idle" /\ UNCHANGED job
      BY <1>9 DEF Freeze, Loadable
    <2>. QED BY <1>7, <1>8, <2>1
  <1>10. CASE SkipSmtp(w)
    <2>1. worker' = [worker EXCEPT ![w] = skipped] /\ worker[w].pc # "idle" /\ UNCHANGED job
      BY <1>10 DEF SkipSmtp
    <2>. QED BY <1>7, <1>8, <2>1
  <1>11. CASE BeginSmtp(w)
    <2>1. worker' = [worker EXCEPT ![w] = calling] /\ worker[w].pc # "idle" /\ UNCHANGED job
      BY <1>11, SessionTyped DEF BeginSmtp, Session, Leased
    <2>. QED BY <1>7, <1>8, <2>1
  <1>12. ASSUME NEW answer \in Answers, NEW taken \in BOOLEAN, Transmit(w, answer, taken)
         PROVE  QueueKept
    <2>1. worker' = [worker EXCEPT ![w] = answered(answer)] /\ worker[w].pc # "idle"
          /\ UNCHANGED job
      BY <1>12 DEF Transmit
    <2>. QED BY <1>7, <1>8, <2>1
  <1>13. CASE RecordRma(w)
    <2>1. worker' = [worker EXCEPT ![w] = recorded] /\ worker[w].pc # "idle" /\ UNCHANGED job
      BY <1>13 DEF RecordRma
    <2>. QED BY <1>7, <1>8, <2>1
  <1>. QED BY <1>3, <1>4, <1>5, <1>6, <1>9, <1>10, <1>11, <1>12, <1>13 DEF Progress, Answer

LEMMA NextRuns ==
    ASSUME LeaseOutlivesAttempt, Leased, [Next]_vars PROVE QueueKept
  <1>1. CASE \E r \in Replies : Operator(r) \/ Recover(r)
    BY <1>1, OperatorRuns, RecoverRuns
  <1>2. CASE \E r \in Replies, w \in Workers : Claim(w, r)
    BY <1>2, ClaimRuns
  <1>3. CASE \E w \in Workers : Progress(w) \/ Crash(w)
    BY <1>3, ProgressRuns, CrashRuns
  <1>4. CASE \/ TicketMoves \/ IssueRefused \/ ReleasePolicy \/ Recount
             \/ \E type \in TaskType : ResolveTask(type)
             \/ UNCHANGED vars
    <2>1. UNCHANGED <<job, worker>>
      BY <1>4 DEF TicketMoves, IssueRefused, ReleasePolicy, Recount, ResolveTask, vars
    <2>. QED BY <2>1, RunnersKept, PhasesKept DEF QueueKept, Queue!vars
  <1>. QED BY <1>1, <1>2, <1>3, <1>4 DEF Next

LEMMA InitRuns == Init => Queue!Init
  <1>. SUFFICES ASSUME Init PROVE Queue!Init
    OBVIOUS
  <1>1. Runner = [r \in Replies |-> {}]
    BY DEF Init, Runner, Holders, Idle
  <1>2. Phase = [r \in Replies |-> IF r \in {} THEN "begun" ELSE "absent"]
    BY DEF Init, Phase
  <1>. QED BY <1>1, <1>2 DEF Queue!Init

(* What the model of sending takes for granted of its jobs is no more than   *)
(* what JobQueueProofs shows of the queue (Refines): both are JobLifecycle.  *)
THEOREM JobsAsOffered ==
    ASSUME LeaseOutlivesAttempt
    PROVE  Spec => UsesQueue
  <1>1. Leased /\ [Next]_vars => [Queue!Next]_Queue!vars
    BY NextRuns DEF QueueKept
  <1>. QED BY <1>1, AlwaysLeased, InitRuns, PTL DEF Spec, UsesQueue, Queue!Spec
-----------------------------------------------------------------------------
(* One mail worker: what it has in memory is never older than a closure.     *)
LateStays == ticket.status = "closed" => ticket'.status = "closed"

DeskStatus ==
    /\ LateStays
    /\ ticket'.status \in Late => ticket.status \in Late \/ MailWorkerFree

LEMMA OpenTaskStatus ==
    ASSUME Base, NEW open \in SUBSET TaskType, OpenTask(open, ticket.status)
    PROVE  DeskStatus
  <1>1. \/ ticket'.status = ticket.status
        \/ ticket'.status = "manual_review" /\ ticket.status \notin Late
    BY TicketHasStatus, OpenTaskMoves
  <1>. QED BY <1>1 DEF DeskStatus, LateStays, Late

LEMMA ArchiveStatus ==
    ASSUME Base, NEW r \in Rma, NEW files \in BOOLEAN, NEW open \in SUBSET TaskType,
           reply[r].send # "absent", mail[r].taken > 0,
           Archive(r, ticket.status, files, open)
    PROVE  DeskStatus
  <1>1. \/ ticket'.status = ticket.status
        \/ ticket'.status = "closed" /\ ticket.status = "rma_sent"
        \/ ticket'.status = "manual_review" /\ ticket.status \notin Late
    BY TicketHasStatus, ArchiveMoves
  <1>. QED BY <1>1 DEF DeskStatus, LateStays, Late

LEMMA SameStatus == ASSUME ticket'.status = ticket.status PROVE DeskStatus
  BY DEF DeskStatus, LateStays

LEMMA OperatorStatus == ASSUME Base, NEW r \in Replies, Operator(r) PROVE DeskStatus
  <1>t. ticket \in TicketRow
    BY DEF Base, TypeOK
  <1>1. CASE \/ DraftForReview(r) \/ AutoApprove(r) \/ Approve(r) \/ RejectRead(r)
             \/ RejectWrite(r) \/ Bounce(r) \/ ReconcileFailed(r)
             \/ \E by \in {"approved", "auto_approved"} : EnqueueSend(r, by) \/ ApprovalLost(r, by)
    BY <1>1, SameStatus DEF DraftForReview, AutoApprove, Approve, RejectRead, RejectWrite, Bounce,
       ReconcileFailed, EnqueueSend, ApprovalLost
  <1>2. CASE DraftAndSend(r) \/ ApproveUncertain(r) \/ ApproveBlocked(r)
    BY <1>2, SameStatus, TicketHasStatus, OpenTaskStatus
    DEF DraftAndSend, ApproveUncertain, ApproveBlocked
  <1>3. CASE RetryArchive(r)
    BY <1>3, SentIsTaken, TicketHasStatus, ArchiveStatus DEF RetryArchive
  <1>4. CASE RetrySend(r)
    <2>1. tasks \ {"rma"} \in SUBSET TaskType
      BY TicketHasStatus
    <2>. QED BY <1>4, <2>1, SentIsTaken, ArchiveStatus DEF RetrySend
  <1>5. CASE ReuseSent(r)
    BY <1>5 DEF ReuseSent, DeskStatus, LateStays
  <1>6. CASE ReconcileSent(r)
    <2>1. CASE r \in Rma
      BY <1>6, <2>1, TicketHasStatus, ArchiveStatus DEF ReconcileSent
    <2>2. CASE r \notin Rma
      <3>1. ticket' = [ticket EXCEPT !.followups = OneMore(ticket.followups),
              !.status = IF ticket.status = "need_customer_info" THEN "auto_replied"
                                                                 ELSE ticket.status]
        BY <1>6, <2>2 DEF ReconcileSent
      <3>2. \/ ticket'.status = ticket.status
            \/ ticket.status = "need_customer_info" /\ ticket'.status = "auto_replied"
        BY <1>t, <3>1 DEF TicketRow
      <3>. QED BY <3>2 DEF DeskStatus, LateStays, Late
    <2>. QED BY <2>1, <2>2
  <1>. QED BY <1>1, <1>2, <1>3, <1>4, <1>5, <1>6 DEF Operator

LEMMA ElsewhereStatus ==
    ASSUME Base, \/ TicketMoves \/ IssueRefused \/ ReleasePolicy \/ Recount
                 \/ \E r \in Replies : Recover(r)
                 \/ \E type \in TaskType : ResolveTask(type)
                 \/ UNCHANGED vars
    PROVE  DeskStatus
  <1>t. ticket \in TicketRow
    BY DEF Base, TypeOK
  <1>1. CASE TicketMoves
    <2>1. ticket.status # "closed" /\ ticket'.status \notin Late
      BY <1>1, <1>t DEF TicketMoves, TicketRow, Late
    <2>. QED BY <2>1 DEF DeskStatus, LateStays
  <1>2. CASE ReleasePolicy \/ Recount
    BY <1>2, <1>t, SameStatus DEF ReleasePolicy, Recount, TicketRow
  <1>3. CASE \/ IssueRefused \/ \E r \in Replies : Recover(r)
             \/ \E type \in TaskType : ResolveTask(type)
             \/ UNCHANGED vars
    BY <1>3, SameStatus DEF IssueRefused, Recover, ResolveTask, vars
  <1>. QED BY <1>1, <1>2, <1>3

LEMMA DeskKeepsCopy ==
    ASSUME NEW w, Workers = {w}, CopyIsEarly, DeskStatus, worker' = worker
    PROVE  CopyIsEarly'
  BY DEF CopyIsEarly, DeskStatus, MailWorkerFree, Loaded

(* A worker that has finished, or that has read the ticket only now, keeps   *)
(* nothing old.                                                              *)
LEMMA ForgetsCopy ==
    ASSUME Base, NEW w, Workers = {w}, worker' = [worker EXCEPT ![w] = Idle]
    PROVE  CopyIsEarly'
  <1>1. worker'[w] = Idle
    BY DEF Base, TypeOK
  <1>. QED BY <1>1 DEF CopyIsEarly, Loaded, Idle

(* A worker that goes on with the ticket it has.                             *)
LEMMA GoesOnWithCopy ==
    ASSUME Base, NEW w, Workers = {w}, CopyIsEarly, NEW session,
           worker' = [worker EXCEPT ![w] = session], Loaded(w),
           session.status = worker[w].status, ticket' = ticket
    PROVE  CopyIsEarly'
  <1>1. worker'[w] = session
    BY DEF Base, TypeOK
  <1>. QED BY <1>1 DEF CopyIsEarly, Loaded

LEMMA WorkerStatus ==
    ASSUME Base, CopyIsEarly, NEW w, Workers = {w}, Progress(w) \/ Crash(w)
    PROVE  CopyIsEarly' /\ LateStays
  <1>. DEFINE r == worker[w].reply
  <1>t. ticket \in TicketRow /\ worker[w] \in Session /\ tasks \in SUBSET TaskType
    BY DEF Base, TypeOK
  <1>s. ticket.status \in TicketStatus /\ worker[w].status \in TicketStatus
    BY <1>t DEF TicketRow, Session
  <1>e. Loaded(w) /\ ticket.status = "closed" => worker[w].status \in Late
    BY DEF CopyIsEarly, Late
  <1>1. CASE FindSent(w)
    <2>1. worker[w].pc # "idle" /\ r \in Replies /\ mail[r].taken > 0 /\ reply[r] \in ReplyRow
      BY <1>1, Holds, SentIsTaken DEF FindSent, Base, TypeOK
    <2>2. CASE r \in Rma
      <3>1. reply[r].filed \in BOOLEAN /\ FinalizeIssue(r, reply[r].filed, ticket.status)
        BY <1>1, <2>1, <2>2 DEF ReplyRow, FindSent
      <3>2. \/ ticket'.status = ticket.status
            \/ ticket'.status = "closed" /\ ticket.status = "rma_sent"
            \/ ticket'.status = "manual_review" /\ ticket.status \notin Late
        BY <1>1, <1>s, <2>1, <2>2, <3>1, FinalizeIssueMoves DEF FindSent
      <3>3. LateStays
        BY <3>2 DEF LateStays, Late
      <3>. QED BY <1>1, <3>3, ForgetsCopy DEF FindSent, EndJob
    <2>3. CASE r \notin Rma
      BY <1>1, <2>3, ForgetsCopy DEF FindSent, EndJob, LateStays
    <2>. QED BY <2>2, <2>3
  <1>2. CASE FindUncertain(w) \/ \E broken, retryable \in BOOLEAN : Block(w, broken, retryable)
    <2>1. OpenTask(tasks, ticket.status) /\ worker' = [worker EXCEPT ![w] = Idle]
      BY <1>2 DEF FindUncertain, Block, EndJob
    <2>. QED BY <1>t, <2>1, OpenTaskStatus, ForgetsCopy DEF DeskStatus
  <1>3. CASE Freeze(w)
    <2>. DEFINE session == [worker[w] EXCEPT !.pc = "frozen", !.outbox = outbox[r],
                              !.status = ticket.status, !.followups = ticket.followups]
    <2>1. worker' = [worker EXCEPT ![w] = session] /\ ticket' = ticket
      BY <1>3 DEF Freeze
    <2>2. session.status = ticket.status
      BY <1>t DEF Session
    <2>. HIDE DEF session
    <2>3. worker'[w].status = ticket.status
      BY <2>1, <2>2 DEF Base, TypeOK
    <2>. QED BY <2>1, <2>3 DEF CopyIsEarly, LateStays
  <1>4. CASE SkipSmtp(w)
    <2>. DEFINE session == [worker[w] EXCEPT !.pc = "answered", !.answer = "accepted"]
    <2>1. worker' = [worker EXCEPT ![w] = session] /\ ticket' = ticket /\ Loaded(w)
      BY <1>4 DEF SkipSmtp, Loaded
    <2>2. session.status = worker[w].status
      BY <1>t DEF Session
    <2>. HIDE DEF session
    <2>. QED BY <2>1, <2>2, GoesOnWithCopy DEF LateStays
  <1>5. CASE BeginSmtp(w)
    <2>. DEFINE session == [worker[w] EXCEPT !.pc = "calling"]
    <2>1. worker' = [worker EXCEPT ![w] = session] /\ ticket' = ticket /\ Loaded(w)
      BY <1>5, <1>t DEF BeginSmtp, Loaded, Session
    <2>2. session.status = worker[w].status
      BY <1>t DEF Session
    <2>. HIDE DEF session
    <2>. QED BY <2>1, <2>2, GoesOnWithCopy DEF LateStays
  <1>6. CASE \E answer \in Answers, taken \in BOOLEAN : Transmit(w, answer, taken)
    <2>1. PICK answer \in Answers, taken \in BOOLEAN : Transmit(w, answer, taken)
      BY <1>6
    <2>. DEFINE session == [worker[w] EXCEPT !.pc = "answered", !.answer = answer]
    <2>2. worker' = [worker EXCEPT ![w] = session] /\ ticket' = ticket /\ Loaded(w)
      BY <2>1 DEF Transmit, Loaded
    <2>3. session.status = worker[w].status
      BY <1>t DEF Session
    <2>. HIDE DEF session
    <2>. QED BY <2>2, <2>3, GoesOnWithCopy DEF LateStays
  <1>7. CASE RecordFollowup(w)
    <2>1. Loaded(w) /\ worker' = [worker EXCEPT ![w] = Idle]
      BY <1>7 DEF RecordFollowup, Loaded, EndJob
    <2>2. worker[w].status = "need_customer_info" \/ ticket'.status = ticket.status
      BY <1>7, <1>t DEF RecordFollowup, TicketRow
    <2>. QED BY <1>e, <2>1, <2>2, ForgetsCopy DEF LateStays, Late
  <1>8. CASE RecordRma(w)
    <2>. DEFINE ready == worker[w].status = "ready_for_export"
                session == [worker[w] EXCEPT !.pc = "recorded",
                              !.status = IF ready THEN "rma_sent" ELSE @]
    <2>1. /\ Loaded(w) /\ worker' = [worker EXCEPT ![w] = session]
          /\ ticket' = IF ready THEN [ticket EXCEPT !.status = "rma_sent"] ELSE ticket
      BY <1>8 DEF RecordRma, Loaded
    <2>2. session.status = IF ready THEN "rma_sent" ELSE worker[w].status
      BY <1>t DEF Session
    <2>. HIDE DEF session
    <2>3. worker'[w] = session
      BY <2>1 DEF Base, TypeOK
    <2>4. CASE ready
      BY <1>e, <2>1, <2>2, <2>3, <2>4 DEF CopyIsEarly, LateStays, Late
    <2>5. CASE ~ready
      BY <2>1, <2>2, <2>5, GoesOnWithCopy DEF LateStays
    <2>. QED BY <2>4, <2>5
  <1>9. CASE Finalize(w)
    <2>1. /\ Loaded(w) /\ r \in Rma /\ reply[r].send # "absent" /\ mail[r].taken > 0
          /\ reply[r].filed /\ worker' = [worker EXCEPT ![w] = Idle]
      BY <1>9, RecordedIsFiled DEF Finalize, Loaded, EndJob
    <2>2. \/ ticket'.status = ticket.status
          \/ ticket'.status = "closed"
          \/ ticket'.status = "manual_review" /\ worker[w].status \notin Late
      BY <1>9, <1>s, <2>1, FinalizeIssueMoves DEF Finalize
    <2>. QED BY <1>e, <2>1, <2>2, ForgetsCopy DEF LateStays
  <1>10. CASE \E retryable \in BOOLEAN : RecordFailure(w, retryable)
    <2>1. /\ Loaded(w) /\ OpenTask(tasks, worker[w].status)
          /\ worker' = [worker EXCEPT ![w] = Idle]
      BY <1>10 DEF RecordFailure, Loaded, EndJob
    <2>2. \/ ticket'.status = ticket.status
          \/ ticket'.status = "manual_review" /\ worker[w].status \notin Late
      BY <1>s, <1>t, <2>1, OpenTaskMoves
    <2>. QED BY <1>e, <2>1, <2>2, ForgetsCopy DEF LateStays
  <1>11. CASE Crash(w) \/ \E retryable \in BOOLEAN : Raise(w, retryable)
    BY <1>11, ForgetsCopy DEF Crash, Raise, EndJob, LateStays
  <1>. QED BY <1>1, <1>2, <1>3, <1>4, <1>5, <1>6, <1>7, <1>8, <1>9, <1>10, <1>11
       DEF Progress, Answer

LEMMA ClaimStatus ==
    ASSUME Base, NEW w, Workers = {w}, NEW r \in Replies, Claim(w, r)
    PROVE  CopyIsEarly' /\ LateStays
  <1>1. worker'[w].pc = "claimed" /\ ticket' = ticket
    BY DEF Claim, Base, TypeOK, Session
  <1>. QED BY <1>1 DEF CopyIsEarly, Loaded, LateStays

LEMMA NextStatus ==
    ASSUME Base, CopyIsEarly, NEW w, Workers = {w}, [Next]_vars
    PROVE  CopyIsEarly' /\ LateStays
  <1>1. CASE \E r \in Replies : Operator(r)
    <2>1. worker' = worker
      BY <1>1 DEF Operator, DraftForReview, DraftAndSend, AutoApprove, Approve, ApproveUncertain,
         ApproveBlocked, EnqueueSend, ApprovalLost, RejectRead, RejectWrite, RetryArchive,
         RetrySend, ReuseSent, Bounce, ReconcileSent, ReconcileFailed
    <2>. QED BY <1>1, <2>1, OperatorStatus, DeskKeepsCopy DEF DeskStatus
  <1>2. CASE \/ TicketMoves \/ IssueRefused \/ ReleasePolicy \/ Recount
             \/ \E r \in Replies : Recover(r)
             \/ \E type \in TaskType : ResolveTask(type)
             \/ UNCHANGED vars
    <2>1. worker' = worker
      BY <1>2 DEF TicketMoves, IssueRefused, ReleasePolicy, Recount, Recover, ResolveTask, vars
    <2>. QED BY <1>2, <2>1, ElsewhereStatus, DeskKeepsCopy DEF DeskStatus
  <1>3. CASE \E r \in Replies : Claim(w, r)
    BY <1>3, ClaimStatus
  <1>4. CASE Progress(w) \/ Crash(w)
    BY <1>4, WorkerStatus
  <1>. QED BY <1>1, <1>2, <1>3, <1>4 DEF Next

(* A ticket that is closed stays closed, whatever the worker that is sending *)
(* has in memory, as long as it is the only mail worker: a second one would  *)
(* reopen a ticket that another RMA reply closed while it was sending.       *)
THEOREM ClosedForGood ==
    ASSUME NEW w, Workers = {w}
    PROVE  Spec => ClosedIsFinal
  <1>1. Init => CopyIsEarly
    BY DEF Init, CopyIsEarly, Loaded, Idle
  <1>2. Base /\ CopyIsEarly /\ [Next]_vars => CopyIsEarly'
    BY NextStatus
  <1>3. Base /\ CopyIsEarly /\ [Next]_vars
        => [ticket.status = "closed" => ticket'.status = "closed"]_vars
    BY NextStatus DEF LateStays
  <1>. QED BY <1>1, <1>2, <1>3, AlwaysBase, PTL DEF Spec, ClosedIsFinal
=============================================================================
