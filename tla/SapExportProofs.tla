--------------------------- MODULE SapExportProofs ---------------------------
(***************************************************************************)
(* Proofs about SapExport, for every number of items, exports, workers and *)
(* attempts: an item is requested once, what counts as accepted is in the  *)
(* remote table, and only a complete answer orders the mail.               *)
(***************************************************************************)
EXTENDS SapExport, FiniteSetTheorems, TLAPS

(* An export whose lines have their RequestIDs.                              *)
Asked(e) == export[e].status # "none" /\ export[e].id = 1

AllThere(e, rows) == \A i \in Items : <<<<e, i>>, 1>> \in rows

(* What a row of ticket_relay_exports is like, given the rows of RMA1.       *)
RowFits(x, e, rows) ==
    /\ x.line # AllLines("none") => x.id = 1
    /\ x.status = "submit_unknown" \/ x.error = "partial" => x.id = 1
    /\ x.status = "waiting_sap_result" => x.id = 1 /\ AllThere(e, rows)

(* What becomes of it in a step: it stays, and so do its RequestIDs.         *)
RowMoves(x, y) ==
    x.status # "none" => y.status # "none" /\ (x.id = 1 => y.id = 1)

ExportsFit == \A e \in Exports : RowFits(export[e], e, rma1)
OneId == rma1 \subseteq Lines \X {1}
SomeExport == \E e \in Exports : export[e].status # "none"
JobsAreOfExports == \A j \in jobs : export[j[1]].status # "none"
LateWasAsked == \A e \in late : Asked(e)

(* A worker's session, its remote transaction, and what that has done.       *)
SessionFits(s, i, x, rows) ==
    /\ s.phase # "idle" => x[s.job[1]].status # "none" /\ x[s.job[1]].id = 1
    /\ i # "none" => s.phase = "calling"
    /\ i = "committed" => AllThere(s.job[1], rows)
SessionsFit == \A w \in Workers : SessionFits(run[w], insert[w], export, rma1)

SInv ==
    /\ TypeOK
    /\ ExportsFit /\ OneId /\ SomeExport /\ JobsAreOfExports /\ LateWasAsked /\ SessionsFit
    /\ CompleteBeforeMail

-----------------------------------------------------------------------------
(* Numbers and finite sets *)

\* What holds of 0 and is handed on holds of all numbers up to N.
LEMMA Upward ==
    ASSUME NEW N \in Nat, NEW S, 0 \in S, \A n \in 1..N : n - 1 \in S => n \in S
    PROVE  \A n \in 0..N : n \in S
  <1> DEFINE Missed == (0..N) \ S
             Below(n) == {o \in Missed : o < n}
             T == {Below(n) : n \in Missed}
  <1>1. SUFFICES ASSUME Missed # {} PROVE FALSE
    OBVIOUS
  <1>2. IsFiniteSet(Missed)
    <2>1. IsFiniteSet(0..N)  BY FS_Interval
    <2> QED  BY <2>1, FS_Subset
  <1>3. IsWellFoundedOn(StrictSubsetOrdering(Missed), FiniteSubsetsOf(Missed))
    BY <1>2, FS_StrictSubsetOrderingWellFounded
  <1>4. T \subseteq FiniteSubsetsOf(Missed)
    BY <1>2, FS_FiniteSubsetsOfFinite
  <1>5. T # {}
    BY <1>1
  <1>6. \E x \in T : \A y \in T : ~ (<<y, x>> \in StrictSubsetOrdering(Missed))
    <2> HIDE DEF T
    <2> QED  BY <1>3, <1>4, <1>5, WFMin
  <1>7. PICK n \in Missed : \A o \in Missed : ~ (<<Below(o), Below(n)>> \in StrictSubsetOrdering(Missed))
    BY <1>6
  <1>8. n \in 1..N /\ n - 1 \in 0..N /\ n - 1 < n
    BY <1>7
  <1>9. n - 1 \in Missed
    BY <1>7, <1>8
  <1> DEFINE o == n - 1
  <1>10. o \in Missed /\ o < n /\ o \in Int /\ n \in Int
    BY <1>8, <1>9
  <1> HIDE DEF o
  <1>11. \A x \in Missed : x < o => x < n
    BY <1>10
  <1>12. Below(o) \subseteq Below(n)
    BY <1>11
  <1>13. o \in Below(n) /\ o \notin Below(o)
    BY <1>10
  <1> QED  BY <1>7, <1>10, <1>12, <1>13 DEF StrictSubsetOrdering

\* Some exports exist, so one of them was created last.
LEMMA LatestExists ==
    ASSUME SomeExport
    PROVE  /\ Latest \in Exports /\ export[Latest].status # "none"
           /\ \A d \in Exports : d > Latest => export[d].status = "none"
  <1> DEFINE Last(e, n) == /\ e \in Exports /\ e <= n /\ export[e].status # "none"
                           /\ \A d \in Exports : d > e /\ d <= n => export[d].status = "none"
             S == {n \in 0..MaxExports :
                     (\E e \in Exports : e <= n /\ export[e].status # "none") =>
                     \E e \in Exports : Last(e, n)}
  <1>1. MaxExports \in Nat /\ Exports = 1..MaxExports
    BY SapAssumption DEF Exports
  <1>2. 0 \in S
    BY <1>1
  <1>3. ASSUME NEW n \in 1..MaxExports, n - 1 \in S PROVE n \in S
    <2>1. n \in Exports /\ n \in 0..MaxExports
      BY <1>1
    <2>2. CASE export[n].status # "none"
      <3>1. Last(n, n)  BY <1>1, <2>1, <2>2
      <3> QED  BY <2>1, <3>1
    <2>3. CASE export[n].status = "none"
      <3>1. \A e \in Exports : e <= n /\ e # n => e <= n - 1
        BY <1>1
      <3>2. \A e \in Exports : Last(e, n - 1) => Last(e, n)
        BY <1>1, <2>3, <3>1
      <3> QED  BY <1>3, <2>1, <2>3, <3>1, <3>2
    <2> QED  BY <2>2, <2>3
  <1>4. MaxExports \in S
    <2> HIDE DEF S
    <2>1. \A n \in 0..MaxExports : n \in S  BY <1>1, <1>2, <1>3, Upward
    <2> QED  BY <1>1, <2>1
  <1>5. PICK e \in Exports : Last(e, MaxExports)
    BY <1>1, <1>4 DEF SomeExport
  <1>6. export[e].status # "none" /\ \A d \in Exports : d > e => export[d].status = "none"
    BY <1>1, <1>5
  <1> QED  BY <1>6 DEF Latest

\* What items are answered with is finite, so what counts as one is one.
LEMMA OneNumber ==
    ASSUME NEW f, NEW nos, \A no \in nos : \E i \in Items : no = f[i], Cardinality(nos) = 1
    PROVE  \E no : nos = {no}
  <1> DEFINE T == {f[i] : i \in Items}
             g == [i \in Items |-> f[i]]
  <1>1. IsFiniteSet(Items)
    BY SapAssumption, FS_Interval DEF Items
  <1>2. g \in Surjection(Items, T)
    BY DEF Surjection
  <1>3. IsFiniteSet(T)
    <2> HIDE DEF T, g
    <2> QED  BY <1>1, <1>2, FS_Surjection
  <1>4. IsFiniteSet(nos)
    <2>1. nos \in SUBSET T  OBVIOUS
    <2> QED  BY <1>3, <2>1, FS_Subset
  <1> QED  BY <1>4, FS_Singleton

-----------------------------------------------------------------------------
(* Rows *)

LEMMA LinesTyped ==
    ASSUME NEW status \in LineStatus
    PROVE  AllLines(status) \in [Items -> LineStatus]
  BY DEF AllLines

LEMMA StatusKinds ==
    /\ Accepted \subseteq LineStatus /\ Accepted \subseteq ExportStatus
    /\ {"none", "pending", "submitting", "submit_unknown", "submit_failed", "manual_review",
        "timed_out", "waiting_sap_result", "waiting_rma", "rma_received"} \subseteq LineStatus
    /\ {"none", "pending", "submitting", "submit_unknown", "submit_failed", "manual_review",
        "superseded", "waiting_sap_result", "waiting_rma", "rma_received"} \subseteq ExportStatus
  BY DEF Accepted, LineStatus, ExportStatus

LEMMA SubmissionRows ==
    ASSUME NEW x \in ExportRow
    PROVE  /\ EnsureLines(x) \in ExportRow
           /\ EnsureLines(x).status = x.status /\ EnsureLines(x).error = x.error
           /\ (x.line # AllLines("none") => x.id = 1) => EnsureLines(x).id = 1
           /\ Unknown(x) \in ExportRow /\ Unknown(x).status = "submit_unknown"
           /\ Unknown(x).error = "none" /\ Unknown(x).id = x.id
           /\ Waiting(x) \in ExportRow /\ Waiting(x).status = "waiting_sap_result"
           /\ Waiting(x).error = "none" /\ Waiting(x).id = x.id
  <1>1. /\ AllLines("pending") \in [Items -> LineStatus]
        /\ AllLines("submit_unknown") \in [Items -> LineStatus]
        /\ AllLines("waiting_sap_result") \in [Items -> LineStatus]
    BY LinesTyped, StatusKinds
  <1>2. {"submit_unknown", "waiting_sap_result"} \subseteq ExportStatus
    BY StatusKinds
  <1> QED  BY <1>1, <1>2 DEF ExportRow, EnsureLines, Unknown, Waiting

LEMMA TicketMoved ==
    ASSUME NEW t \in TicketRow
    PROVE  MovedToManual(t) \in TicketRow
  <1> DEFINE v == IF t.status = "manual_review" THEN t.version ELSE t.version + 1
  <1>1. v \in Nat  BY DEF TicketRow
  <1>2. MovedToManual(t) = [t EXCEPT !.rma = "manual_review", !.status = "manual_review",
                                     !.version = v]
    BY DEF MovedToManual
  <1> HIDE DEF v
  <1> QED  BY <1>1, <1>2 DEF TicketRow

(* A row is replaced, and what held of every row still holds.                *)
LEMMA RowReplaced ==
    ASSUME NEW x, NEW z \in [Exports -> ExportRow],
           NEW e \in Exports, NEW y \in ExportRow, NEW rows, NEW more, rows \subseteq more,
           \A d \in Exports : RowMoves(x[d], z[d]) /\ RowFits(z[d], d, rows),
           RowMoves(z[e], y), RowFits(y, e, more)
    PROVE  /\ [z EXCEPT ![e] = y] \in [Exports -> ExportRow]
           /\ \A d \in Exports : /\ RowMoves(x[d], [z EXCEPT ![e] = y][d])
                                 /\ RowFits([z EXCEPT ![e] = y][d], d, more)
  <1>1. \A d \in Exports : RowFits(z[d], d, more)
    BY DEF RowFits, AllThere
  <1>2. RowMoves(x[e], y)
    BY DEF RowMoves
  <1> QED  BY <1>1, <1>2

LEMMA RowsStay == \A x : RowMoves(x, x)
  BY DEF RowMoves

-----------------------------------------------------------------------------
(* The poll *)

PollRows == [ticket : TicketRow, x : [Exports -> ExportRow], numbers : SUBSET RmaNos,
             mails : SUBSET MailJob, ok : BOOLEAN]

(* What a poll has made of the local rows so far.                            *)
PollFits(s) ==
    /\ s \in PollRows
    /\ \A e \in Exports : RowMoves(export[e], s.x[e]) /\ RowFits(s.x[e], e, rma1)
    /\ \A m \in s.mails : \A i \in Items : rma2[<<m.export, i>>] = m.rma

LEMMA RowsFit ==
    ASSUME SInv
    PROVE  PollFits(Rows)
  <1>1. Rows \in PollRows /\ Rows.x = export /\ Rows.mails = mails
    BY DEF SInv, TypeOK, Rows, PollRows
  <1> QED  BY <1>1, RowsStay DEF SInv, PollFits, ExportsFit, CompleteBeforeMail

(* A poll writes one export, and the ticket.                                 *)
LEMMA PollWrites ==
    ASSUME NEW s, PollFits(s), NEW t \in PollRows, NEW e \in Exports, NEW y \in ExportRow,
           t.x = [s.x EXCEPT ![e] = y], RowMoves(s.x[e], y), RowFits(y, e, rma1),
           \A m \in t.mails \ s.mails : \A i \in Items : rma2[<<m.export, i>>] = m.rma
    PROVE  PollFits(t)
  <1>1. s.x \in [Exports -> ExportRow]
    BY DEF PollFits, PollRows
  <1>2. \A d \in Exports : RowMoves(export[d], t.x[d]) /\ RowFits(t.x[d], d, rma1)
    BY <1>1, RowReplaced DEF PollFits
  <1> QED  BY <1>2 DEF PollFits

\* A row with RequestIDs whose answer is not awaited fits whatever RMA1 holds.
LEMMA NumberedFits ==
    ASSUME NEW x, NEW y, NEW e, NEW rows,
           y.id = 1, y.status # "none", y.status # "waiting_sap_result"
    PROVE  RowMoves(x, y) /\ RowFits(y, e, rows)
  BY DEF RowMoves, RowFits

LEMMA ToManualFits ==
    ASSUME NEW s, PollFits(s), NEW e \in Exports, NEW y \in ExportRow,
           y.id = 1, y.status = "manual_review"
    PROVE  PollFits(ToManual(s, e, y))
  <1> DEFINE t == ToManual(s, e, y)
  <1>1. s \in PollRows  BY DEF PollFits
  <1>2. MovedToManual(s.ticket) \in TicketRow  BY <1>1, TicketMoved DEF PollRows
  <1>3. (s.ok /\ Movable(s.ticket)) \in BOOLEAN  OBVIOUS
  <1>4. /\ t \in PollRows /\ t.x = [s.x EXCEPT ![e] = y] /\ t.mails = s.mails
    BY <1>1, <1>2, <1>3 DEF ToManual, PollRows
  <1>5. RowMoves(s.x[e], y) /\ RowFits(y, e, rma1)  BY NumberedFits
  <1> HIDE DEF t
  <1>6. PollFits(t)  BY <1>4, <1>5, PollWrites
  <1> QED  BY <1>6 DEF t

LEMMA WaitsFit ==
    ASSUME NEW s, PollFits(s), NEW e \in Exports, NEW x \in ExportRow, x.id = 1,
           NEW confirmed \in BOOLEAN
    PROVE  PollFits(Waits(s, e, x, confirmed))
  <1>1. s \in PollRows  BY DEF PollFits
  <1>2. CASE x.overdue /\ ~confirmed
    <2> DEFINE line == [i \in Items |-> IF x.line[i] = "waiting_rma" THEN "timed_out"
                                        ELSE x.line[i]]
               y == [x EXCEPT !.status = "manual_review", !.error = "timeout", !.line = line]
               t == ToManual(s, e, y)
               u == [t EXCEPT !.ticket.task = TRUE]
    <2>1. line \in [Items -> LineStatus]  BY StatusKinds DEF ExportRow
    <2> HIDE DEF line
    <2>2. y \in ExportRow /\ y.id = 1 /\ y.status = "manual_review"
      BY <2>1, StatusKinds DEF ExportRow
    <2> HIDE DEF y
    <2>3. PollFits(t)  BY <2>2, ToManualFits
    <2> HIDE DEF t
    <2>4. u \in PollRows /\ u.x = t.x /\ u.mails = t.mails
      BY <2>3 DEF PollFits, PollRows, TicketRow
    <2> HIDE DEF u
    <2>5. PollFits(u)  BY <2>3, <2>4 DEF PollFits
    <2>6. Waits(s, e, x, confirmed) = u  BY <1>2 DEF Waits, u, t, y, line
    <2> QED  BY <2>5, <2>6
  <1>3. CASE ~(x.overdue /\ ~confirmed)
    <2> DEFINE y == [x EXCEPT !.status = "waiting_rma"]
               t == [s EXCEPT !.x[e] = y]
    <2>1. y \in ExportRow /\ y.id = 1 /\ y.status = "waiting_rma"
      BY StatusKinds DEF ExportRow
    <2> HIDE DEF y
    <2>2. t \in PollRows /\ t.x = [s.x EXCEPT ![e] = y] /\ t.mails = s.mails
      BY <1>1, <2>1 DEF PollRows
    <2>3. RowMoves(s.x[e], y) /\ RowFits(y, e, rma1)  BY <2>1, NumberedFits
    <2> HIDE DEF t
    <2>4. PollFits(t)  BY <2>1, <2>2, <2>3, PollWrites
    <2>5. Waits(s, e, x, confirmed) = t  BY <1>3 DEF Waits, t, y
    <2> QED  BY <2>4, <2>5
  <1> QED  BY <1>2, <1>3

\* Every item has an answer in the right form.
LEMMA CompletesFits ==
    ASSUME TypeOK, NEW s, PollFits(s), NEW e \in Exports, NEW x \in ExportRow, x.id = 1,
           Bad(e) = {}, Missing(e) = {}, NEW problem, NEW confirmed \in BOOLEAN
    PROVE  PollFits(Completes(s, e, x, problem, confirmed))
  <1> DEFINE nos == {rma2[<<e, i>>] : i \in Items} \ {NoRma}
             late0 == confirmed /\ s.ticket.status = "manual_review"
             tk == IF late0
                   THEN [s.ticket EXCEPT !.task = FALSE, !.status = "ready_for_export",
                                         !.version = s.ticket.version + 1, !.rma = "received"]
                   ELSE [s.ticket EXCEPT !.rma = "received"]
             done == [x EXCEPT !.status = "rma_received", !.error = "none"]
             new == {[export |-> e, version |-> tk.version, rma |-> no] : no \in nos}
             all == [s EXCEPT !.x[e] = done, !.ticket = tk, !.numbers = s.numbers \cup nos,
                              !.mails = s.mails \cup new,
                              !.ok = s.ok /\ (late0 => s.ticket.task)]
             lines == [x EXCEPT !.status = "manual_review", !.line = AllLines("manual_review")]
             held == [x EXCEPT !.status = "manual_review"]
  <1>1. s \in PollRows  BY DEF PollFits
  <1>2. /\ lines \in ExportRow /\ lines.id = 1 /\ lines.status = "manual_review"
        /\ held \in ExportRow /\ held.id = 1 /\ held.status = "manual_review"
        /\ done \in ExportRow /\ done.id = 1 /\ done.status = "rma_received"
    BY LinesTyped, StatusKinds DEF ExportRow
  <1>3. tk \in TicketRow
    <2>1. s.ticket \in TicketRow  BY <1>1 DEF PollRows
    <2>2. s.ticket.version + 1 \in Nat  BY <2>1 DEF TicketRow
    <2> QED  BY <2>1, <2>2 DEF TicketRow
  <1>4. \A i \in Items : rma2[<<e, i>>] \in RmaNos /\ rma2[<<e, i>>] # NoRma
    <2>1. \A i \in Items : <<e, i>> \in Lines  BY DEF Lines
    <2> QED  BY <2>1 DEF TypeOK, Bad, Missing
  <1>5. nos \subseteq RmaNos /\ \A i \in Items : rma2[<<e, i>>] \in nos
    BY <1>4
  <1>6. new \subseteq MailJob
    <2> HIDE DEF nos, tk
    <2>1. tk.version \in Nat  BY <1>3 DEF TicketRow
    <2> QED  BY <1>5, <2>1 DEF MailJob
  <1>7. CASE problem = "identity"
    <2>1. Completes(s, e, x, problem, confirmed) = ToManual(s, e, lines)
      BY <1>7 DEF Completes
    <2> HIDE DEF lines
    <2> QED  BY <1>2, <2>1, ToManualFits
  <1>8. CASE problem # "identity" /\ (Cardinality(nos) # 1 \/ problem = "route")
    <2>1. Completes(s, e, x, problem, confirmed) = ToManual(s, e, held)
      BY <1>8 DEF Completes
    <2> HIDE DEF held
    <2> QED  BY <1>2, <2>1, ToManualFits
  <1>9. CASE problem # "identity" /\ Cardinality(nos) = 1 /\ problem # "route"
    <2>1. Completes(s, e, x, problem, confirmed) = all
      BY <1>9 DEF Completes
    <2>2. PICK no : nos = {no}
      <3> DEFINE f == [i \in Items |-> rma2[<<e, i>>]]
      <3>1. \A a \in nos : \E i \in Items : a = f[i]  OBVIOUS
      <3> HIDE DEF nos, f
      <3> QED  BY <1>9, <3>1, OneNumber
    <2>3. \A i \in Items : rma2[<<e, i>>] = no
      <3> HIDE DEF nos
      <3> QED  BY <1>5, <2>2
    <2>4. \A m \in new : \A i \in Items : rma2[<<m.export, i>>] = m.rma
      <3> HIDE DEF nos
      <3> QED  BY <2>2, <2>3
    <2> HIDE DEF nos, tk, done, new
    <2>5. (s.ok /\ (late0 => s.ticket.task)) \in BOOLEAN  OBVIOUS
    <2> HIDE DEF late0
    <2>6. all \in PollRows /\ all.x = [s.x EXCEPT ![e] = done] /\ all.mails = s.mails \cup new
      BY <1>1, <1>2, <1>3, <1>5, <1>6, <2>5 DEF PollRows
    <2> HIDE DEF all
    <2>7. RowMoves(s.x[e], done) /\ RowFits(done, e, rma1)
      BY <1>2, NumberedFits
    <2>8. PollFits(all)  BY <1>2, <2>4, <2>6, <2>7, PollWrites
    <2> QED  BY <2>1, <2>8
  <1> QED  BY <1>7, <1>8, <1>9

LEMMA ReadsBadFits ==
    ASSUME NEW s, PollFits(s), NEW e \in Exports, NEW x \in ExportRow, x.id = 1
    PROVE  PollFits(ReadsBad(s, e, x))
  <1> DEFINE b == CHOOSE i \in Bad(e) : \A k \in Bad(e) : i <= k
             line == [i \in Items |-> IF i < b THEN LinesRead(e, x)[i]
                                      ELSE IF i = b THEN "manual_review" ELSE x.line[i]]
             y == [x EXCEPT !.status = "manual_review", !.line = line]
  <1> HIDE DEF b
  <1>1. line \in [Items -> LineStatus]
    BY StatusKinds DEF ExportRow, LinesRead
  <1>2. ReadsBad(s, e, x) = ToManual(s, e, y)
    BY DEF ReadsBad, b
  <1> HIDE DEF line
  <1>3. y \in ExportRow /\ y.id = 1 /\ y.status = "manual_review"
    BY <1>1, StatusKinds DEF ExportRow
  <1> HIDE DEF y
  <1> QED  BY <1>2, <1>3, ToManualFits

(* One export is polled: whatever SAP has answered and the ticket is like.   *)
LEMMA PolledFits ==
    ASSUME TypeOK, NEW s, PollFits(s), NEW e \in Exports, NEW problem,
           NEW confirmed \in BOOLEAN
    PROVE  PollFits(Polled(s, e, problem, confirmed))
  <1> DEFINE x == s.x[e]
             y == [x EXCEPT !.line = LinesRead(e, x)]
  <1>1. s \in PollRows /\ x \in ExportRow /\ RowFits(x, e, rma1)
    BY DEF PollFits, PollRows
  <1>2. CASE x.line = AllLines("none")
    <2> DEFINE z == [x EXCEPT !.status = "submit_failed"]
               t == [s EXCEPT !.x[e] = z]
    <2>1. /\ z \in ExportRow /\ z.status = "submit_failed" /\ z.line = x.line
          /\ z.id = x.id /\ z.error = x.error
      BY <1>1, StatusKinds DEF ExportRow
    <2>2. Polled(s, e, problem, confirmed) = t
      BY <1>2 DEF Polled
    <2> HIDE DEF z
    <2>3. RowMoves(x, z) /\ RowFits(z, e, rma1)
      BY <1>1, <2>1 DEF RowMoves, RowFits
    <2>4. t \in PollRows /\ t.x = [s.x EXCEPT ![e] = z] /\ t.mails = s.mails
      BY <1>1, <2>1 DEF PollRows
    <2> HIDE DEF t
    <2>5. PollFits(t)  BY <2>1, <2>3, <2>4, PollWrites
    <2> QED  BY <2>2, <2>5
  <1>3. CASE x.line # AllLines("none")
    <2>1. x.id = 1  BY <1>1, <1>3 DEF RowFits
    <2>2. LinesRead(e, x) \in [Items -> LineStatus]
      BY StatusKinds DEF LinesRead
    <2>3. y \in ExportRow /\ y.id = 1
      BY <1>1, <2>1, <2>2 DEF ExportRow
    <2>4. CASE Bad(e) # {}
      <3>1. Polled(s, e, problem, confirmed) = ReadsBad(s, e, x)
        BY <1>3, <2>4 DEF Polled
      <3> QED  BY <1>1, <2>1, <3>1, ReadsBadFits
    <2>5. CASE Bad(e) = {} /\ Missing(e) # {}
      <3>1. Polled(s, e, problem, confirmed) = Waits(s, e, y, confirmed)
        BY <1>3, <2>5 DEF Polled
      <3> HIDE DEF y
      <3> QED  BY <2>3, <3>1, WaitsFit
    <2>6. CASE Bad(e) = {} /\ Missing(e) = {}
      <3>1. Polled(s, e, problem, confirmed) = Completes(s, e, y, problem, confirmed)
        BY <1>3, <2>6 DEF Polled
      <3> HIDE DEF y
      <3> QED  BY <2>3, <2>6, <3>1, CompletesFits
    <2> QED  BY <2>4, <2>5, <2>6
  <1> QED  BY <1>2, <1>3

(* The exports that wait are polled one after the other.                     *)
LEMMA AllPolledFits ==
    ASSUME SInv, NEW due, NEW problem
    PROVE  PollFits(AllPolled(due, problem))
  <1> DEFINE Then(s, n) == IF n = 0 THEN Rows
                           ELSE IF n \in due THEN Polled(s, n, problem, FALSE) ELSE s
             Run(f, k) == f = [n \in 0..k |-> Then(f[n - 1], n)]
             after == CHOOSE f : Run(f, MaxExports)
  <1>1. MaxExports \in Nat /\ Exports = 1..MaxExports
    BY SapAssumption DEF Exports
  <1>2. AllPolled(due, problem) = after[MaxExports]
    BY DEF AllPolled
  <1>3. \A s, n : n # 0 => Then(s, n) = s \/ Then(s, n) = Polled(s, n, problem, FALSE)
    OBVIOUS
  <1>4. \A s : Then(s, 0) = Rows
    OBVIOUS
  <1> HIDE DEF Then
  <1>5. \E f : Run(f, MaxExports)
    <2> DEFINE S == {k \in 0..MaxExports : \E f : Run(f, k)}
    <2>1. 0 \in S
      <3> DEFINE f == [n \in 0..0 |-> Rows]
      <3>1. \A n \in 0..0 : n = 0  BY <1>1
      <3>2. [n \in 0..0 |-> Then(f[n - 1], n)] = f  BY <1>4, <3>1
      <3>3. Run(f, 0)  BY <3>2
      <3> HIDE DEF f
      <3> QED  BY <1>1, <3>3
    <2>2. ASSUME NEW k \in 1..MaxExports, k - 1 \in S PROVE k \in S
      <3>1. PICK f : Run(f, k - 1)  BY <2>2
      <3> DEFINE g == [n \in 0..k |-> IF n = k THEN Then(f[k - 1], k) ELSE f[n]]
      <3>2. ASSUME NEW n \in 0..k PROVE g[n] = Then(g[n - 1], n)
        <4>1. CASE n = k
          <5>1. k - 1 \in 0..k /\ k - 1 # k  BY <1>1
          <5>2. g[k - 1] = f[k - 1]  BY <5>1
          <5> QED  BY <4>1, <5>2
        <4>2. CASE n = 0
          <5>1. 0 \in 0..(k - 1) /\ n # k  BY <1>1, <4>2
          <5>2. f[0] = Then(f[0 - 1], 0)  BY <3>1, <5>1
          <5> QED  BY <1>4, <4>2, <5>1, <5>2
        <4>3. CASE n # k /\ n # 0
          <5>1. n \in 0..(k - 1) /\ n - 1 \in 0..k /\ n - 1 # k  BY <1>1, <4>3
          <5>2. f[n] = Then(f[n - 1], n)  BY <3>1, <5>1
          <5>3. g[n] = f[n] /\ g[n - 1] = f[n - 1]  BY <4>3, <5>1
          <5> QED  BY <5>2, <5>3
        <4> QED  BY <4>1, <4>2, <4>3
      <3>3. g = [n \in 0..k |-> g[n]]  OBVIOUS
      <3> HIDE DEF g
      <3>4. Run(g, k)  BY <3>2, <3>3
      <3>5. k \in 0..MaxExports  BY <1>1
      <3> QED  BY <3>4, <3>5
    <2> HIDE DEF S
    <2>3. \A k \in 0..MaxExports : k \in S  BY <1>1, <2>1, <2>2, Upward
    <2>4. MaxExports \in S  BY <1>1, <2>3
    <2> QED  BY <2>4 DEF S
  <1>6. Run(after, MaxExports)
    BY <1>5
  <1> HIDE DEF after
  <1>7. \A n \in 0..MaxExports : after[n] = Then(after[n - 1], n)
    BY <1>6
  <1> DEFINE S == {n \in 0..MaxExports : PollFits(after[n])}
  <1>8. 0 \in S
    BY <1>1, <1>4, <1>7, RowsFit
  <1>9. ASSUME NEW n \in 1..MaxExports, n - 1 \in S PROVE n \in S
    <2>1. n \in Exports /\ n \in 0..MaxExports /\ n # 0  BY <1>1
    <2>2. PollFits(after[n - 1])  BY <1>9
    <2>3. PollFits(Polled(after[n - 1], n, problem, FALSE))
      BY <2>1, <2>2, PolledFits DEF SInv
    <2>4. PollFits(after[n])  BY <1>3, <1>7, <2>1, <2>2, <2>3
    <2> QED  BY <2>1, <2>4
  <1> HIDE DEF S
  <1>10. \A n \in 0..MaxExports : n \in S  BY <1>1, <1>8, <1>9, Upward
  <1>11. MaxExports \in S  BY <1>1, <1>10
  <1> QED  BY <1>2, <1>11 DEF S

-----------------------------------------------------------------------------
(* What any step does *)

ExportsMove ==
    /\ export' \in [Exports -> ExportRow]
    /\ \A e \in Exports : RowMoves(export[e], export'[e]) /\ RowFits(export'[e], e, rma1')
RemoteGrows == rma1 \subseteq rma1' /\ rma1' \subseteq Lines \X {1}
TicketMoves == ticket' \in TicketRow /\ numbers' \subseteq RmaNos /\ other' \in BOOLEAN
Orders ==
    /\ keys' \subseteq Keys /\ checks' \subseteq Exports /\ jobs' \subseteq Keys
    /\ \A j \in jobs' \ jobs : export'[j[1]].status # "none"
LeavesLate ==
    late' \subseteq Exports /\ \A e \in late' \ late : Asked(e)'
SessionsMove ==
    /\ run' \in [Workers -> Session]
    /\ insert' \in [Workers -> {"none", "open", "committed", "refused"}]
    /\ \A w \in Workers : \/ run'[w] = run[w] /\ insert'[w] = insert[w]
                          \/ SessionFits(run'[w], insert'[w], export', rma1')
Answers ==
    /\ rma2' \in [Lines -> RmaNos \cup {NoRma, BadRma}]
    /\ \A l \in Lines : rma2[l] # NoRma => rma2'[l] = rma2[l]
MailsAreComplete ==
    /\ mails' \subseteq MailJob
    /\ \A m \in mails' \ mails : \A i \in Items : rma2'[<<m.export, i>>] = m.rma

Step ==
    /\ ExportsMove /\ RemoteGrows /\ TicketMoves /\ Orders /\ LeavesLate
    /\ SessionsMove /\ Answers /\ MailsAreComplete

LEMMA JobsExport ==
    ASSUME TypeOK
    PROVE  /\ \A w \in Workers : run[w] \in Session /\ run[w].job[1] \in Exports
           /\ \A j \in Keys : j[1] \in Exports
  <1>1. 1 \in Exports  BY SapAssumption DEF Exports
  <1>2. \A j \in Keys : j[1] \in Exports  BY DEF Keys
  <1>3. NoJob[1] = 1  BY DEF NoJob
  <1> QED  BY <1>1, <1>2, <1>3 DEF TypeOK, Session

LEMMA StepKeeps ==
    ASSUME SInv, Step
    PROVE  SInv'
  <1>1. /\ TypeOK /\ ExportsFit /\ OneId /\ SomeExport /\ JobsAreOfExports /\ LateWasAsked
        /\ SessionsFit /\ CompleteBeforeMail
    BY DEF SInv
  <1>2. /\ ExportsMove /\ RemoteGrows /\ TicketMoves /\ Orders /\ LeavesLate
        /\ SessionsMove /\ Answers /\ MailsAreComplete
    BY DEF Step
  <1>3. TypeOK'
    <2>1. rma1' \subseteq Lines \X Nat  BY <1>2 DEF RemoteGrows
    <2> QED  BY <1>2, <2>1 DEF TypeOK, ExportsMove, TicketMoves, Orders, LeavesLate,
                              SessionsMove, Answers, MailsAreComplete
  <1>4. ExportsFit' /\ OneId'
    BY <1>2 DEF ExportsFit, OneId, ExportsMove, RemoteGrows
  <1>5. SomeExport'
    BY <1>1, <1>2 DEF SomeExport, ExportsMove, RowMoves
  <1>6. JobsAreOfExports'
    <2>1. \A j \in jobs : j[1] \in Exports  BY <1>1, JobsExport DEF TypeOK
    <2> QED  BY <1>1, <1>2, <2>1 DEF JobsAreOfExports, Orders, ExportsMove, RowMoves
  <1>7. LateWasAsked'
    <2>1. \A e \in late : e \in Exports /\ Asked(e)  BY <1>1 DEF TypeOK, LateWasAsked
    <2>2. \A e \in late : Asked(e)'  BY <1>2, <2>1 DEF Asked, ExportsMove, RowMoves
    <2> QED  BY <1>2, <2>2 DEF LateWasAsked, LeavesLate
  <1>8. SessionsFit'
    <2> SUFFICES ASSUME NEW w \in Workers
                 PROVE  SessionFits(run'[w], insert'[w], export', rma1')
      BY DEF SessionsFit
    <2>1. SessionFits(run[w], insert[w], export, rma1) /\ run[w].job[1] \in Exports
      BY <1>1, JobsExport DEF SessionsFit
    <2>2. SessionFits(run[w], insert[w], export', rma1')
      BY <1>2, <2>1 DEF SessionFits, ExportsMove, RowMoves, RemoteGrows, AllThere
    <2> QED  BY <1>2, <2>2 DEF SessionsMove
  <1>9. CompleteBeforeMail'
    <2> SUFFICES ASSUME NEW m \in mails', NEW i \in Items
                 PROVE  rma2'[<<m.export, i>>] = m.rma
      BY DEF CompleteBeforeMail
    <2>1. CASE m \in mails
      <3>1. rma2[<<m.export, i>>] = m.rma /\ m \in MailJob
        BY <1>1, <2>1 DEF CompleteBeforeMail, TypeOK
      <3>2. m.rma # NoRma /\ <<m.export, i>> \in Lines
        BY <3>1, SapAssumption DEF MailJob, Lines
      <3> QED  BY <1>2, <3>1, <3>2 DEF Answers
    <2>2. CASE m \notin mails
      BY <1>2, <2>2 DEF MailsAreComplete
    <2> QED  BY <2>1, <2>2
  <1> QED  BY <1>3, <1>4, <1>5, <1>6, <1>7, <1>8, <1>9 DEF SInv

(* Parts of a step that leave something alone.                               *)
LEMMA Untouched ==
    ASSUME SInv
    PROVE  /\ rma1' = rma1 => RemoteGrows
           /\ rma1' = rma1 /\ export' = export => ExportsMove
           /\ UNCHANGED <<ticket, numbers, other>> => TicketMoves
           /\ UNCHANGED <<numbers, other>> /\ ticket' \in TicketRow => TicketMoves
           /\ UNCHANGED <<keys, checks>> /\ jobs' \subseteq jobs => Orders
           /\ late' \subseteq late => LeavesLate
           /\ UNCHANGED <<run, insert>> => SessionsMove
           /\ rma2' = rma2 => Answers
           /\ rma2' = rma2 /\ mails' \subseteq mails => MailsAreComplete
           /\ Answers /\ mails' = mails => MailsAreComplete
  <1>1. TypeOK /\ OneId /\ ExportsFit  BY DEF SInv
  <1>2. rma1' = rma1 => RemoteGrows  BY <1>1 DEF OneId, RemoteGrows
  <1>3. rma1' = rma1 /\ export' = export => ExportsMove
    BY <1>1, RowsStay DEF TypeOK, ExportsFit, ExportsMove
  <1>4. /\ UNCHANGED <<ticket, numbers, other>> => TicketMoves
        /\ UNCHANGED <<numbers, other>> /\ ticket' \in TicketRow => TicketMoves
    BY <1>1 DEF TypeOK, TicketMoves
  <1>5. UNCHANGED <<keys, checks>> /\ jobs' \subseteq jobs => Orders
    BY <1>1 DEF TypeOK, Orders
  <1>6. late' \subseteq late => LeavesLate
    BY <1>1 DEF TypeOK, LeavesLate
  <1>7. UNCHANGED <<run, insert>> => SessionsMove
    BY <1>1 DEF TypeOK, SessionsMove
  <1>8. rma2' = rma2 => Answers
    BY <1>1 DEF TypeOK, Answers
  <1>9. /\ rma2' = rma2 /\ mails' \subseteq mails => MailsAreComplete
        /\ Answers /\ mails' = mails => MailsAreComplete
    BY <1>1 DEF TypeOK, MailsAreComplete
  <1> QED  BY <1>2, <1>3, <1>4, <1>5, <1>6, <1>7, <1>8, <1>9

LEMMA OneRow ==
    ASSUME SInv, RemoteGrows, NEW e \in Exports, NEW y \in ExportRow,
           export' = [export EXCEPT ![e] = y], RowMoves(export[e], y), RowFits(y, e, rma1')
    PROVE  ExportsMove
  <1>1. export \in [Exports -> ExportRow] /\ ExportsFit  BY DEF SInv, TypeOK
  <1>2. \A d \in Exports : RowMoves(export[d], export[d]) /\ RowFits(export[d], d, rma1)
    BY <1>1, RowsStay DEF ExportsFit
  <1>3. rma1 \subseteq rma1'  BY DEF RemoteGrows
  <1> QED  BY <1>1, <1>2, <1>3, RowReplaced DEF ExportsMove

-----------------------------------------------------------------------------
(* The submission *)

LEMMA SupersedeSteps ==
    ASSUME SInv, NEW w \in Workers, NEW j \in jobs, Supersede(w, j)
    PROVE  Step
  <1> DEFINE e == j[1]
             y == [export[e] EXCEPT !.status = "superseded"]
  <1>1. e \in Exports /\ export[e] \in ExportRow /\ RowFits(export[e], e, rma1)
    BY JobsExport DEF SInv, TypeOK, ExportsFit
  <1>2. /\ export' = [export EXCEPT ![e] = y] /\ jobs' \subseteq jobs
        /\ UNCHANGED <<ticket, numbers, mails, keys, checks, run, insert, late, rma1, rma2, other>>
    BY DEF Supersede, remote
  <1>3. y \in ExportRow /\ RowMoves(export[e], y) /\ RowFits(y, e, rma1')
    BY <1>1, <1>2, StatusKinds DEF ExportRow, RowMoves, RowFits
  <1> HIDE DEF y, e
  <1>4. RemoteGrows /\ ExportsMove
    BY <1>1, <1>2, <1>3, Untouched, OneRow
  <1> QED  BY <1>2, <1>4, Untouched DEF Step

LEMMA UnusableSteps ==
    ASSUME SInv, NEW w \in Workers, NEW j \in jobs, Unusable(w, j)
    PROVE  Step
  <1> DEFINE e == j[1]
             y == [export[e] EXCEPT !.status = "manual_review"]
  <1>1. e \in Exports /\ export[e] \in ExportRow /\ RowFits(export[e], e, rma1)
    BY JobsExport DEF SInv, TypeOK, ExportsFit
  <1>2. /\ export' = [export EXCEPT ![e] = y] /\ jobs' \subseteq jobs
        /\ ticket' = MovedToManual(ticket)
        /\ UNCHANGED <<numbers, mails, keys, checks, run, insert, late, rma1, rma2, other>>
    BY DEF Unusable, remote
  <1>3. y \in ExportRow /\ RowMoves(export[e], y) /\ RowFits(y, e, rma1')
    BY <1>1, <1>2, StatusKinds DEF ExportRow, RowMoves, RowFits
  <1> HIDE DEF y, e
  <1>4. RemoteGrows /\ ExportsMove
    BY <1>1, <1>2, <1>3, Untouched, OneRow
  <1>5. ticket' \in TicketRow
    BY <1>2, TicketMoved DEF SInv, TypeOK
  <1> QED  BY <1>2, <1>4, <1>5, Untouched DEF Step

LEMMA AlreadyAcceptedSteps ==
    ASSUME SInv, NEW w \in Workers, NEW j \in jobs, AlreadyAccepted(w, j)
    PROVE  Step
  <1>1. /\ jobs' \subseteq jobs
        /\ UNCHANGED <<ticket, export, numbers, mails, keys, checks, run, insert, late,
                       rma1, rma2, other>>
    BY DEF AlreadyAccepted, remote
  <1> QED  BY <1>1, Untouched DEF Step

\* The lines are made, or those there are kept, with their RequestIDs.
LEMMA PrepareSteps ==
    ASSUME SInv, NEW w \in Workers, NEW j \in jobs, Prepare(w, j)
    PROVE  Step
  <1> DEFINE e == j[1]
             y == EnsureLines(export[e])
             row == [phase |-> "prepared", job |-> j, status |-> y.status,
                     attempts |-> y.attempts]
  <1>1. /\ e \in Exports /\ export[e] \in ExportRow /\ RowFits(export[e], e, rma1)
        /\ j \in Keys /\ export[e].status # "none" /\ insert[w] = "none"
        /\ run \in [Workers -> Session]
        /\ insert \in [Workers -> {"none", "open", "committed", "refused"}]
    <2>1. run[w].phase = "idle"  BY DEF Prepare, Claim
    <2> QED  BY <2>1, JobsExport DEF SInv, TypeOK, ExportsFit, JobsAreOfExports, SessionsFit,
                                    SessionFits
  <1>2. /\ export' = [export EXCEPT ![e] = y]
        /\ run' = [run EXCEPT ![w] = row]
        /\ UNCHANGED <<ticket, numbers, mails, jobs, keys, checks, insert, late, rma1, rma2, other>>
    BY DEF Prepare, remote
  <1>3. /\ y \in ExportRow /\ y.status = export[e].status /\ y.error = export[e].error /\ y.id = 1
    BY <1>1, SubmissionRows DEF RowFits
  <1> HIDE DEF y
  <1>4. RowMoves(export[e], y) /\ RowFits(y, e, rma1')
    BY <1>1, <1>2, <1>3 DEF RowMoves, RowFits
  <1>5. RemoteGrows /\ ExportsMove
    BY <1>1, <1>2, <1>3, <1>4, Untouched, OneRow
  <1>6. row \in Session /\ row.phase = "prepared" /\ row.job[1] = e
    BY <1>1, <1>3 DEF ExportRow, Session
  <1> HIDE DEF row, e
  <1>7. export'[e].status # "none" /\ export'[e].id = 1
    BY <1>1, <1>2, <1>3, <1>5 DEF ExportsMove, SInv, TypeOK
  <1>8. SessionsMove
    <2>1. SessionFits(run'[w], insert'[w], export', rma1')
      BY <1>1, <1>2, <1>6, <1>7 DEF SessionFits
    <2>2. \A v \in Workers \ {w} : run'[v] = run[v] /\ insert'[v] = insert[v]
      BY <1>1, <1>2
    <2>3. run' \in [Workers -> Session]  BY <1>1, <1>2, <1>6
    <2> QED  BY <1>1, <1>2, <2>1, <2>2, <2>3 DEF SessionsMove
  <1> QED  BY <1>2, <1>5, <1>8, Untouched DEF Step

\* What a worker that is at work has in its session.
LEMMA AtWork ==
    ASSUME SInv, NEW w \in Workers, run[w].phase # "idle"
    PROVE  /\ run[w] \in Session /\ run[w].job[1] \in Exports
           /\ Asked(run[w].job[1])
           /\ export[run[w].job[1]] \in ExportRow /\ RowFits(export[run[w].job[1]], run[w].job[1], rma1)
           /\ run \in [Workers -> Session]
           /\ insert \in [Workers -> {"none", "open", "committed", "refused"}]
  <1>1. run[w] \in Session /\ run[w].job[1] \in Exports
    BY JobsExport DEF SInv
  <1>2. SessionFits(run[w], insert[w], export, rma1)
    BY DEF SInv, SessionsFit
  <1> QED  BY <1>1, <1>2 DEF SInv, TypeOK, ExportsFit, SessionFits, Asked

LEMMA MarkSteps ==
    ASSUME SInv, NEW w \in Workers, Mark(w)
    PROVE  Step
  <1> DEFINE e == run[w].job[1]
             y == [export[e] EXCEPT !.status = "submitting", !.attempts = run[w].attempts + 1,
                                    !.line = AllLines("submitting")]
             row == [run[w] EXCEPT !.phase = "calling", !.attempts = run[w].attempts + 1]
  <1>1. /\ run[w] \in Session /\ e \in Exports /\ export[e] \in ExportRow
        /\ Asked(e) /\ RowFits(export[e], e, rma1) /\ run \in [Workers -> Session]
        /\ insert \in [Workers -> {"none", "open", "committed", "refused"}]
    BY AtWork DEF Mark
  <1>2. /\ export' = [export EXCEPT ![e] = y]
        /\ run' = [run EXCEPT ![w] = row]
        /\ insert' = [insert EXCEPT ![w] = "open"] /\ run[w].attempts < MaxAttempts
        /\ UNCHANGED <<ticket, numbers, mails, jobs, keys, checks, late, rma1, rma2, other>>
    <2>1. export \in [Exports -> ExportRow]  BY DEF SInv, TypeOK
    <2> QED  BY <1>1, <2>1 DEF Mark, remote
  <1>3. run[w].attempts + 1 \in 0..MaxAttempts
    BY <1>1, <1>2, SapAssumption DEF Session
  <1>4. y \in ExportRow /\ y.status = "submitting" /\ y.id = 1
    BY <1>1, <1>3, LinesTyped, StatusKinds DEF ExportRow, Asked
  <1>5. row \in Session /\ row.phase = "calling" /\ row.job[1] = e
    BY <1>1, <1>3 DEF Session
  <1> HIDE DEF y, row, e
  <1>6. RowMoves(export[e], y) /\ RowFits(y, e, rma1')
    BY <1>4, NumberedFits
  <1>7. RemoteGrows /\ ExportsMove
    BY <1>1, <1>2, <1>4, <1>6, Untouched, OneRow
  <1>8. export'[e].status # "none" /\ export'[e].id = 1
    BY <1>1, <1>2, <1>4 DEF SInv, TypeOK
  <1>9. SessionsMove
    <2>1. SessionFits(run'[w], insert'[w], export', rma1')
      BY <1>1, <1>2, <1>5, <1>8 DEF SessionFits
    <2>2. \A v \in Workers \ {w} : run'[v] = run[v] /\ insert'[v] = insert[v]
      BY <1>1, <1>2
    <2>3. run' \in [Workers -> Session]  BY <1>1, <1>2, <1>5
    <2>4. insert' \in [Workers -> {"none", "open", "committed", "refused"}]  BY <1>1, <1>2
    <2> QED  BY <2>1, <2>2, <2>3, <2>4 DEF SessionsMove
  <1> QED  BY <1>2, <1>7, <1>9, Untouched DEF Step

\* A worker lets go of its job and of its transaction.
LEMMA LettingGo ==
    ASSUME SInv, NEW w \in Workers, run' = [run EXCEPT ![w] = Idle],
           insert' = [insert EXCEPT ![w] = "none"]
    PROVE  SessionsMove
  <1>1. /\ run \in [Workers -> Session]
        /\ insert \in [Workers -> {"none", "open", "committed", "refused"}]
    BY DEF SInv, TypeOK
  <1>2. Idle \in Session /\ Idle.phase = "idle"
    <2>1. 0 \in 0..MaxAttempts  BY SapAssumption
    <2> QED  BY <2>1, StatusKinds DEF Idle, Session
  <1> HIDE DEF Idle
  <1>3. /\ run' \in [Workers -> Session]
        /\ insert' \in [Workers -> {"none", "open", "committed", "refused"}]
    BY <1>1, <1>2
  <1>4. SessionFits(run'[w], insert'[w], export', rma1')
    BY <1>1, <1>2 DEF SessionFits
  <1>5. \A v \in Workers \ {w} : run'[v] = run[v] /\ insert'[v] = insert[v]
    BY <1>1
  <1> QED  BY <1>3, <1>4, <1>5 DEF SessionsMove

\* What is waited for was committed: the remote transaction said so.
LEMMA AcceptSteps ==
    ASSUME SInv, NEW w \in Workers, Accept(w)
    PROVE  Step
  <1> DEFINE e == run[w].job[1]
             y == [export[e] EXCEPT !.status = "waiting_sap_result",
                                    !.line = AllLines("waiting_sap_result")]
  <1>1. /\ e \in Exports /\ export[e] \in ExportRow /\ Asked(e) /\ RowFits(export[e], e, rma1)
    BY AtWork DEF Accept
  <1>2. /\ export' = [export EXCEPT ![e] = y]
        /\ run' = [run EXCEPT ![w] = Idle] /\ insert' = [insert EXCEPT ![w] = "none"]
        /\ jobs' \subseteq jobs
        /\ UNCHANGED <<ticket, numbers, mails, keys, checks, late, rma1, rma2, other>>
    <2>1. export \in [Exports -> ExportRow]  BY DEF SInv, TypeOK
    <2> QED  BY <1>1, <2>1 DEF Accept, EndRun, remote
  <1>3. AllThere(e, rma1)
    <2>1. SessionFits(run[w], insert[w], export, rma1)  BY DEF SInv, SessionsFit
    <2> QED  BY <2>1 DEF SessionFits, Accept
  <1>4. y \in ExportRow /\ y.status = "waiting_sap_result" /\ y.id = 1
    BY <1>1, LinesTyped, StatusKinds DEF ExportRow, Asked
  <1> HIDE DEF y, e
  <1>5. RowMoves(export[e], y) /\ RowFits(y, e, rma1')
    BY <1>2, <1>3, <1>4 DEF RowMoves, RowFits
  <1>6. RemoteGrows /\ ExportsMove
    BY <1>1, <1>2, <1>4, <1>5, Untouched, OneRow
  <1> QED  BY <1>2, <1>6, LettingGo, Untouched DEF Step

LEMMA RefuseSteps ==
    ASSUME SInv, NEW w \in Workers, Refuse(w)
    PROVE  Step
  <1> DEFINE e == run[w].job[1]
             y == [export[e] EXCEPT !.status = "submit_failed", !.error = "none",
                                    !.line = AllLines("submit_failed")]
  <1>1. /\ e \in Exports /\ export[e] \in ExportRow /\ Asked(e)
    BY AtWork DEF Refuse
  <1>2. /\ export' = [export EXCEPT ![e] = y]
        /\ run' = [run EXCEPT ![w] = Idle] /\ insert' = [insert EXCEPT ![w] = "none"]
        /\ jobs' \subseteq jobs
        /\ UNCHANGED <<ticket, numbers, mails, keys, checks, late, rma1, rma2, other>>
    <2>1. export \in [Exports -> ExportRow]  BY DEF SInv, TypeOK
    <2> QED  BY <1>1, <2>1 DEF Refuse, EndRun, remote
  <1>3. y \in ExportRow /\ y.status = "submit_failed" /\ y.id = 1
    BY <1>1, LinesTyped, StatusKinds DEF ExportRow, Asked
  <1> HIDE DEF y, e
  <1>4. RowMoves(export[e], y) /\ RowFits(y, e, rma1')
    BY <1>3, NumberedFits
  <1>5. RemoteGrows /\ ExportsMove
    BY <1>1, <1>2, <1>3, <1>4, Untouched, OneRow
  <1> QED  BY <1>2, <1>5, LettingGo, Untouched DEF Step

LEMMA OrphanWasAsked ==
    ASSUME SInv, NEW w \in Workers, run[w].phase # "idle"
    PROVE  Orphaned(w) \subseteq Exports /\ \A e \in Orphaned(w) : Asked(e)
  BY AtWork DEF SInv, TypeOK, LateWasAsked, Orphaned

LEMMA CrashSteps ==
    ASSUME SInv, NEW w \in Workers, Crash(w)
    PROVE  Step
  <1>1. /\ run' = [run EXCEPT ![w] = Idle] /\ insert' = [insert EXCEPT ![w] = "none"]
        /\ late' = Orphaned(w)
        /\ UNCHANGED <<ticket, export, numbers, mails, jobs, keys, checks, rma1, rma2, other>>
    BY DEF Crash, remote
  <1>2. LeavesLate
    <2>1. Orphaned(w) \subseteq Exports /\ \A e \in Orphaned(w) : Asked(e)
      BY OrphanWasAsked DEF Crash
    <2> QED  BY <1>1, <2>1 DEF LeavesLate, Asked
  <1> QED  BY <1>1, <1>2, LettingGo, Untouched DEF Step

-----------------------------------------------------------------------------
(* The reconciliation *)

LEMMA ReconciledRow ==
    ASSUME NEW x \in ExportRow, x.id = 1, x.status # "none", x.status # "waiting_sap_result",
           NEW t \in TicketRow, NEW found, NEW r, r = Reconciled(x, t, found)
    PROVE  /\ r.export \in ExportRow /\ r.export.id = 1 /\ r.export.status # "none"
           /\ r.ticket \in TicketRow
           /\ r.export.status = "waiting_sap_result" => found = Items
  <1>1. /\ Waiting(x) \in ExportRow /\ Waiting(x).status = "waiting_sap_result"
        /\ Waiting(x).id = 1
    BY SubmissionRows
  <1> DEFINE part == [x EXCEPT !.status = "manual_review", !.error = "partial",
                               !.line = AllLines("manual_review")]
             again == [x EXCEPT !.status = "pending", !.error = "none", !.due = FALSE,
                                !.line = AllLines("pending")]
  <1>2. /\ part \in ExportRow /\ part.id = 1 /\ part.status = "manual_review"
        /\ again \in ExportRow /\ again.id = 1 /\ again.status = "pending"
    BY LinesTyped, StatusKinds DEF ExportRow
  <1>3. MovedToManual(t) \in TicketRow  BY TicketMoved
  <1>4. \/ found = Items /\ r.export = Waiting(x) /\ r.ticket = t
        \/ found # Items /\ r.export = part /\ r.ticket = MovedToManual(t)
        \/ found # Items /\ r.export = x /\ r.ticket = t
        \/ found # Items /\ r.export = again /\ r.ticket = t
    BY DEF Reconciled
  <1> HIDE DEF part, again
  <1> QED  BY <1>1, <1>2, <1>3, <1>4

(* What is found in RMA1 is there, and what a transaction leaves there too.  *)
LEMMA QueryGrows ==
    ASSUME SInv, NEW e \in Exports, Asked(e), NEW found, NEW late0, late0 \subseteq Exports,
           Query(e, found, late0)
    PROVE  /\ RemoteGrows /\ late' \subseteq late0
           /\ found = Items => AllThere(e, rma1')
  <1>1. RowsOf(e) = {<<<<e, i>>, 1>> : i \in Items}
    BY DEF RowsOf, Asked
  <1>2. RowsOf(e) \subseteq Lines \X {1}
    BY <1>1 DEF Lines
  <1>3. Found(e) = {i \in Items : <<<<e, i>>, 1>> \in rma1}
    BY DEF Found, Asked
  <1>4. OneId  BY DEF SInv
  <1>5. CASE found = Found(e) /\ late' = late0 /\ rma1' = rma1
    BY <1>3, <1>4, <1>5 DEF RemoteGrows, OneId, AllThere
  <1>6. CASE rma1' = rma1 \cup RowsOf(e) /\ late' = late0 \ {e}
    <2>1. RemoteGrows  BY <1>2, <1>4, <1>6 DEF RemoteGrows, OneId
    <2>2. AllThere(e, rma1')  BY <1>1, <1>6 DEF AllThere
    <2> QED  BY <1>6, <2>1, <2>2
  <1> QED  BY <1>5, <1>6 DEF Query

LEMMA ReconcileMoves ==
    ASSUME SInv, NEW e \in Exports, Asked(e), NEW x \in ExportRow, x.id = 1,
           x.status # "none", x.status # "waiting_sap_result", NEW found,
           NEW jobs0, jobs0 \subseteq jobs,
           NEW late0, late0 \subseteq Exports, \A d \in late0 : Asked(d),
           Reconcile(e, x, found, jobs0, late0)
    PROVE  /\ ExportsMove /\ RemoteGrows /\ ticket' \in TicketRow /\ LeavesLate
           /\ checks' \subseteq Exports => Orders
  <1> DEFINE r == Reconciled(x, ticket, found)
             key == <<e, "unknown", x.attempts>>
  <1>1. /\ Query(e, found, late0)
        /\ export' = [export EXCEPT ![e] = r.export] /\ ticket' = r.ticket
        /\ \/ keys' = keys \cup {key} /\ jobs' \subseteq jobs0 \cup {key}
           \/ jobs' = jobs0 /\ keys' = keys
    BY DEF Reconcile, Enqueue
  <1>2. TypeOK /\ export \in [Exports -> ExportRow]  BY DEF SInv, TypeOK
  <1>3. /\ r.export \in ExportRow /\ r.export.id = 1 /\ r.export.status # "none"
        /\ r.ticket \in TicketRow
        /\ r.export.status = "waiting_sap_result" => found = Items
    <2>1. ticket \in TicketRow  BY <1>2 DEF TypeOK
    <2> HIDE DEF r
    <2>2. r = Reconciled(x, ticket, found)  BY DEF r
    <2> QED  BY <2>1, <2>2, ReconciledRow
  <1> HIDE DEF r
  <1>4. /\ RemoteGrows /\ late' \subseteq late0
        /\ found = Items => AllThere(e, rma1')
    BY <1>1, QueryGrows
  <1>5. RowMoves(export[e], r.export) /\ RowFits(r.export, e, rma1')
    BY <1>3, <1>4 DEF RowMoves, RowFits
  <1>6. ExportsMove
    BY <1>1, <1>3, <1>4, <1>5, OneRow
  <1>7. LeavesLate
    <2>1. \A d \in late0 : Asked(d)'
      BY <1>6 DEF ExportsMove, RowMoves, Asked
    <2> QED  BY <1>4, <2>1 DEF LeavesLate
  <1>8. key \in Keys
    <2>1. x.attempts \in 0..MaxAttempts + 1  BY SapAssumption DEF ExportRow
    <2> QED  BY <2>1 DEF Keys
  <1>9. ASSUME checks' \subseteq Exports PROVE Orders
    <2>1. keys' \subseteq Keys /\ jobs' \subseteq Keys
      BY <1>1, <1>2, <1>8 DEF TypeOK
    <2>2. key[1] = e /\ export'[e].status # "none"
      BY <1>1, <1>2, <1>3
    <2> HIDE DEF key
    <2>3. \A j \in jobs' \ jobs : j = key
      BY <1>1
    <2> QED  BY <1>9, <2>1, <2>2, <2>3 DEF Orders
  <1> QED  BY <1>1, <1>3, <1>4, <1>6, <1>7, <1>9

LEMMA RecoverSteps ==
    ASSUME SInv, NEW w \in Workers, NEW found, Recover(w, found)
    PROVE  Step
  <1> DEFINE e == run[w].job[1]
             x == Unknown(export[e])
             jobs0 == jobs \ {run[w].job}
  <1>1. e \in Exports /\ Asked(e) /\ export[e] \in ExportRow
    BY AtWork DEF Recover
  <1>2. /\ Reconcile(e, x, found, jobs0, late)
        /\ run' = [run EXCEPT ![w] = Idle]
        /\ UNCHANGED <<numbers, mails, checks, insert, rma2, other>>
    BY DEF Recover
  <1>3. x \in ExportRow /\ x.id = 1 /\ x.status = "submit_unknown"
    BY <1>1, SubmissionRows DEF Asked
  <1>4. TypeOK /\ \A d \in late : Asked(d)  BY DEF SInv, LateWasAsked
  <1>5. jobs0 \subseteq jobs /\ late \subseteq Exports /\ checks' \subseteq Exports
    BY <1>2, <1>4 DEF TypeOK
  <1>6. insert' = [insert EXCEPT ![w] = "none"]
    <2>1. SessionFits(run[w], insert[w], export, rma1)  BY DEF SInv, SessionsFit
    <2>2. insert[w] = "none"  BY <2>1 DEF SessionFits, Recover
    <2>3. insert \in [Workers -> {"none", "open", "committed", "refused"}]
      BY <1>4 DEF TypeOK
    <2> QED  BY <1>2, <2>2, <2>3
  <1> HIDE DEF e, x, jobs0
  <1>7. ExportsMove /\ RemoteGrows /\ ticket' \in TicketRow /\ LeavesLate /\ Orders
    BY <1>1, <1>2, <1>3, <1>4, <1>5, ReconcileMoves
  <1> QED  BY <1>2, <1>6, <1>7, LettingGo, Untouched DEF Step

LEMMA LoseConnectionSteps ==
    ASSUME SInv, NEW w \in Workers, NEW found, LoseConnection(w, found)
    PROVE  Step
  <1> DEFINE e == run[w].job[1]
             x == Unknown(export[e])
             jobs0 == jobs \ {run[w].job}
  <1>1. e \in Exports /\ Asked(e) /\ export[e] \in ExportRow
    BY AtWork DEF LoseConnection
  <1>2. /\ Reconcile(e, x, found, jobs0, Orphaned(w))
        /\ run' = [run EXCEPT ![w] = Idle] /\ insert' = [insert EXCEPT ![w] = "none"]
        /\ checks' \subseteq checks \cup {e}
        /\ UNCHANGED <<numbers, mails, rma2, other>>
    BY DEF LoseConnection
  <1>3. x \in ExportRow /\ x.id = 1 /\ x.status = "submit_unknown"
    BY <1>1, SubmissionRows DEF Asked
  <1>4. Orphaned(w) \subseteq Exports /\ \A d \in Orphaned(w) : Asked(d)
    BY OrphanWasAsked DEF LoseConnection
  <1>5. jobs0 \subseteq jobs /\ checks' \subseteq Exports
    BY <1>1, <1>2 DEF SInv, TypeOK
  <1> HIDE DEF e, x, jobs0
  <1>6. ExportsMove /\ RemoteGrows /\ ticket' \in TicketRow /\ LeavesLate /\ Orders
    BY <1>1, <1>2, <1>3, <1>4, <1>5, ReconcileMoves
  <1> QED  BY <1>2, <1>6, LettingGo, Untouched DEF Step

-----------------------------------------------------------------------------
(* The remote database, SAP, and time *)

LEMMA AddedRows ==
    ASSUME SInv, NEW e \in Exports, Asked(e), rma1' = rma1 \cup RowsOf(e)
    PROVE  RemoteGrows /\ AllThere(e, rma1') /\ (export' = export => ExportsMove)
  <1>1. RowsOf(e) = {<<<<e, i>>, 1>> : i \in Items}
    BY DEF RowsOf, Asked
  <1>2. RowsOf(e) \subseteq Lines \X {1}
    BY <1>1 DEF Lines
  <1>3. RemoteGrows  BY <1>2 DEF SInv, OneId, RemoteGrows
  <1>4. AllThere(e, rma1')  BY <1>1 DEF AllThere
  <1>5. ASSUME export' = export PROVE ExportsMove
    BY <1>3, <1>5, RowsStay DEF SInv, TypeOK, ExportsFit, ExportsMove, RemoteGrows, RowFits,
                                AllThere
  <1> QED  BY <1>3, <1>4, <1>5

LEMMA DecideSteps ==
    ASSUME SInv, NEW w \in Workers, Decide(w)
    PROVE  Step
  <1> DEFINE e == run[w].job[1]
  <1>1. SessionFits(run[w], insert[w], export, rma1)  BY DEF SInv, SessionsFit
  <1>2. run[w].phase = "calling"  BY <1>1 DEF SessionFits, Decide
  <1>3. /\ e \in Exports /\ Asked(e)
        /\ insert \in [Workers -> {"none", "open", "committed", "refused"}]
        /\ run \in [Workers -> Session]
    BY <1>2, AtWork
  <1>4. /\ \/ rma1' = rma1 \cup RowsOf(e) /\ insert' = [insert EXCEPT ![w] = "committed"]
           \/ rma1' = rma1 /\ insert' = [insert EXCEPT ![w] = "refused"]
        /\ UNCHANGED <<ticket, export, numbers, mails, jobs, keys, checks, run, late, rma2, other>>
    BY DEF Decide
  <1>5. ASSUME insert' = [insert EXCEPT ![w] = "committed"] \/ insert' = [insert EXCEPT ![w] = "refused"],
               insert'[w] = "committed" => AllThere(e, rma1')
        PROVE  SessionsMove
    <2>1. /\ insert' \in [Workers -> {"none", "open", "committed", "refused"}]
          /\ \A v \in Workers \ {w} : insert'[v] = insert[v]
      BY <1>3, <1>5
    <2>2. SessionFits(run'[w], insert'[w], export', rma1')
      BY <1>1, <1>2, <1>4, <1>5 DEF SessionFits
    <2> QED  BY <1>3, <1>4, <2>1, <2>2 DEF SessionsMove
  <1> HIDE DEF e
  <1>6. CASE rma1' = rma1 \cup RowsOf(e) /\ insert' = [insert EXCEPT ![w] = "committed"]
    <2>1. RemoteGrows /\ AllThere(e, rma1') /\ ExportsMove
      BY <1>3, <1>4, <1>6, AddedRows
    <2>2. SessionsMove  BY <1>5, <1>6, <2>1
    <2> QED  BY <1>4, <2>1, <2>2, Untouched DEF Step
  <1>7. CASE rma1' = rma1 /\ insert' = [insert EXCEPT ![w] = "refused"]
    <2>1. insert'[w] = "refused"  BY <1>3, <1>7
    <2>2. SessionsMove  BY <1>5, <1>7, <2>1
    <2> QED  BY <1>4, <1>7, <2>2, Untouched DEF Step
  <1> QED  BY <1>4, <1>6, <1>7

LEMMA DecideLateSteps ==
    ASSUME SInv, NEW e \in Exports, DecideLate(e)
    PROVE  Step
  <1>1. /\ e \in late /\ late' \subseteq late
        /\ rma1' = rma1 \/ rma1' = rma1 \cup RowsOf(e)
        /\ UNCHANGED <<ticket, export, numbers, mails, jobs, keys, checks, run, insert, rma2, other>>
    BY DEF DecideLate
  <1>2. Asked(e)  BY <1>1 DEF SInv, LateWasAsked
  <1>3. RemoteGrows /\ ExportsMove
    BY <1>1, <1>2, AddedRows, Untouched
  <1> QED  BY <1>1, <1>3, Untouched DEF Step

\* An answer is given once and stays.
LEMMA AnswerSteps ==
    ASSUME SInv, NEW e \in Exports, NEW i \in Items, NEW no \in RmaNos \cup {BadRma},
           Answer(e, i, no)
    PROVE  Step
  <1>1. /\ rma2[<<e, i>>] = NoRma /\ rma2' = [rma2 EXCEPT ![<<e, i>>] = no]
        /\ UNCHANGED <<ticket, export, numbers, mails, jobs, keys, checks, run, insert, late,
                       rma1, other>>
    BY DEF Answer
  <1>2. rma2 \in [Lines -> RmaNos \cup {NoRma, BadRma}]  BY DEF SInv, TypeOK
  <1>3. Answers
    <2> DEFINE l == <<e, i>>
    <2>1. rma2[l] = NoRma /\ rma2' = [rma2 EXCEPT ![l] = no]  BY <1>1
    <2> HIDE DEF l
    <2> QED  BY <1>2, <2>1 DEF Answers
  <1> QED  BY <1>1, <1>3, Untouched DEF Step

LEMMA OtherAnsweredSteps ==
    ASSUME SInv, OtherAnswered
    PROVE  Step
  <1>1. /\ other' = TRUE
        /\ UNCHANGED <<ticket, export, numbers, mails, jobs, keys, checks, run, insert, late,
                       rma1, rma2>>
    BY DEF OtherAnswered, remote
  <1>2. TicketMoves  BY <1>1 DEF SInv, TypeOK, TicketMoves
  <1> QED  BY <1>1, <1>2, Untouched DEF Step

\* A flag of a row is set.
LEMMA FlagSteps ==
    ASSUME SInv, NEW e \in Exports, ConfirmTime(e) \/ Overdue(e)
    PROVE  Step
  <1> DEFINE y1 == [export[e] EXCEPT !.due = TRUE]
             y2 == [export[e] EXCEPT !.overdue = TRUE]
  <1>1. export \in [Exports -> ExportRow] /\ export[e] \in ExportRow /\ RowFits(export[e], e, rma1)
    BY DEF SInv, TypeOK, ExportsFit
  <1>2. /\ export' = [export EXCEPT ![e] = y1] \/ export' = [export EXCEPT ![e] = y2]
        /\ UNCHANGED <<ticket, numbers, mails, jobs, keys, checks, run, insert, late, rma1, rma2,
                       other>>
    BY <1>1 DEF ConfirmTime, Overdue, remote
  <1>3. /\ y1 \in ExportRow /\ RowMoves(export[e], y1) /\ RowFits(y1, e, rma1')
        /\ y2 \in ExportRow /\ RowMoves(export[e], y2) /\ RowFits(y2, e, rma1')
    BY <1>1, <1>2 DEF ExportRow, RowMoves, RowFits
  <1> HIDE DEF y1, y2
  <1>4. RemoteGrows /\ ExportsMove
    BY <1>2, <1>3, Untouched, OneRow
  <1> QED  BY <1>2, <1>4, Untouched DEF Step

-----------------------------------------------------------------------------
(* The poll and what people do *)

\* What a poll has made of the rows is written.
LEMMA CommitMoves ==
    ASSUME SInv, NEW s, PollFits(s), Commit(s), UNCHANGED <<rma1, rma2>>
    PROVE  /\ ExportsMove /\ RemoteGrows /\ MailsAreComplete
           /\ other' \in BOOLEAN => TicketMoves
  <1>1. /\ s \in PollRows
        /\ \A e \in Exports : RowMoves(export[e], s.x[e]) /\ RowFits(s.x[e], e, rma1)
        /\ \A m \in s.mails : \A i \in Items : rma2[<<m.export, i>>] = m.rma
    BY DEF PollFits
  <1>2. export' = s.x /\ mails' = s.mails /\ ticket' = s.ticket /\ numbers' = s.numbers
    BY DEF Commit
  <1>3. /\ s.x \in [Exports -> ExportRow] /\ s.ticket \in TicketRow /\ s.numbers \subseteq RmaNos
        /\ s.mails \subseteq MailJob
    BY <1>1 DEF PollRows
  <1> QED  BY <1>1, <1>2, <1>3, Untouched DEF ExportsMove, MailsAreComplete, TicketMoves

LEMMA PollAllSteps ==
    ASSUME SInv, NEW problem, PollAll(problem)
    PROVE  Step
  <1>1. PICK due : /\ Commit(AllPolled(due, problem)) /\ other' = FALSE
                   /\ UNCHANGED <<jobs, keys, checks, run, insert, late, rma1, rma2>>
    BY DEF PollAll, remote
  <1>2. /\ ExportsMove /\ RemoteGrows /\ MailsAreComplete /\ TicketMoves
    BY <1>1, AllPolledFits, CommitMoves
  <1> QED  BY <1>1, <1>2, Untouched DEF Step

\* An export in doubt or found in part is compared with RMA1 once more.
LEMMA DoubtMoves ==
    ASSUME SInv, NEW e \in Exports, NEW found, Reconcile(e, export[e], found, jobs, late),
           \/ export[e].status = "submit_unknown"
           \/ export[e].status = "manual_review" /\ export[e].error = "partial",
           checks' \subseteq Exports
    PROVE  ExportsMove /\ RemoteGrows /\ ticket' \in TicketRow /\ LeavesLate /\ Orders
  <1> DEFINE x == export[e]
  <1>1. TypeOK /\ \A d \in late : Asked(d)  BY DEF SInv, LateWasAsked
  <1>2. x \in ExportRow /\ RowFits(x, e, rma1)  BY DEF SInv, TypeOK, ExportsFit
  <1>3. x.id = 1 /\ x.status # "none" /\ x.status # "waiting_sap_result" /\ Asked(e)
    BY <1>2 DEF RowFits, Asked
  <1>4. Reconcile(e, x, found, jobs, late) /\ late \subseteq Exports
    BY <1>1 DEF TypeOK
  <1> HIDE DEF x
  <1> QED  BY <1>1, <1>2, <1>3, <1>4, ReconcileMoves

LEMMA CheckJobSteps ==
    ASSUME SInv, NEW e \in checks, NEW problem, NEW found, CheckJob(e, problem, found)
    PROVE  Step
  <1>1. TypeOK /\ e \in Exports  BY DEF SInv, TypeOK
  <1>2. UNCHANGED <<run, insert, other>>  BY DEF CheckJob
  <1>3. checks' \subseteq Exports  BY <1>1 DEF CheckJob, TypeOK
  <1>4. CASE export[e].status = "submit_unknown"
    <2>1. /\ Reconcile(e, export[e], found, jobs, late)
          /\ UNCHANGED <<numbers, mails, rma2>>
      BY <1>4 DEF CheckJob
    <2>2. ExportsMove /\ RemoteGrows /\ ticket' \in TicketRow /\ LeavesLate /\ Orders
      BY <1>1, <1>3, <1>4, <2>1, DoubtMoves
    <2> QED  BY <1>2, <2>1, <2>2, Untouched DEF Step
  <1>5. CASE export[e].status # "submit_unknown"
    <2>1. /\ Commit(Polled(Rows, e, problem, FALSE))
          /\ UNCHANGED <<jobs, keys, late, rma1, rma2>>
      BY <1>5 DEF CheckJob, remote
    <2>2. PollFits(Polled(Rows, e, problem, FALSE))
      BY <1>1, RowsFit, PolledFits
    <2>3. other' \in BOOLEAN  BY <1>1, <1>2 DEF TypeOK
    <2>4. ExportsMove /\ RemoteGrows /\ MailsAreComplete /\ TicketMoves
      BY <2>1, <2>2, <2>3, CommitMoves
    <2>5. Orders  BY <1>1, <1>3, <2>1 DEF TypeOK, Orders
    <2> QED  BY <1>2, <2>1, <2>4, <2>5, Untouched DEF Step
  <1> QED  BY <1>4, <1>5

LEMMA PollLatestSteps ==
    ASSUME SInv, NEW problem, NEW confirmed \in BOOLEAN, NEW found,
           PollLatest(problem, confirmed, found)
    PROVE  Step
  <1> DEFINE e == Latest
  <1>1. TypeOK /\ e \in Exports  BY LatestExists DEF SInv
  <1>2. UNCHANGED <<checks, run, insert, other>>  BY DEF PollLatest
  <1>3. checks' \subseteq Exports  BY <1>1, <1>2 DEF TypeOK
  <1>4. CASE export[e].status = "submit_unknown"
    <2>1. /\ Reconcile(e, export[e], found, jobs, late)
          /\ UNCHANGED <<numbers, mails, rma2>>
      BY <1>4 DEF PollLatest
    <2> HIDE DEF e
    <2>2. ExportsMove /\ RemoteGrows /\ ticket' \in TicketRow /\ LeavesLate /\ Orders
      BY <1>1, <1>3, <1>4, <2>1, DoubtMoves
    <2> QED  BY <1>2, <2>1, <2>2, Untouched DEF Step
  <1>5. CASE export[e].status # "submit_unknown"
    <2>1. /\ Commit(Polled(Rows, e, problem, confirmed))
          /\ UNCHANGED <<jobs, keys, late, rma1, rma2>>
      BY <1>5 DEF PollLatest, remote
    <2> HIDE DEF e
    <2>2. PollFits(Polled(Rows, e, problem, confirmed))
      BY <1>1, RowsFit, PolledFits
    <2>3. other' \in BOOLEAN  BY <1>1, <1>2 DEF TypeOK
    <2>4. ExportsMove /\ RemoteGrows /\ MailsAreComplete /\ TicketMoves
      BY <2>1, <2>2, <2>3, CommitMoves
    <2> QED  BY <1>2, <2>1, <2>4, Untouched DEF Step
  <1> QED  BY <1>4, <1>5

LEMMA ReconcileLatestSteps ==
    ASSUME SInv, NEW found, ReconcileLatest(found)
    PROVE  Step
  <1> DEFINE e == Latest
  <1>1. TypeOK /\ e \in Exports  BY LatestExists DEF SInv
  <1>2. /\ Reconcile(e, export[e], found, jobs, late)
        /\ \/ export[e].status = "submit_unknown"
           \/ export[e].status = "manual_review" /\ export[e].error = "partial"
        /\ UNCHANGED <<numbers, mails, checks, run, insert, rma2, other>>
    BY DEF ReconcileLatest
  <1>3. checks' \subseteq Exports  BY <1>1, <1>2 DEF TypeOK
  <1> HIDE DEF e
  <1>4. ExportsMove /\ RemoteGrows /\ ticket' \in TicketRow /\ LeavesLate /\ Orders
    BY <1>1, <1>2, <1>3, DoubtMoves
  <1> QED  BY <1>2, <1>4, Untouched DEF Step

LEMMA RetryLatestSteps ==
    ASSUME SInv, RetryLatest
    PROVE  Step
  <1> DEFINE e == Latest
             key == <<e, "retry", export[e].attempts + 1>>
  <1>1. TypeOK /\ e \in Exports /\ export[e].status # "none"  BY LatestExists DEF SInv
  <1>2. /\ keys' = keys \cup {key} /\ jobs' \subseteq jobs \cup {key}
        /\ UNCHANGED <<ticket, export, numbers, mails, checks, run, insert, late, rma1, rma2, other>>
        /\ export[e].attempts < MaxAttempts
    BY DEF RetryLatest, Enqueue, remote
  <1> HIDE DEF e
  <1>3. key \in Keys
    <2>1. export[e].attempts \in 0..MaxAttempts  BY <1>1 DEF TypeOK, ExportRow
    <2>2. export[e].attempts + 1 \in 0..MaxAttempts + 1  BY <2>1, SapAssumption
    <2> QED  BY <1>1, <2>2 DEF Keys
  <1>4. key[1] = e  OBVIOUS
  <1> HIDE DEF key
  <1>5. Orders  BY <1>1, <1>2, <1>3, <1>4 DEF Orders, TypeOK
  <1> QED  BY <1>2, <1>5, Untouched DEF Step

\* Steps that move the ticket only.
LEMMA TicketOnly ==
    ASSUME SInv, ticket' \in TicketRow, mails' \subseteq mails,
           UNCHANGED <<export, numbers, jobs, keys, checks, run, insert, late, rma1, rma2, other>>
    PROVE  Step
  BY Untouched DEF Step

LEMMA EditSteps ==
    ASSUME SInv, Edit
    PROVE  Step
  <1> DEFINE leaves == ticket.status = "ready_for_export"
             v == ticket.version + (IF leaves THEN 2 ELSE 1)
             st == IF leaves THEN "manual_review" ELSE ticket.status
  <1>1. ticket \in TicketRow  BY DEF SInv, TypeOK
  <1>2. v \in Nat /\ st \in {"ready_for_export", "manual_review", "rma_sent", "closed"}
    BY <1>1 DEF TicketRow
  <1>3. /\ ticket' = [ticket EXCEPT !.version = v, !.checked = 0, !.rma = "pending", !.status = st]
        /\ UNCHANGED <<export, numbers, mails, jobs, keys, checks, run, insert, late, rma1, rma2,
                       other>>
    BY DEF Edit, remote
  <1> HIDE DEF v, st
  <1>4. ticket' \in TicketRow  BY <1>1, <1>2, <1>3 DEF TicketRow
  <1> QED  BY <1>3, <1>4, TicketOnly

\* A version that passes the gate gets an export of its own, unless it has one.
LEMMA RevalidateSteps ==
    ASSUME SInv, Revalidate
    PROVE  Step
  <1> DEFINE v == ticket.version + (IF ticket.status = "manual_review" THEN 1 ELSE 0)
             e == Latest + 1
             y == [NoExport EXCEPT !.status = "pending", !.version = v]
             key == <<e, "first", 0>>
  <1>1. ticket \in TicketRow /\ TypeOK  BY DEF SInv, TypeOK
  <1>2. v \in Nat  BY <1>1 DEF TicketRow
  <1>3. /\ ticket' = [ticket EXCEPT !.status = "ready_for_export", !.version = v, !.checked = v,
                                    !.rma = "waiting_sap", !.task = FALSE]
        /\ \/ UNCHANGED <<export, jobs, keys>>
           \/ /\ Latest < MaxExports /\ export' = [export EXCEPT ![e] = y]
              /\ keys' = keys \cup {key} /\ jobs' \subseteq jobs \cup {key}
        /\ UNCHANGED <<numbers, mails, checks, run, insert, late, rma1, rma2, other>>
    BY DEF Revalidate, Enqueue, remote
  <1>4. ticket' \in TicketRow
    <2> HIDE DEF v
    <2> QED  BY <1>1, <1>2, <1>3 DEF TicketRow
  <1>5. CASE UNCHANGED <<export, jobs, keys>>
    BY <1>3, <1>4, <1>5, TicketOnly
  <1>6. CASE /\ Latest < MaxExports /\ export' = [export EXCEPT ![e] = y]
             /\ keys' = keys \cup {key} /\ jobs' \subseteq jobs \cup {key}
    <2>1. /\ Latest \in Exports
          /\ \A d \in Exports : d > Latest => export[d].status = "none"
      BY LatestExists DEF SInv
    <2>2. e \in Exports /\ e > Latest
      BY <1>6, <2>1, SapAssumption DEF Exports
    <2>3. export[e].status = "none"  BY <2>1, <2>2
    <2>4. /\ y.line = AllLines("none") /\ y.status = "pending" /\ y.error = "none"
          /\ y \in ExportRow
      <3>1. 0 \in 0..MaxAttempts  BY SapAssumption
      <3> HIDE DEF v
      <3> QED  BY <1>2, <3>1, LinesTyped, StatusKinds DEF NoExport, ExportRow
    <2>5. key \in Keys
      <3>1. 0 \in 0..MaxAttempts + 1  BY SapAssumption
      <3> HIDE DEF e
      <3> QED  BY <2>2, <3>1 DEF Keys
    <2>6. key[1] = e  OBVIOUS
    <2> HIDE DEF y, e, key
    <2>7. RowMoves(export[e], y) /\ RowFits(y, e, rma1')
      BY <2>3, <2>4 DEF RowMoves, RowFits
    <2>8. RemoteGrows /\ ExportsMove
      BY <1>3, <1>6, <2>2, <2>4, <2>7, Untouched, OneRow
    <2>9. export'[e].status = "pending"
      BY <1>1, <1>6, <2>2, <2>4 DEF TypeOK
    <2>10. Orders
      BY <1>1, <1>3, <1>6, <2>5, <2>6, <2>9 DEF Orders, TypeOK
    <2> QED  BY <1>3, <1>4, <2>8, <2>10, Untouched DEF Step
  <1> QED  BY <1>3, <1>5, <1>6

LEMMA MailSteps ==
    ASSUME SInv, NEW m \in mails, Mail(m)
    PROVE  Step
  <1>1. ticket \in TicketRow  BY DEF SInv, TypeOK
  <1>2. /\ mails' \subseteq mails /\ MailOutcomes(m)
        /\ UNCHANGED <<export, numbers, jobs, keys, checks, run, insert, late, rma1, rma2, other>>
    BY DEF Mail, remote
  <1>3. ticket' \in TicketRow
    <2>1. \/ ticket' = [ticket EXCEPT !.status = "rma_sent", !.version = ticket.version + 1,
                                      !.rma = "sent"]
          \/ ticket' = [ticket EXCEPT !.rma = "sent"]
          \/ ticket' = ticket \/ ticket' = MovedToManual(ticket)
      BY <1>2 DEF MailOutcomes
    <2>2. ticket.version + 1 \in Nat  BY <1>1 DEF TicketRow
    <2>3. [ticket EXCEPT !.status = "rma_sent", !.version = ticket.version + 1, !.rma = "sent"]
             \in TicketRow
      BY <1>1, <2>2 DEF TicketRow
    <2>4. [ticket EXCEPT !.rma = "sent"] \in TicketRow  BY <1>1 DEF TicketRow
    <2> QED  BY <1>1, <2>1, <2>3, <2>4, TicketMoved
  <1> QED  BY <1>2, <1>3, TicketOnly

LEMMA CloseSteps ==
    ASSUME SInv, Close
    PROVE  Step
  <1>1. ticket \in TicketRow  BY DEF SInv, TypeOK
  <1>2. ticket.version + 1 \in Nat  BY <1>1 DEF TicketRow
  <1>3. /\ ticket' = [ticket EXCEPT !.status = "closed", !.version = ticket.version + 1,
                                    !.rma = "issued"]
        /\ UNCHANGED <<export, numbers, mails, jobs, keys, checks, run, insert, late, rma1, rma2,
                       other>>
    BY DEF Close, remote
  <1>4. ticket' \in TicketRow  BY <1>1, <1>2, <1>3 DEF TicketRow
  <1> QED  BY <1>3, <1>4, TicketOnly

-----------------------------------------------------------------------------
(* The invariant *)

LEMMA InitHolds == Init => SInv
  <1> SUFFICES ASSUME Init PROVE SInv
    OBVIOUS
  <1> DEFINE v(e) == IF e = 1 THEN [NoExport EXCEPT !.status = "pending", !.version = 1]
                     ELSE NoExport
  <1>1. /\ 1 \in Exports /\ 0 \in 0..MaxAttempts /\ 0 \in 0..MaxAttempts + 1
        /\ Others \in BOOLEAN
    BY SapAssumption DEF Exports
  <1>2. \A e \in Exports : export[e] = v(e)  BY DEF Init
  <1>3. /\ NoExport \in ExportRow /\ v(1) \in ExportRow
        /\ \A e : /\ v(e).line = AllLines("none") /\ v(e).error = "none"
                  /\ v(e).status = IF e = 1 THEN "pending" ELSE "none"
    BY <1>1, LinesTyped, StatusKinds DEF NoExport, ExportRow
  <1>4. \A e : v(e) \in ExportRow  BY <1>3
  <1>5. export \in [Exports -> ExportRow]  BY <1>2, <1>4 DEF Init
  <1> HIDE DEF v
  <1>6. export[1].status = "pending"  BY <1>1, <1>2, <1>3
  <1>7. ExportsFit  BY <1>2, <1>3 DEF ExportsFit, RowFits
  <1>8. SomeExport  BY <1>1, <1>6 DEF SomeExport
  <1>9. <<1, "first", 0>> \in Keys  BY <1>1 DEF Keys
  <1>10. JobsAreOfExports
    <2>1. \A j \in jobs : j[1] = 1  BY DEF Init
    <2> QED  BY <1>6, <2>1 DEF JobsAreOfExports
  <1>11. Idle \in Session /\ Idle.phase = "idle"
    BY <1>1, StatusKinds DEF Idle, Session
  <1>12. LateWasAsked /\ OneId /\ CompleteBeforeMail
    BY DEF Init, LateWasAsked, OneId, CompleteBeforeMail
  <1> HIDE DEF Idle
  <1>13. SessionsFit
    BY <1>11 DEF Init, SessionsFit, SessionFits
  <1>14. TypeOK
    <2>1. ticket \in TicketRow  BY DEF Init, TicketRow
    <2>2. run \in [Workers -> Session]  BY <1>11 DEF Init
    <2> QED  BY <1>1, <1>5, <1>9, <2>1, <2>2 DEF Init, TypeOK
  <1> QED  BY <1>7, <1>8, <1>10, <1>12, <1>13, <1>14 DEF SInv

LEMMA NextSteps ==
    ASSUME SInv, Next
    PROVE  Step
  <1>1. ASSUME NEW w \in Workers, Submit(w) PROVE Step
    <2>1. CASE \E j \in jobs : Supersede(w, j) \/ Unusable(w, j) \/ AlreadyAccepted(w, j)
                                 \/ Prepare(w, j)
      BY <2>1, SupersedeSteps, UnusableSteps, AlreadyAcceptedSteps, PrepareSteps
    <2>2. CASE Mark(w)
      BY <2>2, MarkSteps
    <2>3. CASE \E found \in SUBSET Items : Recover(w, found) \/ LoseConnection(w, found)
      BY <2>3, RecoverSteps, LoseConnectionSteps
    <2>4. CASE Accept(w) \/ Refuse(w)
      BY <2>4, AcceptSteps, RefuseSteps
    <2> QED  BY <1>1, <2>1, <2>2, <2>3, <2>4 DEF Submit
  <1>2. ASSUME Sap PROVE Step
    <2>1. CASE OtherAnswered
      BY <2>1, OtherAnsweredSteps
    <2>2. CASE \E w \in Workers : Decide(w)
      BY <2>2, DecideSteps
    <2>3. CASE \E e \in Exports : DecideLate(e) \/ ConfirmTime(e) \/ Overdue(e)
      BY <2>3, DecideLateSteps, FlagSteps
    <2>4. CASE \E e \in Exports, i \in Items, no \in RmaNos \cup {BadRma} : Answer(e, i, no)
      BY <2>4, AnswerSteps
    <2> QED  BY <1>2, <2>1, <2>2, <2>3, <2>4 DEF Sap
  <1>3. ASSUME Poll PROVE Step
    BY <1>3, PollAllSteps, CheckJobSteps DEF Poll
  <1>4. ASSUME People PROVE Step
    <2>1. CASE \E problem \in Problems, confirmed \in BOOLEAN, found \in SUBSET Items :
                  PollLatest(problem, confirmed, found)
      BY <2>1, PollLatestSteps
    <2>2. CASE \E found \in SUBSET Items : ReconcileLatest(found)
      BY <2>2, ReconcileLatestSteps
    <2>3. CASE RetryLatest \/ Edit \/ Revalidate \/ Close
      BY <2>3, RetryLatestSteps, EditSteps, RevalidateSteps, CloseSteps
    <2>4. CASE \E m \in mails : Mail(m)
      BY <2>4, MailSteps
    <2> QED  BY <1>4, <2>1, <2>2, <2>3, <2>4 DEF People
  <1>5. ASSUME NEW w \in Workers, Crash(w) PROVE Step
    BY <1>5, CrashSteps
  <1> QED  BY <1>1, <1>2, <1>3, <1>4, <1>5 DEF Next

LEMMA NextHolds == SInv /\ [Next]_vars => SInv'
  <1>1. ASSUME SInv, Next PROVE SInv'
    BY <1>1, NextSteps, StepKeeps
  <1>2. ASSUME SInv, UNCHANGED vars PROVE SInv'
    <2>1. /\ UNCHANGED <<ticket, export, numbers, mails, jobs, keys, checks, run, insert, late,
                         rma1, rma2, other>>
      BY <1>2 DEF vars, remote
    <2>2. Step  BY <1>2, <2>1, Untouched DEF Step
    <2> QED  BY <1>2, <2>2, StepKeeps
  <1> QED  BY <1>1, <1>2

LEMMA AlwaysHolds == Spec => []SInv
  BY InitHolds, NextHolds, PTL DEF Spec

-----------------------------------------------------------------------------
(* The ticket, its exports, the sessions of the workers and the remote       *)
(* tables keep their shape, and no export is submitted too often.            *)
THEOREM ExportTyped == Spec => []TypeOK
  <1>1. SInv => TypeOK  BY DEF SInv
  <1> QED  BY <1>1, AlwaysHolds, PTL

(* Whatever is repeated after lost answers, dead workers, reconciliations    *)
(* and retries, an item of an export is requested from SAP once.             *)
THEOREM RequestsOnce == Spec => []OneRequestPerItem
  <1>1. SInv => OneRequestPerItem
    <2> SUFFICES ASSUME SInv, NEW l \in Lines
                 PROVE  Cardinality({r \in rma1 : r[1] = l}) <= 1
      BY DEF OneRequestPerItem
    <2>1. \A r \in rma1 : r[1] = l => r = <<l, 1>>  BY DEF SInv, OneId
    <2>2. CASE {r \in rma1 : r[1] = l} = {}
      BY <2>2, FS_EmptySet
    <2>3. CASE {r \in rma1 : r[1] = l} # {}
      <3>1. {r \in rma1 : r[1] = l} = {<<l, 1>>}  BY <2>1, <2>3
      <3>2. Cardinality({<<l, 1>>}) = 1  BY FS_Singleton
      <3> QED  BY <3>1, <3>2
    <2> QED  BY <2>2, <2>3
  <1> QED  BY <1>1, AlwaysHolds, PTL

(* An export that waits for SAP has every row in RMA1: no lost connection,   *)
(* no stale session and no partial outcome makes it look accepted before.    *)
THEOREM AcceptedOnlyIfThere == Spec => []AcceptedIsThere
  <1>1. SInv => AcceptedIsThere
    BY DEF SInv, ExportsFit, RowFits, AllThere, AcceptedIsThere, Found
  <1> QED  BY <1>1, AlwaysHolds, PTL

(* The mail with an RMA number is ordered for an export of which SAP         *)
(* answered every item with that number, and for no other.                   *)
THEOREM MailsCompleteAnswers == Spec => []CompleteBeforeMail
  <1>1. SInv => CompleteBeforeMail  BY DEF SInv
  <1> QED  BY <1>1, AlwaysHolds, PTL
=============================================================================
