---------------------------- MODULE ObjectProofs ----------------------------
(***************************************************************************)
(* Proofs about the objects in the store: about MailSpool, for every       *)
(* number of copies, every sharing of objects and every limit, and about   *)
(* ObjectDeletion, for every finite set of mails and any processes.        *)
(***************************************************************************)
EXTENDS MailSpool, ObjectDeletion, FiniteSetTheorems, TLAPS

RecordRow ==
    [status : {"discovered", "retry_wait", "failed", "spooled", "processing",
               "skipped", "third", "ingested"},
     attempts : 0..MaxRetries, named : BOOLEAN, ref : BOOLEAN,
     mode : {"temporary", "permanent", "shared_reference", "released"}]

(* An attempt that releases its original has a verdict to record.            *)
Attempt ==
    {a \in [phase : {"idle", "classifying", "third", "releasing", "deleted", "ingesting",
                     "archived"},
            final : {"none", "skipped", "third"}] :
        a.phase \in {"releasing", "deleted"} => a.final # "none"}

(* What the poll has still to do may be tried once more, and records that    *)
(* no download was tried for have used no attempt.                           *)
WithinLimit ==
    /\ \A c \in Copies : record[c].status = "discovered" => record[c].attempts = 0
    /\ \A c \in Copies : c \in fetch.todo \/ c = fetch.copy => record[c].attempts < MaxRetries
    /\ fetch.copy \notin fetch.todo

(* The job of a copy works on its spooled original.                          *)
WorksOnOriginal == \A c \in Copies : run[c] # Idle => record[c].ref

(* A copy found to be a duplicate is one of another copy or of the e-mail.   *)
AnotherThan(c) == email # NoKey \/ \E d \in Copies \ {c} : record[d].named

ForAnother ==
    /\ fetch.duplicate => AnotherThan(fetch.copy)
    /\ \A c \in Copies : run[c].final = "skipped" => AnotherThan(c)

OneEmail == history.ingests = IF email = NoKey THEN 0 ELSE 1

Typed == TypeOK /\ WithinLimit /\ run \in [Copies -> Attempt]
Sound == Typed /\ WorksOnOriginal /\ ForAnother /\ OneEmail
         /\ IngestedOnce /\ RowsReferredTo /\ SkippedForAnother
-----------------------------------------------------------------------------
LEMMA Limits ==
    /\ 0 \in 0..MaxRetries /\ 1 \in 0..MaxRetries /\ 0 < MaxRetries
    /\ \A n \in 0..MaxRetries : n < MaxRetries => n + 1 \in 0..MaxRetries
    /\ 0 \in 0..NotEnqueued /\ JobAttempts \in 0..NotEnqueued /\ NotEnqueued \in 0..NotEnqueued
    /\ \A n \in 1..JobAttempts : n \in 0..NotEnqueued /\ n - 1 \in 0..NotEnqueued
  BY SpoolAssumption DEF NotEnqueued

(* Every copy has an object.                                                 *)
LEMMA KeyIsKey == ASSUME NEW c \in Copies PROVE Key[c] \in Keys /\ Key[c] # NoKey
  BY SpoolAssumption DEF Keys

(* A record written by one of the steps is a record.                         *)
LEMMA SetRecordTyped ==
    ASSUME TypeOK, NEW c \in Copies, NEW new \in RecordRow, SetRecord(c, new)
    PROVE  /\ record' \in [Copies -> RecordRow]
           /\ record'[c] = new
           /\ \A d \in Copies \ {c} : record'[d] = record[d]
  BY DEF SetRecord, TypeOK, RecordRow

LEMMA FinishTyped ==
    ASSUME Typed, NEW c \in Copies, NEW left \in 0..NotEnqueued, Finish(c, left)
    PROVE  /\ run' \in [Copies -> Attempt] /\ tries' \in [Copies -> 0..NotEnqueued]
           /\ run'[c] = Idle
           /\ \A d \in Copies \ {c} : run'[d] = run[d]
  BY DEF Finish, Typed, TypeOK, Attempt, Idle

LEMMA InitSound == Init => Sound
  <1>. SUFFICES ASSUME Init PROVE Sound
    OBVIOUS
  <1>1. NewRecord \in RecordRow /\ Idle \in Attempt
    BY Limits DEF NewRecord, Idle, RecordRow, Attempt
  <1>2. record \in [Copies -> RecordRow] /\ run \in [Copies -> Attempt]
    BY <1>1 DEF Init
  <1>3. tries \in [Copies -> 0..NotEnqueued]
    BY Limits DEF Init
  <1>4. TypeOK
    BY <1>2, <1>3 DEF Init, TypeOK, NoFetch, RecordRow, Attempt
  <1>5. WithinLimit
    BY SpoolAssumption, Limits DEF Init, WithinLimit, NewRecord, NoFetch
  <1>6. RowsReferredTo
    BY DEF Init, RowsReferredTo, NewRecord
  <1>. QED BY <1>2, <1>4, <1>5, <1>6
           DEF Init, Sound, Typed, WorksOnOriginal, ForAnother, OneEmail, IngestedOnce,
               SkippedForAnother, NewRecord, NoFetch, Idle
-----------------------------------------------------------------------------
(* The steps of a poll.                                                      *)
LEMMA PollTyped ==
    ASSUME Typed, NEW c \in Copies,
           Read(c) \/ Spool(c) \/ Skip(c) \/ TakeFails(c)
    PROVE  Typed'
  <1>. USE DEF Typed
  <1>0. record[c] \in RecordRow
    BY DEF TypeOK, RecordRow
  <1>1. CASE Read(c)
    <2>1. fetch' \in [todo : SUBSET Copies, copy : Copies \cup {NoCopy},
                      duplicate : BOOLEAN, reused : BOOLEAN]
      BY <1>1 DEF Read, TypeOK, Duplicate
    <2>2. stored' \subseteq Keys
      BY <1>1, KeyIsKey DEF Read, TypeOK
    <2>. QED BY <1>1, <2>1, <2>2 DEF Read, TypeOK, WithinLimit
  <1>2. CASE Spool(c)
    <2>. DEFINE new == [status |-> "spooled", attempts |-> record[c].attempts + 1,
                        named |-> TRUE, ref |-> TRUE, mode |-> "temporary"]
    <2>1. record[c].attempts < MaxRetries
      BY <1>2 DEF Spool, WithinLimit
    <2>2. new \in RecordRow /\ SetRecord(c, new)
      BY <1>0, <1>2, <2>1, Limits DEF Spool, RecordRow
    <2>3. tries' \in [Copies -> 0..NotEnqueued]
      BY <1>2, Limits DEF Spool, TypeOK
    <2>4. rows' \subseteq Keys
      BY <1>2, KeyIsKey DEF Spool, TypeOK
    <2>5. TypeOK'
      BY <1>2, <2>2, <2>3, <2>4, SetRecordTyped DEF Spool, TypeOK, NoFetch, RecordRow
    <2>6. WithinLimit'
      <3>1. fetch'.todo = fetch.todo /\ fetch'.copy = NoCopy /\ c \notin fetch.todo
        BY <1>2 DEF Spool, NoFetch, TypeOK, WithinLimit
      <3>2. record'[c].status = "spooled" /\ \A d \in Copies \ {c} : record'[d] = record[d]
        BY <2>2, SetRecordTyped
      <3>. QED BY <3>1, <3>2, SpoolAssumption DEF TypeOK, WithinLimit
    <2>. QED BY <1>2, <2>5, <2>6 DEF Spool
  <1>3. CASE Skip(c)
    <2>. DEFINE new == [record[c] EXCEPT !.status = "skipped", !.named = TRUE,
                                         !.attempts = IF @ = 0 THEN 1 ELSE @]
    <2>1. new \in RecordRow /\ SetRecord(c, new) /\ new.status = "skipped"
      BY <1>0, <1>3, Limits DEF Skip, RecordRow
    <2>2. TypeOK'
      BY <1>3, <2>1, SetRecordTyped DEF Skip, TypeOK, NoFetch, RecordRow
    <2>3. fetch'.todo = fetch.todo /\ fetch'.copy = NoCopy /\ c \notin fetch.todo
      BY <1>3 DEF Skip, NoFetch, TypeOK, WithinLimit
    <2>4. record'[c].status = "skipped" /\ \A d \in Copies \ {c} : record'[d] = record[d]
      BY <2>1, SetRecordTyped
    <2>5. WithinLimit'
      BY <2>3, <2>4, SpoolAssumption DEF TypeOK, WithinLimit
    <2>. QED BY <1>3, <2>2, <2>5 DEF Skip
  <1>4. CASE TakeFails(c)
    <2>. DEFINE n == record[c].attempts + 1
                new == [record[c] EXCEPT !.status = IF n < MaxRetries THEN "retry_wait" ELSE "failed",
                                         !.attempts = n]
    <2>1. record[c].attempts < MaxRetries
      BY <1>4 DEF TakeFails, WithinLimit
    <2>2. n \in 0..MaxRetries
      BY <1>0, <2>1, Limits DEF RecordRow
    <2>3. new \in RecordRow /\ SetRecord(c, new) /\ new.status \in {"retry_wait", "failed"}
      BY <1>0, <1>4, <2>2 DEF TakeFails, RecordRow
    <2>4. TypeOK'
      BY <1>4, <2>3, SetRecordTyped DEF TakeFails, TypeOK, NoFetch, RecordRow
    <2>5. fetch'.todo = fetch.todo \ {c} /\ fetch'.copy = NoCopy
      BY <1>4 DEF TakeFails, NoFetch
    <2>6. record'[c].status # "discovered" /\ \A d \in Copies \ {c} : record'[d] = record[d]
      BY <2>3, SetRecordTyped
    <2>7. WithinLimit'
      BY <2>5, <2>6, SpoolAssumption DEF TypeOK, WithinLimit
    <2>. QED BY <1>4, <2>4, <2>7 DEF TakeFails
  <1>. QED BY <1>1, <1>2, <1>3, <1>4

(* A step of an attempt that writes the record.                              *)
LEMMA WriteTyped ==
    ASSUME Typed, NEW c \in Copies, NEW new \in RecordRow, SetRecord(c, new),
           new.attempts = record[c].attempts, new.status # "discovered",
           run' \in [Copies -> Attempt], tries' \in [Copies -> 0..NotEnqueued],
           UNCHANGED fetch,
           rows' \subseteq Keys, stored' \subseteq Keys, email' \in Keys \cup {NoKey},
           history' \in [ingests : Nat, settled : BOOLEAN]
    PROVE  Typed'
  <1>1. /\ record' \in [Copies -> RecordRow] /\ record'[c] = new
        /\ \A d \in Copies \ {c} : record'[d] = record[d]
    BY SetRecordTyped DEF Typed
  <1>2. TypeOK'
    BY <1>1 DEF Typed, TypeOK, RecordRow, Attempt
  <1>3. WithinLimit'
    BY <1>1 DEF Typed, TypeOK, WithinLimit
  <1>. QED BY <1>2, <1>3 DEF Typed

(* ... and one that only moves the attempt on.                               *)
LEMMA StepTyped ==
    ASSUME Typed, UNCHANGED <<record, fetch>>,
           run' \in [Copies -> Attempt], tries' \in [Copies -> 0..NotEnqueued],
           rows' \subseteq Keys, stored' \subseteq Keys, UNCHANGED <<email, history>>
    PROVE  Typed'
  BY DEF Typed, TypeOK, WithinLimit, RecordRow, Attempt

LEMMA JobTyped ==
    ASSUME Typed, NEW c \in Copies,
           \/ Unreadable(c) \/ Second(c) \/ Begin(c) \/ Classify(c) \/ Count(c)
           \/ DeleteObject(c) \/ Release(c) \/ Archive(c) \/ Ingest(c)
           \/ PersistFails(c) \/ AttemptDies(c)
    PROVE  Typed'
  <1>0. /\ record[c] \in RecordRow /\ tries[c] \in 0..NotEnqueued
        /\ rows \subseteq Keys /\ stored \subseteq Keys /\ email \in Keys \cup {NoKey}
        /\ history \in [ingests : Nat, settled : BOOLEAN]
        /\ run \in [Copies -> Attempt] /\ tries \in [Copies -> 0..NotEnqueued]
        /\ Key[c] \in Keys
    BY KeyIsKey DEF Typed, TypeOK, RecordRow, Attempt
  <1>1. ASSUME NEW left \in 0..NotEnqueued, Finish(c, left)
        PROVE  run' \in [Copies -> Attempt] /\ tries' \in [Copies -> 0..NotEnqueued]
    BY <1>1, FinishTyped
  <1>2. ASSUME NEW phase \in {"classifying", "third", "ingesting", "archived"}
        PROVE  [run EXCEPT ![c].phase = phase] \in [Copies -> Attempt]
    BY <1>0 DEF Attempt
  <1>3. ASSUME NEW final \in {"skipped", "third"}
        PROVE  [run EXCEPT ![c] = [phase |-> "releasing", final |-> final]]
                  \in [Copies -> Attempt]
    BY <1>0 DEF Attempt
  <1>4. ASSUME Ready(c)
        PROVE  /\ tries[c] - 1 \in 0..NotEnqueued
               /\ [tries EXCEPT ![c] = @ - 1] \in [Copies -> 0..NotEnqueued]
    BY <1>0, <1>4, Limits DEF Ready
  <1>5. CASE Unreadable(c)
    <2>1. PICK left \in 0..NotEnqueued : Finish(c, left)
      BY <1>4, <1>5, Limits DEF Unreadable
    <2>2. run' \in [Copies -> Attempt] /\ tries' \in [Copies -> 0..NotEnqueued]
      BY <1>1, <2>1
    <2>. QED BY <1>0, <1>5, <2>2, StepTyped DEF Unreadable
  <1>6. ASSUME NEW new, SetRecord(c, new), UNCHANGED <<rows, stored, email, fetch>>,
               new = [record[c] EXCEPT !.status = "skipped", !.mode = "shared_reference"]
                  \/ new = [record[c] EXCEPT !.status = "third", !.mode = "shared_reference"],
               Finish(c, 0), history' \in [ingests : Nat, settled : BOOLEAN]
        PROVE  Typed'
    <2>1. /\ new \in RecordRow /\ new.attempts = record[c].attempts
          /\ new.status # "discovered"
      BY <1>0, <1>6 DEF RecordRow
    <2>2. run' \in [Copies -> Attempt] /\ tries' \in [Copies -> 0..NotEnqueued]
      BY <1>1, <1>6, Limits
    <2>. QED BY <1>0, <1>6, <2>1, <2>2, WriteTyped
  <1>7. CASE Second(c)
    <2>1. CASE ReferredTo(Key[c], Copies \ {c})
      BY <1>0, <1>6, <1>7, <2>1 DEF Second
    <2>2. CASE ~ReferredTo(Key[c], Copies \ {c})
      BY <1>0, <1>3, <1>4, <1>7, <2>2, StepTyped DEF Second
    <2>. QED BY <2>1, <2>2
  <1>8. CASE Begin(c)
    <2>. DEFINE new == [record[c] EXCEPT !.status = "processing"]
    <2>1. new \in RecordRow /\ new.attempts = record[c].attempts /\ new.status # "discovered"
      BY <1>0 DEF RecordRow
    <2>2. SetRecord(c, new)
      BY <1>8 DEF Begin
    <2>3. run' \in [Copies -> Attempt] /\ tries' \in [Copies -> 0..NotEnqueued]
      BY <1>2, <1>4, <1>8 DEF Begin
    <2>. HIDE DEF new
    <2>. QED BY <1>0, <1>8, <2>1, <2>2, <2>3, WriteTyped DEF Begin
  <1>9. CASE Classify(c)
    BY <1>0, <1>2, <1>9, StepTyped DEF Classify
  <1>10. CASE Count(c)
    <2>1. CASE ReferredTo(Key[c], Copies \ {c})
      <3>1. history' \in [ingests : Nat, settled : BOOLEAN]
        BY <1>0, <1>10, <2>1 DEF Count
      <3>. QED BY <1>0, <1>6, <1>10, <2>1, <3>1 DEF Count
    <2>2. CASE ~ReferredTo(Key[c], Copies \ {c})
      BY <1>0, <1>3, <1>10, <2>2, StepTyped DEF Count
    <2>. QED BY <2>1, <2>2
  <1>11. CASE DeleteObject(c)
    <2>1. stored' \subseteq Keys
      BY <1>0, <1>11 DEF DeleteObject
    <2>2. [run EXCEPT ![c].phase = "deleted"] \in [Copies -> Attempt]
      BY <1>0, <1>11 DEF DeleteObject, Attempt
    <2>. QED BY <1>0, <1>11, <2>1, <2>2, StepTyped DEF DeleteObject
  <1>12. CASE Release(c)
    <2>. DEFINE new == [record[c] EXCEPT !.status = run[c].final, !.ref = FALSE,
                                         !.mode = "released"]
    <2>1. run[c].final \in {"skipped", "third"}
      BY <1>0, <1>12 DEF Release, Attempt
    <2>2. new \in RecordRow /\ new.attempts = record[c].attempts /\ new.status # "discovered"
      BY <1>0, <2>1 DEF RecordRow
    <2>3. SetRecord(c, new)
      BY <1>12 DEF Release
    <2>4. /\ rows' \subseteq Keys
          /\ history' \in [ingests : Nat, settled : BOOLEAN]
          /\ run' \in [Copies -> Attempt] /\ tries' \in [Copies -> 0..NotEnqueued]
      BY <1>0, <1>1, <1>12, Limits DEF Release, RowsWithout
    <2>. HIDE DEF new
    <2>. QED BY <1>0, <1>12, <2>2, <2>3, <2>4, WriteTyped DEF Release
  <1>13. CASE Archive(c)
    <2>1. stored' \subseteq Keys /\ rows' \subseteq Keys
      BY <1>0, <1>13 DEF Archive
    <2>. QED BY <1>0, <1>2, <1>13, <2>1, StepTyped DEF Archive
  <1>14. CASE Ingest(c)
    <2>. DEFINE new == [record[c] EXCEPT !.status = "ingested", !.mode = "permanent"]
    <2>1. new \in RecordRow /\ new.attempts = record[c].attempts /\ new.status # "discovered"
      BY <1>0 DEF RecordRow
    <2>2. SetRecord(c, new) /\ Finish(c, 0)
      BY <1>14 DEF Ingest
    <2>3. email' \in Keys \cup {NoKey} /\ history' \in [ingests : Nat, settled : BOOLEAN]
      <3>1. email' \in {Key[c], email}
        BY <1>14 DEF Ingest
      <3>2. history'.ingests \in {history.ingests + 1, history.ingests} /\ history'.settled = TRUE
            /\ history' = [ingests |-> history'.ingests, settled |-> history'.settled]
        BY <1>0, <1>14 DEF Ingest
      <3>3. history'.ingests \in Nat
        BY <1>0, <3>2
      <3>. QED BY <1>0, <3>1, <3>2, <3>3
    <2>4. run' \in [Copies -> Attempt] /\ tries' \in [Copies -> 0..NotEnqueued]
      BY <1>1, <2>2, Limits
    <2>. HIDE DEF new
    <2>. QED BY <1>0, <1>14, <2>1, <2>2, <2>3, <2>4, WriteTyped DEF Ingest
  <1>15. CASE PersistFails(c)
    <2>. DEFINE new == [record[c] EXCEPT !.status = "retry_wait"]
    <2>1. new \in RecordRow /\ new.attempts = record[c].attempts /\ new.status # "discovered"
      BY <1>0 DEF RecordRow
    <2>2. SetRecord(c, new)
      BY <1>15 DEF PersistFails
    <2>3. run' \in [Copies -> Attempt] /\ tries' \in [Copies -> 0..NotEnqueued]
      BY <1>0, <1>1, <1>15, Limits DEF PersistFails
    <2>. HIDE DEF new
    <2>. QED BY <1>0, <1>15, <2>1, <2>2, <2>3, WriteTyped DEF PersistFails
  <1>16. CASE AttemptDies(c)
    <2>1. run' \in [Copies -> Attempt] /\ tries' \in [Copies -> 0..NotEnqueued]
      BY <1>0, <1>1, <1>16, Limits DEF AttemptDies
    <2>. QED BY <1>0, <1>16, <2>1, StepTyped DEF AttemptDies
  <1>. QED BY <1>5, <1>7, <1>8, <1>9, <1>10, <1>11, <1>12, <1>13, <1>14, <1>15, <1>16

LEMMA NextTyped == Typed /\ [Next]_vars => Typed'
  <1>. SUFFICES ASSUME Typed, [Next]_vars PROVE Typed'
    OBVIOUS
  <1>1. ASSUME NEW todo \in SUBSET Copies, Select(todo) PROVE Typed'
    <2>1. \A c \in todo : record[c].attempts < MaxRetries
      BY <1>1, Limits DEF Select, Selectable, Typed, WithinLimit
    <2>2. fetch' \in [todo : SUBSET Copies, copy : Copies \cup {NoCopy},
                      duplicate : BOOLEAN, reused : BOOLEAN]
          /\ fetch'.todo = todo /\ fetch'.copy = NoCopy
      BY <1>1 DEF Select, NoFetch
    <2>3. TypeOK'
      BY <1>1, <2>2 DEF Select, Typed, TypeOK
    <2>4. WithinLimit'
      BY <1>1, <2>1, <2>2, SpoolAssumption DEF Select, Typed, WithinLimit
    <2>. QED BY <1>1, <2>3, <2>4 DEF Select, Typed
  <1>2. CASE PollDies
    BY <1>2, SpoolAssumption DEF PollDies, NoFetch, Typed, TypeOK, WithinLimit
  <1>3. ASSUME NEW c \in Copies, Read(c) \/ Spool(c) \/ Skip(c) \/ TakeFails(c) PROVE Typed'
    BY <1>3, PollTyped
  <1>4. ASSUME NEW c \in Copies,
               \/ Unreadable(c) \/ Second(c) \/ Begin(c) \/ Classify(c) \/ Count(c)
               \/ DeleteObject(c) \/ Release(c) \/ Archive(c) \/ Ingest(c)
               \/ PersistFails(c) \/ AttemptDies(c)
        PROVE  Typed'
    BY <1>4, JobTyped
  <1>5. CASE UNCHANGED vars
    BY <1>5 DEF vars, Typed, TypeOK, WithinLimit
  <1>. QED BY <1>1, <1>2, <1>3, <1>4, <1>5 DEF Next

(* Records, attempts and the poll keep their shape, and no record has more   *)
(* attempts than IMAP_MAX_RETRIES however often it is sent back.             *)
THEOREM TypeCorrect == Spec => []TypeOK
  <1>1. Sound => Typed
    BY DEF Sound
  <1>2. Typed => TypeOK
    BY DEF Typed
  <1>. QED BY InitSound, NextTyped, <1>1, <1>2, PTL DEF Spec
-----------------------------------------------------------------------------
(* One e-mail: the steps that do not ingest leave the count alone.           *)
LEMMA CountSound == ASSUME Typed, OneEmail, [Next]_vars PROVE OneEmail'
  <1>1. ASSUME NEW c \in Copies, Ingest(c) PROVE OneEmail'
    <2>1. CASE Ingestable
      BY <1>1, <2>1, KeyIsKey DEF Ingest, Ingestable, OneEmail
    <2>2. CASE ~Ingestable
      BY <1>1, <2>2 DEF Ingest, OneEmail, Typed, TypeOK
    <2>. QED BY <2>1, <2>2
  <1>2. ASSUME NEW c \in Copies, Count(c) \/ Release(c) PROVE OneEmail'
    BY <1>2 DEF Count, Release, OneEmail, Typed, TypeOK
  <1>3. CASE UNCHANGED <<email, history>>
    BY <1>3 DEF OneEmail
  <1>. QED BY <1>1, <1>2, <1>3
           DEF Next, vars, Select, PollDies, Read, Spool, Skip, TakeFails, Unreadable, Second,
               Begin, Classify, DeleteObject, Archive, PersistFails, AttemptDies

(* A message becomes one e-mail, however many copies are under way.          *)
THEOREM OnceIngested == Spec => []IngestedOnce
  <1>1. OneEmail => IngestedOnce
    BY DEF OneEmail, IngestedOnce
  <1>2. Init => Typed /\ OneEmail
    BY InitSound DEF Sound
  <1>. QED BY <1>1, <1>2, NextTyped, CountSound, PTL DEF Spec
-----------------------------------------------------------------------------
(* Rows and references.  A step that changes no reference, row or e-mail.    *)
RowReferences == {d \in Copies : record[d].ref}

LEMMA SameReferences ==
    ASSUME RowsReferredTo, RowReferences' = RowReferences, UNCHANGED <<rows, email>>
    PROVE  RowsReferredTo'
  BY DEF RowsReferredTo, RowReferences

LEMMA ReferencesSound ==
    ASSUME Typed, WorksOnOriginal, RowsReferredTo, [Next]_vars
    PROVE  WorksOnOriginal' /\ RowsReferredTo'
  <1>0. /\ \A c \in Copies : record[c] \in RecordRow /\ run[c] \in Attempt
        /\ record \in [Copies -> RecordRow] /\ run \in [Copies -> Attempt]
    BY DEF Typed, TypeOK, RecordRow
  <1>1. ASSUME UNCHANGED <<record, rows, email>>,
               \A d \in Copies : run'[d] # Idle => run[d] # Idle \/ record[d].ref
        PROVE  WorksOnOriginal' /\ RowsReferredTo'
    BY <1>1, SameReferences DEF RowReferences, WorksOnOriginal
  <1>2. ASSUME NEW c \in Copies, NEW new, SetRecord(c, new), UNCHANGED <<rows, email>>,
               new.ref = record[c].ref,
               \A d \in Copies : run'[d] # Idle => run[d] # Idle \/ record[d].ref
        PROVE  WorksOnOriginal' /\ RowsReferredTo'
    <2>1. \A d \in Copies : record'[d].ref = record[d].ref
      BY <1>0, <1>2 DEF SetRecord
    <2>. QED BY <1>2, <2>1, SameReferences DEF RowReferences, WorksOnOriginal
  <1>3. ASSUME NEW c \in Copies, NEW left, Finish(c, left)
        PROVE  \A d \in Copies : run'[d] # Idle => run[d] # Idle
    BY <1>0, <1>3 DEF Finish
  <1>4. ASSUME NEW c \in Copies, Spool(c) PROVE WorksOnOriginal' /\ RowsReferredTo'
    <2>1. \A d \in Copies : record'[d].ref = (d = c \/ record[d].ref)
      BY <1>0, <1>4 DEF Spool, SetRecord, RecordRow
    <2>2. RowReferences' = RowReferences \cup {c}
      BY <2>1 DEF RowReferences
    <2>3. rows' = rows \cup {Key[c]} /\ UNCHANGED <<email, run>>
      BY <1>4 DEF Spool
    <2>4. RowsReferredTo'
      BY <2>2, <2>3 DEF RowsReferredTo, RowReferences
    <2>. QED BY <2>1, <2>3, <2>4 DEF WorksOnOriginal
  <1>5. ASSUME NEW c \in Copies, Skip(c) \/ TakeFails(c) PROVE WorksOnOriginal' /\ RowsReferredTo'
    <2>. DEFINE skipped == [record[c] EXCEPT !.status = "skipped", !.named = TRUE,
                                             !.attempts = IF @ = 0 THEN 1 ELSE @]
                failed(status) == [record[c] EXCEPT !.status = status,
                                                    !.attempts = record[c].attempts + 1]
    <2>0. skipped.ref = record[c].ref /\ \A status : failed(status).ref = record[c].ref
      BY <1>0 DEF RecordRow
    <2>1. PICK new : SetRecord(c, new) /\ new.ref = record[c].ref
      <3>1. CASE Skip(c)
        BY <2>0, <3>1 DEF Skip
      <3>2. CASE TakeFails(c)
        <4>1. PICK status : SetRecord(c, failed(status))
          BY <3>2 DEF TakeFails, SetRecord
        <4>. QED BY <2>0, <4>1
      <3>. QED BY <1>5, <3>1, <3>2
    <2>. QED BY <1>2, <1>5, <2>1 DEF Skip, TakeFails
  <1>6. ASSUME NEW c \in Copies,
               Unreadable(c) \/ Classify(c) \/ DeleteObject(c) \/ AttemptDies(c)
        PROVE  WorksOnOriginal' /\ RowsReferredTo'
    <2>1. \A d \in Copies : run'[d] # Idle => run[d] # Idle
      <3>1. CASE Unreadable(c) \/ AttemptDies(c)
        BY <1>3, <3>1 DEF Unreadable, AttemptDies
      <3>2. CASE Classify(c) \/ DeleteObject(c)
        <4>1. run[c] # Idle
          BY <3>2 DEF Classify, DeleteObject, Idle
        <4>2. \A d \in Copies \ {c} : run'[d] = run[d]
          BY <1>0, <3>2 DEF Classify, DeleteObject
        <4>. QED BY <4>1, <4>2
      <3>. QED BY <1>6, <3>1, <3>2
    <2>. QED BY <1>1, <1>6, <2>1 DEF Unreadable, Classify, DeleteObject, AttemptDies
  <1>7. ASSUME NEW c \in Copies, Second(c) \/ Count(c) PROVE WorksOnOriginal' /\ RowsReferredTo'
    <2>1. record[c].ref
      BY <1>7 DEF Second, Count, Readable, WorksOnOriginal, Idle
    <2>2. CASE ReferredTo(Key[c], Copies \ {c})
      <3>. DEFINE shared(status) == [record[c] EXCEPT !.status = status,
                                                      !.mode = "shared_reference"]
      <3>0. \A status : shared(status).ref = record[c].ref
        BY <1>0 DEF RecordRow
      <3>1. PICK new : SetRecord(c, new) /\ new.ref = record[c].ref
        <4>1. SetRecord(c, shared("skipped")) \/ SetRecord(c, shared("third"))
          BY <1>7, <2>2 DEF Second, Count
        <4>. HIDE DEF shared
        <4>. QED BY <3>0, <4>1
      <3>2. \A d \in Copies : run'[d] # Idle => run[d] # Idle
        BY <1>3, <1>7, <2>2 DEF Second, Count
      <3>. QED BY <1>2, <1>7, <3>1, <3>2 DEF Second, Count
    <2>3. CASE ~ReferredTo(Key[c], Copies \ {c})
      <3>1. \A d \in Copies : run'[d] # Idle => run[d] # Idle \/ record[d].ref
        BY <1>0, <1>7, <2>1, <2>3 DEF Second, Count
      <3>2. UNCHANGED <<record, rows, email>>
        BY <1>7, <2>3 DEF Second, Count
      <3>. QED BY <1>1, <3>1, <3>2
    <2>. QED BY <2>2, <2>3
  <1>8. ASSUME NEW c \in Copies, Begin(c) PROVE WorksOnOriginal' /\ RowsReferredTo'
    <2>1. PICK new : SetRecord(c, new) /\ new.ref = record[c].ref
      BY <1>0, <1>8 DEF Begin, RecordRow
    <2>2. \A d \in Copies : run'[d] # Idle => run[d] # Idle \/ record[d].ref
      BY <1>0, <1>8 DEF Begin, Readable
    <2>. QED BY <1>2, <1>8, <2>1, <2>2 DEF Begin
  <1>9. ASSUME NEW c \in Copies, Release(c) PROVE WorksOnOriginal' /\ RowsReferredTo'
    <2>1. \A d \in Copies : record'[d].ref = (d # c /\ record[d].ref)
      BY <1>0, <1>9 DEF Release, SetRecord, RecordRow
    <2>2. RowReferences' = RowReferences \ {c}
      BY <2>1 DEF RowReferences
    <2>3. /\ rows' = rows \ {Key[c]} /\ email' = email /\ email # Key[c]
          /\ \A d \in RowReferences' : Key[d] # Key[c]
      BY <1>9, <2>2 DEF Release, RowsWithout, RowReferences
    <2>4. RowsReferredTo'
      BY <2>2, <2>3 DEF RowsReferredTo, RowReferences
    <2>5. \A d \in Copies : run'[d] # Idle => d # c /\ run[d] # Idle
      BY <1>0, <1>9 DEF Release, Finish
    <2>. QED BY <2>1, <2>4, <2>5 DEF WorksOnOriginal
  <1>10. ASSUME NEW c \in Copies, Archive(c) PROVE WorksOnOriginal' /\ RowsReferredTo'
    <2>1. run[c] # Idle
      BY <1>10 DEF Archive, Idle
    <2>2. c \in RowReferences
      BY <2>1 DEF WorksOnOriginal, RowReferences
    <2>3. rows' = rows /\ UNCHANGED <<record, email>>
      BY <1>10, <2>2 DEF Archive, RowsReferredTo, RowReferences
    <2>4. \A d \in Copies : run'[d] # Idle => run[d] # Idle
      BY <1>0, <1>10, <2>1 DEF Archive
    <2>. QED BY <1>1, <2>3, <2>4
  <1>11. ASSUME NEW c \in Copies, Ingest(c) PROVE WorksOnOriginal' /\ RowsReferredTo'
    <2>1. run[c] # Idle /\ c \in RowReferences
      BY <1>11 DEF Ingest, Idle, WorksOnOriginal, RowReferences
    <2>2. \A d \in Copies : record'[d].ref = record[d].ref
      BY <1>0, <1>11 DEF Ingest, SetRecord, RecordRow
    <2>3. RowReferences' = RowReferences
      BY <2>2 DEF RowReferences
    <2>4. email' = email \/ (email = NoKey /\ email' = Key[c])
      BY <1>11 DEF Ingest, Ingestable
    <2>5. rows' = rows
      BY <1>11 DEF Ingest
    <2>6. RowsReferredTo'
      BY <2>1, <2>3, <2>4, <2>5, KeyIsKey DEF RowsReferredTo, RowReferences
    <2>. QED BY <1>3, <1>11, <2>2, <2>6 DEF Ingest, WorksOnOriginal
  <1>12. ASSUME NEW c \in Copies, PersistFails(c) PROVE WorksOnOriginal' /\ RowsReferredTo'
    <2>1. PICK new : SetRecord(c, new) /\ new.ref = record[c].ref
      BY <1>0, <1>12 DEF PersistFails, RecordRow
    <2>. QED BY <1>2, <1>3, <1>12, <2>1 DEF PersistFails
  <1>13. CASE UNCHANGED <<record, rows, email, run>>
    BY <1>1, <1>13
  <1>. QED BY <1>4, <1>5, <1>6, <1>7, <1>8, <1>9, <1>10, <1>11, <1>12, <1>13
           DEF Next, vars, Select, PollDies, Read

(* Every row of the object table is some record's or the e-mail's, and every *)
(* reference has its row.                                                    *)
THEOREM RowsAccounted == Spec => []RowsReferredTo
  <1>1. Init => Typed /\ WorksOnOriginal /\ RowsReferredTo
    BY InitSound DEF Sound
  <1>. QED BY <1>1, NextTyped, ReferencesSound, PTL DEF Spec
-----------------------------------------------------------------------------
(* Verdicts: message ids stay stored and the e-mail stays, so what was a     *)
(* duplicate of another copy remains one.                                    *)
LEMMA EmailStays == ASSUME [Next]_vars, email # NoKey PROVE email' # NoKey
  <1>1. ASSUME NEW d \in Copies, Ingest(d) PROVE email' # NoKey
    BY <1>1 DEF Ingest, Ingestable
  <1>2. ASSUME UNCHANGED email PROVE email' # NoKey
    BY <1>2
  <1>. QED BY <1>1, <1>2
           DEF Next, vars, Select, PollDies, Read, Spool, Skip, TakeFails, Unreadable, Second,
               Begin, Classify, Count, DeleteObject, Release, Archive, PersistFails, AttemptDies

LEMMA NamesStay ==
    ASSUME Typed, [Next]_vars, NEW c \in Copies, record[c].named
    PROVE  record'[c].named
  <1>1. \A d \in Copies : record[d] \in RecordRow
    BY DEF Typed, TypeOK, RecordRow
  <1>2. ASSUME NEW d \in Copies, NEW new, SetRecord(d, new), record[d].named => new.named
        PROVE  record'[c].named
    BY <1>2 DEF SetRecord, Typed, TypeOK
  <1>3. ASSUME NEW d \in Copies, Spool(d) \/ Skip(d) \/ TakeFails(d)
        PROVE  record'[c].named
    <2>. DEFINE failed(status) == [record[d] EXCEPT !.status = status,
                                                    !.attempts = record[d].attempts + 1]
    <2>1. CASE Spool(d)
      BY <1>2, <2>1 DEF Spool
    <2>2. CASE Skip(d)
      <3>. DEFINE new == [record[d] EXCEPT !.status = "skipped", !.named = TRUE,
                                           !.attempts = IF @ = 0 THEN 1 ELSE @]
      <3>1. new.named /\ SetRecord(d, new)
        BY <1>1, <2>2 DEF Skip, RecordRow
      <3>. HIDE DEF new
      <3>. QED BY <1>2, <3>1
    <2>3. CASE TakeFails(d)
      <3>1. PICK status : SetRecord(d, failed(status))
        BY <2>3 DEF TakeFails, SetRecord
      <3>2. record[d].named => failed(status).named
        BY <1>1 DEF RecordRow
      <3>. HIDE DEF failed
      <3>. QED BY <1>2, <3>1, <3>2
    <2>. QED BY <1>3, <2>1, <2>2, <2>3
  <1>4. ASSUME NEW d \in Copies,
               \/ Second(d) \/ Begin(d) \/ Count(d) \/ Release(d) \/ Ingest(d) \/ PersistFails(d)
        PROVE  record'[c].named
    <2>0. record[c] \in RecordRow /\ record[d] \in RecordRow /\ record \in [Copies -> RecordRow]
      BY <1>1 DEF Typed, TypeOK, RecordRow
    <2>1. CASE Second(d)
      <3>1. CASE ReferredTo(Key[d], Copies \ {d})
        BY <2>0, <2>1, <3>1 DEF Second, SetRecord, RecordRow
      <3>2. CASE ~ReferredTo(Key[d], Copies \ {d})
        BY <2>1, <3>2 DEF Second
      <3>. QED BY <3>1, <3>2
    <2>2. CASE Count(d)
      <3>1. CASE ReferredTo(Key[d], Copies \ {d})
        <4>1. SetRecord(d, [record[d] EXCEPT !.status = "third", !.mode = "shared_reference"])
          BY <2>2, <3>1 DEF Count
        <4>. QED BY <2>0, <4>1 DEF SetRecord, RecordRow
      <3>2. CASE ~ReferredTo(Key[d], Copies \ {d})
        BY <2>2, <3>2 DEF Count
      <3>. QED BY <3>1, <3>2
    <2>3. CASE Begin(d)
      BY <2>0, <2>3 DEF Begin, SetRecord, RecordRow
    <2>4. CASE PersistFails(d)
      BY <2>0, <2>4 DEF PersistFails, SetRecord, RecordRow
    <2>5. CASE Release(d)
      BY <2>0, <2>5 DEF Release, SetRecord, RecordRow
    <2>6. CASE Ingest(d)
      BY <2>0, <2>6 DEF Ingest, SetRecord, RecordRow
    <2>. QED BY <1>4, <2>1, <2>2, <2>3, <2>4, <2>5, <2>6
  <1>5. ASSUME UNCHANGED record PROVE record'[c].named
    BY <1>5
  <1>. QED BY <1>3, <1>4, <1>5
           DEF Next, vars, Select, PollDies, Read, Unreadable, Classify, DeleteObject, Archive,
               AttemptDies

(* Whoever is found to be a duplicate is skipped for another.                *)
LEMMA DuplicateOfAnother ==
    ASSUME Typed, NEW c \in Copies, Duplicate(c) PROVE AnotherThan(c)
  BY DEF Duplicate, AnotherThan

LEMMA VerdictsSound ==
    ASSUME Typed, ForAnother, SkippedForAnother, [Next]_vars
    PROVE  ForAnother' /\ SkippedForAnother'
  <1>. DEFINE Still(c) == email' # NoKey \/ \E d \in Copies \ {c} : record'[d].named
              KeepsPoll == fetch'.duplicate => Still(fetch'.copy)
              KeepsRun(c) == run'[c].final = "skipped" => Still(c)
              KeepsRecord(c) == record'[c].status = "skipped" => Still(c)
  <1>0. /\ record \in [Copies -> RecordRow] /\ run \in [Copies -> Attempt]
        /\ \A c \in Copies : record[c] \in RecordRow /\ run[c] \in Attempt
    BY DEF Typed, TypeOK, RecordRow
  <1>1. ASSUME NEW c, AnotherThan(c) PROVE Still(c)
    <2>1. \A d \in Copies : record[d].named => record'[d].named
      BY NamesStay
    <2>2. CASE email # NoKey
      BY <2>2, EmailStays
    <2>. QED BY <1>1, <2>1, <2>2 DEF AnotherThan
  <1>2. SUFFICES KeepsPoll /\ \A c \in Copies : KeepsRun(c) /\ KeepsRecord(c)
    BY DEF ForAnother, SkippedForAnother, AnotherThan
  <1>3. ASSUME UNCHANGED fetch \/ fetch'.duplicate = FALSE PROVE KeepsPoll
    <2>1. fetch.duplicate => Still(fetch.copy)
      BY <1>1 DEF ForAnother
    <2>. QED BY <1>3, <2>1
  <1>4. ASSUME NEW c \in Copies, run'[c].final \in {run[c].final, "none", "third"} PROVE KeepsRun(c)
    <2>1. run[c].final = "skipped" => Still(c)
      BY <1>1 DEF ForAnother
    <2>. QED BY <1>4, <2>1
  <1>5. ASSUME NEW c \in Copies, record'[c].status = "skipped" => record[c].status = "skipped"
        PROVE  KeepsRecord(c)
    <2>1. record[c].status = "skipped" => AnotherThan(c)
      BY DEF SkippedForAnother, AnotherThan
    <2>2. record[c].status = "skipped" => Still(c)
      BY <1>1, <2>1
    <2>. QED BY <1>5, <2>2
  <1>6. KeepsPoll
    <2>1. ASSUME NEW c \in Copies, Read(c) PROVE KeepsPoll
      <3>1. fetch'.copy = c /\ fetch'.duplicate = Duplicate(c)
        BY <2>1 DEF Read
      <3>. QED BY <1>1, <3>1, DuplicateOfAnother
    <2>2. ASSUME NEW todo, Select(todo) PROVE KeepsPoll
      BY <1>3, <2>2 DEF Select, NoFetch
    <2>3. CASE PollDies
      BY <1>3, <2>3 DEF PollDies, NoFetch
    <2>4. ASSUME NEW c \in Copies, Spool(c) \/ Skip(c) \/ TakeFails(c) PROVE KeepsPoll
      BY <1>3, <2>4 DEF Spool, Skip, TakeFails, NoFetch
    <2>. QED BY <1>3, <2>1, <2>2, <2>3, <2>4
             DEF Next, vars, Unreadable, Second, Begin, Classify, Count, DeleteObject, Release,
                 Archive, Ingest, PersistFails, AttemptDies
  <1>7. ASSUME NEW c \in Copies PROVE KeepsRun(c)
    <2>1. ASSUME NEW d \in Copies, NEW left, Finish(d, left) PROVE KeepsRun(c)
      BY <1>0, <1>4, <2>1 DEF Finish, Idle
    <2>2. ASSUME NEW d \in Copies, NEW phase, run' = [run EXCEPT ![d].phase = phase]
          PROVE  KeepsRun(c)
      <3>1. run'[c].final = run[c].final
        BY <1>0, <2>2 DEF Attempt
      <3>. QED BY <1>4, <3>1
    <2>3. ASSUME NEW d \in Copies, Second(d), ~ReferredTo(Key[d], Copies \ {d}) PROVE KeepsRun(c)
      <3>1. AnotherThan(d)
        BY <2>3, DuplicateOfAnother DEF Second
      <3>2. CASE c = d
        BY <1>1, <3>1, <3>2
      <3>3. CASE c # d
        <4>1. run'[c] = run[c]
          BY <1>0, <2>3, <3>3 DEF Second
        <4>. QED BY <1>4, <4>1
      <3>. QED BY <3>2, <3>3
    <2>4. ASSUME NEW d \in Copies, Count(d), ~ReferredTo(Key[d], Copies \ {d}) PROVE KeepsRun(c)
      <3>1. run' = [run EXCEPT ![d] = [phase |-> "releasing", final |-> "third"]]
        BY <2>4 DEF Count
      <3>2. run'[c].final \in {run[c].final, "third"}
        BY <1>0, <3>1
      <3>. QED BY <1>4, <3>2
    <2>5. ASSUME NEW d \in Copies, Second(d) \/ Count(d) PROVE KeepsRun(c)
      BY <2>1, <2>3, <2>4, <2>5 DEF Second, Count
    <2>6. ASSUME NEW d \in Copies,
                 \/ Unreadable(d) \/ Begin(d) \/ Classify(d) \/ DeleteObject(d) \/ Release(d)
                 \/ Archive(d) \/ Ingest(d) \/ PersistFails(d) \/ AttemptDies(d)
          PROVE  KeepsRun(c)
      BY <2>1, <2>2, <2>6 DEF Unreadable, Begin, Classify, DeleteObject, Release, Archive, Ingest,
                              PersistFails, AttemptDies
    <2>7. CASE UNCHANGED run
      BY <1>4, <2>7
    <2>. QED BY <2>5, <2>6, <2>7
             DEF Next, vars, Select, PollDies, Read, Spool, Skip, TakeFails
  <1>8. ASSUME NEW c \in Copies PROVE KeepsRecord(c)
    <2>1. ASSUME NEW d \in Copies, NEW new, SetRecord(d, new), new.status # "skipped" \/ Still(d)
          PROVE  KeepsRecord(c)
      <3>1. CASE c = d
        BY <1>0, <2>1, <3>1 DEF SetRecord
      <3>2. CASE c # d
        <4>1. record'[c] = record[c]
          BY <1>0, <2>1, <3>2 DEF SetRecord
        <4>. QED BY <1>5, <4>1
      <3>. QED BY <3>1, <3>2
    <2>2. ASSUME NEW d \in Copies, Spool(d) \/ Skip(d) \/ TakeFails(d) PROVE KeepsRecord(c)
      <3>1. CASE Spool(d)
        BY <2>1, <3>1 DEF Spool
      <3>2. CASE Skip(d)
        <4>1. Still(d)
          BY <1>1, <3>2 DEF Skip, ForAnother
        <4>. QED BY <2>1, <3>2, <4>1 DEF Skip
      <3>3. CASE TakeFails(d)
        <4>. DEFINE new(status) == [record[d] EXCEPT !.status = status,
                                                     !.attempts = record[d].attempts + 1]
        <4>1. PICK status \in {"retry_wait", "failed"} : SetRecord(d, new(status))
          BY <3>3 DEF TakeFails, SetRecord
        <4>2. new(status).status # "skipped"
          BY <1>0 DEF RecordRow
        <4>. HIDE DEF new
        <4>. QED BY <2>1, <4>1, <4>2
      <3>. QED BY <2>2, <3>1, <3>2, <3>3
    <2>3. ASSUME NEW d \in Copies, Second(d) PROVE KeepsRecord(c)
      <3>1. Still(d)
        BY <1>1, <2>3, DuplicateOfAnother DEF Second
      <3>2. CASE UNCHANGED record
        BY <1>5, <3>2
      <3>. QED BY <2>1, <2>3, <3>1, <3>2 DEF Second
    <2>4. ASSUME NEW d \in Copies, Count(d) PROVE KeepsRecord(c)
      <3>1. [record[d] EXCEPT !.status = "third", !.mode = "shared_reference"].status # "skipped"
        BY <1>0 DEF RecordRow
      <3>2. CASE UNCHANGED record
        BY <1>5, <3>2
      <3>. QED BY <2>1, <2>4, <3>1, <3>2 DEF Count
    <2>5. ASSUME NEW d \in Copies, Release(d) PROVE KeepsRecord(c)
      <3>. DEFINE new == [record[d] EXCEPT !.status = run[d].final, !.ref = FALSE,
                                           !.mode = "released"]
      <3>1. new.status = run[d].final /\ SetRecord(d, new)
        BY <1>0, <2>5 DEF Release, RecordRow
      <3>2. run[d].final = "skipped" => Still(d)
        BY <1>1 DEF ForAnother
      <3>. HIDE DEF new
      <3>. QED BY <2>1, <3>1, <3>2
    <2>6. ASSUME NEW d \in Copies, Begin(d) \/ Ingest(d) \/ PersistFails(d) PROVE KeepsRecord(c)
      <3>1. /\ [record[d] EXCEPT !.status = "processing"].status # "skipped"
            /\ [record[d] EXCEPT !.status = "ingested", !.mode = "permanent"].status # "skipped"
            /\ [record[d] EXCEPT !.status = "retry_wait"].status # "skipped"
        BY <1>0 DEF RecordRow
      <3>. QED BY <2>1, <2>6, <3>1 DEF Begin, Ingest, PersistFails
    <2>7. CASE UNCHANGED record
      BY <1>5, <2>7
    <2>. QED BY <2>2, <2>3, <2>4, <2>5, <2>6, <2>7
             DEF Next, vars, Select, PollDies, Read, Unreadable, Classify, DeleteObject, Archive,
                 AttemptDies
  <1>. QED BY <1>6, <1>7, <1>8

(* A copy is skipped for another one or for the e-mail, never for itself.    *)
THEOREM NotSkippedForItself == Spec => []SkippedForAnother
  <1>1. Init => Typed /\ ForAnother /\ SkippedForAnother
    BY InitSound DEF Sound
  <1>. QED BY <1>1, NextTyped, VerdictsSound, PTL DEF Spec
-----------------------------------------------------------------------------
(***************************************************************************)
(* ObjectDeletion: the objects of mails that were ingested.  Its state is  *)
(* apart from that of MailSpool.                                           *)
(***************************************************************************)
(* A mail that has the object or is getting it.                              *)
Alive(m) == mail[m] \in {"using", "adding", "stored"}
AtWork(p) == proc[p] # AtRest /\ proc[p].at # "waiting"
Ordered(m) == order[m] \in {"pending", "manual"}

(* Only mails that are there are being deleted.                              *)
PlansFit == \A m \in Mails : plan[m] # "none" => mail[m] = "stored"

(* A process works on an order that is not carried out, alone.               *)
WorkFits ==
    /\ \A p \in Procs : proc[p] # AtRest => order[proc[p].m] # "none"
    /\ \A p \in Procs : AtWork(p) => Ordered(proc[p].m)
    /\ \A p, q \in Procs : AtWork(p) /\ AtWork(q) /\ proc[p].m = proc[q].m => p = q

(* Whatever has the object while it may be removed is excepted, but for the  *)
(* mails that go with it.                                                    *)
OthersExposed ==
    \A m, n \in Mails :
       plan[m] = "last" /\ Alive(n) => n = m \/ plan[n] = "reset" \/ n \in exposed
AllExposed == \A m, n \in Mails : Ordered(m) /\ Alive(n) => n \in exposed

AliveIsThere == \A n \in Mails : Alive(n) => there \/ n \in exposed

DInv ==
    /\ DeletionTypeOK /\ PlansFit /\ WorkFits
    /\ OthersExposed /\ AllExposed /\ AliveIsThere

-----------------------------------------------------------------------------
LEMMA ReferencesCount ==
    /\ IsFiniteSet(References) /\ Cardinality(References) \in Nat
    /\ \A m \in References : Cardinality(References) - 1 \in Nat
    /\ \A m \in References :
          Cardinality(References) - 1 = 0 => References = {m}
  <1>1. IsFiniteSet(References)
    <2>1. References \subseteq Mails  BY DEF References
    <2> QED  BY <2>1, FS_Subset, DeletionAssumption
  <1>2. Cardinality(References) \in Nat
    BY <1>1, FS_CardinalityType
  <1>3. ASSUME NEW m \in References
        PROVE  /\ Cardinality(References) - 1 \in Nat
               /\ Cardinality(References) - 1 = 0 => References = {m}
    <2>1. /\ IsFiniteSet(References \ {m})
          /\ Cardinality(References \ {m}) = Cardinality(References) - 1
      BY <1>1, <1>3, FS_RemoveElement
    <2>2. Cardinality(References \ {m}) \in Nat
      BY <2>1, FS_CardinalityType
    <2>3. Cardinality(References \ {m}) = 0 => References \ {m} = {}
      BY <2>1, FS_EmptySet
    <2> QED  BY <1>3, <2>1, <2>2, <2>3
  <1> QED  BY <1>1, <1>2, <1>3

LEMMA DeletionInitKeeps == ASSUME DeletionInit PROVE DInv
  <1>1. DeletionTypeOK
    <2>1. 0 \in 0..MaxFaults  BY DeletionAssumption
    <2>2. /\ proc \in [Procs -> {AtRest} \cup Working]
          /\ asked \in [Mails -> {NoPreview}]
      BY DEF DeletionInit
    <2> QED
      BY <2>1, <2>2 DEF DeletionInit, DeletionTypeOK, MailStates, Jobs,
         Orders, NoRow
  <1> QED
    BY <1>1 DEF DeletionInit, DInv, PlansFit, WorkFits, OthersExposed, AllExposed,
       AliveIsThere, Alive,
         AtWork, Ordered

LEMMA ArchiveKeeps == ASSUME DInv, NEW m \in Mails, Upload(m) PROVE DInv'
  <1> USE DEF DInv
  <1>1. DeletionTypeOK'
    BY DEF Upload, DeletionTypeOK, MailStates
  <1>2. \A n \in Mails : n # m => (Alive(n)' <=> Alive(n))
    BY DEF Upload, DeletionTypeOK, Alive
  <1>3. exposed \subseteq exposed'
    BY DEF Upload
  <1>4. PlansFit'
    BY DEF Upload, DeletionTypeOK, PlansFit
  <1>5. WorkFits'
    BY DEF Upload, WorkFits, AtWork, Ordered
  <1>6. OthersExposed' /\ AllExposed'
    BY <1>2, <1>3 DEF Upload, Doomed, OthersExposed, AllExposed, Ordered
  <1>7. AliveIsThere'
    BY DEF Upload, AliveIsThere
  <1> QED  BY <1>1, <1>4, <1>5, <1>6, <1>7

LEMMA StoreKeeps == ASSUME DInv, NEW m \in Mails, Store(m) PROVE DInv'
  <1> USE DEF DInv
  <1>1. DeletionTypeOK'
    <2>1. mail' \in [Mails -> MailStates] /\ job' \in [Mails -> Jobs]
      BY DEF Store, DeletionTypeOK, MailStates, Jobs
    <2>2. /\ row' \in Mails \cup {NoRow}
          /\ found' \in [Mails -> Mails \cup {NoRow}]
      BY DEF Store, DeletionTypeOK
    <2>3. exposed' \subseteq Mails
      BY DEF Store, DeletionTypeOK
    <2> QED  BY <2>1, <2>2, <2>3 DEF Store, DeletionTypeOK
  <1>2. \A n \in Mails : n # m => Alive(n)' = Alive(n)
    BY DEF Store, DeletionTypeOK, Alive
  <1>3. \A n \in Mails : Alive(n)' => Alive(n) /\ (n \in exposed => n \in exposed')
    BY DEF Store, Archiving, DeletionTypeOK, Alive
  <1>4. PlansFit'
    BY DEF Store, Archiving, DeletionTypeOK, PlansFit
  <1>5. WorkFits'
    BY DEF Store, WorkFits, AtWork, Ordered
  <1>6. OthersExposed' /\ AllExposed' /\ AliveIsThere'
    BY <1>3 DEF Store, OthersExposed, AllExposed, Ordered, AliveIsThere
  <1> QED  BY <1>1, <1>4, <1>5, <1>6

LEMMA AbandonArchiveKeeps ==
    ASSUME DInv, NEW m \in Mails, AbandonArchive(m)
    PROVE DInv'
  <1> USE DEF DInv
  <1>1. DeletionTypeOK'
    <2>1. faults' \in 0..MaxFaults
      BY DeletionAssumption DEF AbandonArchive, DeletionTypeOK
    <2>2. /\ mail' \in [Mails -> MailStates]
          /\ found' \in [Mails -> Mails \cup {NoRow}]
      BY DEF AbandonArchive, DeletionTypeOK, MailStates
    <2>3. exposed' \subseteq Mails
      BY DEF AbandonArchive, DeletionTypeOK
    <2> QED  BY <2>1, <2>2, <2>3 DEF AbandonArchive, DeletionTypeOK
  <1>2. \A n \in Mails : Alive(n)' => Alive(n) /\ (n \in exposed => n \in exposed')
    BY DEF AbandonArchive, Archiving, DeletionTypeOK, Alive
  <1>3. PlansFit'
    BY DEF AbandonArchive, Archiving, DeletionTypeOK, PlansFit
  <1>4. WorkFits'
    BY DEF AbandonArchive, WorkFits, AtWork, Ordered
  <1>5. OthersExposed' /\ AllExposed' /\ AliveIsThere'
    BY <1>2 DEF AbandonArchive, OthersExposed, AllExposed, Ordered, AliveIsThere
  <1> QED  BY <1>1, <1>3, <1>4, <1>5

\* What only the parse job and the preview change is no matter of the object.
LEMMA Untouched ==
    ASSUME DInv, DeletionTypeOK',
           UNCHANGED <<mail, found, there, plan, order, proc, faults, exposed>>
    PROVE  DInv'
  BY DEF DInv, PlansFit, WorkFits, OthersExposed, AllExposed, AliveIsThere, Alive, AtWork,
     Ordered

LEMMA RunJobKeeps == ASSUME DInv, NEW m \in Mails, RunJob(m) PROVE DInv'
  <1>1. DeletionTypeOK'
    <2>1. job' \in [Mails -> Jobs] /\ proof' \subseteq Mails
      BY DEF DInv, RunJob, DeletionTypeOK, Jobs
    <2> QED  BY <2>1 DEF DInv, RunJob, DeletionTypeOK
  <1> QED  BY <1>1, Untouched DEF RunJob

LEMMA AskKeeps == ASSUME DInv, NEW m \in Mails, Ask(m) PROVE DInv'
  <1>1. Preview(m) \in [shown : {TRUE}, job : Jobs, refs : Nat]
    BY ReferencesCount DEF DInv, DeletionTypeOK, Preview
  <1>2. DeletionTypeOK'
    BY <1>1 DEF DInv, Ask, DeletionTypeOK
  <1> QED  BY <1>2, Untouched DEF Ask

-----------------------------------------------------------------------------
LEMMA ConfirmKeeps == ASSUME DInv, NEW m \in Mails, Confirm(m) PROVE DInv'
  <1> USE DEF DInv
  <1>1. DeletionTypeOK'
    BY DEF Confirm, Archiving, DeletionTypeOK
  <1>2. \A n \in Mails : Alive(n)' <=> Alive(n)
    BY DEF Confirm, Alive
  <1>3. exposed \subseteq exposed'
    BY DEF Confirm
  <1>4. PlansFit'
    BY DEF Confirm, DeletionTypeOK, PlansFit
  <1>5. WorkFits'
    BY DEF Confirm, WorkFits, AtWork, Ordered
  <1>6. AllExposed' /\ AliveIsThere'
    BY <1>2, <1>3 DEF Confirm, AllExposed, Ordered, AliveIsThere
  <1>7. OthersExposed'
    <2>1. CASE Remaining(m) > 0
      <3>1. plan' = [plan EXCEPT ![m] = "shared"]
        BY <2>1 DEF Confirm
      <3> QED  BY <1>2, <1>3, <3>1 DEF Confirm, DeletionTypeOK, OthersExposed
    <2>2. CASE ~(Remaining(m) > 0)
      <3>1. plan' = [plan EXCEPT ![m] = "last"] /\ exposed' = exposed \cup Archiving
        BY <2>2 DEF Confirm
      <3>2. m \in References
        BY DEF Confirm, References
      <3>3. References = {m}
        <4>1. Remaining(m) \in Nat
          BY <3>2, ReferencesCount DEF Remaining
        <4>2. Remaining(m) = 0  BY <2>2, <4>1
        <4> QED  BY <3>2, <4>2, ReferencesCount DEF Remaining
      <3>4. \A n \in Mails : Alive(n) => n = m \/ n \in Archiving
        BY <3>3 DEF Alive, Archiving, References
      <3>5. \A k \in Mails : plan'[k] = "last" => k = m
        BY <3>1, <3>3 DEF DeletionTypeOK, PlansFit, References
      <3> QED  BY <1>2, <3>1, <3>4, <3>5 DEF OthersExposed
    <2> QED  BY <2>1, <2>2
  <1> QED  BY <1>1, <1>4, <1>5, <1>6, <1>7

LEMMA ConfirmResetKeeps == ASSUME DInv, ConfirmReset PROVE DInv'
  <1> USE DEF DInv
  <1>1. PICK S \in Conversations :
                                   /\ References \ S = {}
                                   /\ \A m \in S : plan[m] = "none"
                                   /\ \E m \in S : plan' = [n \in Mails |->
                                         CASE n = m -> "last"
                                           [] n \in S \ {m} -> "reset"
                                           [] OTHER -> plan[n]]
    BY DEF ConfirmReset, SharedOutside
  <1>2. PICK m \in S : plan' = [n \in Mails |-> CASE n = m -> "last"
                                                  [] n \in S \ {m} -> "reset"
                                                  [] OTHER -> plan[n]]
    BY <1>1
  <1>3. S = References /\ S \subseteq Mails
    BY <1>1 DEF Conversations, References
  <1>4. \A n \in Mails :
           plan'[n] = IF n = m THEN "last" ELSE IF n \in S THEN "reset" ELSE plan[n]
    BY <1>2
  <1>5. DeletionTypeOK'
    <2>1. plan' \in [Mails -> {"none", "shared", "last", "reset"}]
      BY <1>2, <1>4 DEF DeletionTypeOK
    <2>2. exposed' \subseteq Mails
      BY DEF ConfirmReset, Archiving, DeletionTypeOK
    <2> QED  BY <2>1, <2>2 DEF ConfirmReset, DeletionTypeOK
  <1>6. \A n \in Mails : Alive(n)' <=> Alive(n)
    BY DEF ConfirmReset, Alive
  <1>7. exposed' = exposed \cup Archiving
    BY DEF ConfirmReset
  <1>8. PlansFit'
    BY <1>3, <1>4 DEF ConfirmReset, PlansFit, References
  <1>9. WorkFits'
    BY DEF ConfirmReset, WorkFits, AtWork, Ordered
  <1>10. AllExposed' /\ AliveIsThere'
    BY <1>6, <1>7 DEF ConfirmReset, AllExposed, Ordered, AliveIsThere
  <1>11. OthersExposed'
    <2>1. \A k \in Mails : plan'[k] = "last" => k = m
      BY <1>1, <1>3, <1>4 DEF PlansFit, References
    <2>2. \A n \in Mails : Alive(n) => n \in S \/ n \in Archiving
      BY <1>3 DEF Alive, Archiving, References
    <2> QED  BY <1>4, <1>6, <1>7, <2>1, <2>2 DEF OthersExposed
  <1> QED  BY <1>5, <1>8, <1>9, <1>10, <1>11

LEMMA DeleteKeeps == ASSUME DInv, NEW m \in Mails, Delete(m) PROVE DInv'
  <1> USE DEF DInv
  <1>1. m \in Going(m) /\ Going(m) \subseteq Mails
    BY DEF Going
  <1>2. \A n \in Mails : /\ mail'[n] = IF n \in Going(m) THEN "deleted" ELSE mail[n]
                         /\ plan'[n] = IF n \in Going(m) THEN "none" ELSE plan[n]
    BY DEF Delete
  <1>3. order' = IF plan[m] = "last" THEN [order EXCEPT ![m] = "pending"] ELSE order
    BY DEF Delete
  <1>4. DeletionTypeOK'
    <2>1. /\ mail' \in [Mails -> MailStates]
          /\ plan' \in [Mails -> {"none", "shared", "last", "reset"}]
      BY <1>2 DEF Delete, DeletionTypeOK, MailStates
    <2>2. asked' \in [Mails -> {NoPreview}
                                  \cup [shown: {TRUE}, job: Jobs, refs: Nat]]
      BY DEF Delete, DeletionTypeOK
    <2>3. job' \in [Mails -> Jobs] /\ order' \in [Mails -> Orders]
      BY DEF Delete, DeletionTypeOK, Jobs, Orders
    <2> QED  BY <2>1, <2>2, <2>3 DEF Delete, DeletionTypeOK
  <1>5. \A n \in Mails : Alive(n)' => Alive(n) /\ n \notin Going(m)
    BY <1>2 DEF Alive
  <1>6. PlansFit'
    BY <1>2 DEF PlansFit
  <1>7. WorkFits'
    <2>1. \A n \in Mails : /\ order[n] # "none" => order'[n] # "none"
                           /\ Ordered(n) => Ordered(n)'
      BY <1>3 DEF DeletionTypeOK, Ordered
    <2>2. \A p \in Procs : proc[p] # AtRest => proc[p].m \in Mails
      BY DEF DeletionTypeOK, Working
    <2> QED  BY <2>1, <2>2 DEF Delete, WorkFits, AtWork
  <1>8. AllExposed'
    <2>1. CASE plan[m] = "last"
      <3>1. \A n \in Mails : Alive(n)' => n \in exposed
        BY <1>1, <1>5, <2>1 DEF OthersExposed, Going
      <3> QED  BY <3>1 DEF Delete, AllExposed
    <2>2. CASE plan[m] # "last"
      BY <1>3, <1>5, <2>2 DEF Delete, AllExposed, Ordered
    <2> QED  BY <2>1, <2>2
  <1>9. OthersExposed'
    BY <1>2, <1>5 DEF Delete, OthersExposed
  <1>10. AliveIsThere'
    BY <1>5 DEF Delete, AliveIsThere
  <1> QED  BY <1>4, <1>6, <1>7, <1>8, <1>9, <1>10

-----------------------------------------------------------------------------
\* What a process does to the object leaves the mails and their plans alone.
LEMMA WorkKeeps ==
    ASSUME DInv, DeletionTypeOK', WorkFits', UNCHANGED <<mail, plan, exposed>>,
           \A m \in Mails : Ordered(m)' => Ordered(m),
           there' = there \/ \E m \in Mails : Ordered(m)
    PROVE  DInv'
  <1>1. \A n \in Mails : Alive(n)' = Alive(n)
    BY DEF Alive
  <1>2. PlansFit' /\ OthersExposed'
    BY <1>1 DEF DInv, PlansFit, OthersExposed
  <1>3. AllExposed'
    BY <1>1 DEF DInv, AllExposed
  <1>4. AliveIsThere'
    BY <1>1 DEF DInv, AllExposed, AliveIsThere
  <1> QED  BY <1>2, <1>3, <1>4 DEF DInv

\* The session of a process that is not idle.
LEMMA Process ==
    ASSUME DInv, NEW p \in Procs, proc[p] # AtRest
    PROVE  /\ proc[p] \in Working /\ proc[p].m \in Mails
           /\ \A at \in {"waiting", "deleting", "removed", "refused", "failed"} :
                /\ [proc[p] EXCEPT !.at = at] \in Working
                /\ [proc[p] EXCEPT !.at = at].at = at
                /\ [proc[p] EXCEPT !.at = at].m = proc[p].m
                /\ [proc[p] EXCEPT !.at = at] # AtRest
  <1>1. proc[p] \in Working
    BY DEF DInv, DeletionTypeOK
  <1> HIDE DEF DInv
  <1>2. proc[p].m \in Mails
    BY <1>1 DEF Working
  <1>3. ASSUME NEW at \in {"waiting", "deleting", "removed", "refused", "failed"}
        PROVE  LET x == [proc[p] EXCEPT !.at = at] IN
               x \in Working /\ x.at = at /\ x.m = proc[p].m
    BY <1>1 DEF Working
  <1> QED  BY <1>1, <1>2, <1>3 DEF AtRest

LEMMA IdleIs == AtRest.at = "idle"
  BY DEF AtRest

LEMMA StartKeeps ==
    ASSUME DInv, NEW p \in Procs, NEW m \in Mails, Start(p, m)
    PROVE DInv'
  <1> DEFINE new == [at |-> "waiting", m |-> m, seen |-> order[m], refs |-> 0]
  <1>1. new \in Working /\ new.at = "waiting" /\ new.m = m
    BY DEF DInv, DeletionTypeOK, Working
  <1>2. proc' = [proc EXCEPT ![p] = new]
    BY DEF Start
  <1> HIDE DEF new
  <1>3. DeletionTypeOK'
    <2>1. proc' \in [Procs -> {AtRest} \cup Working]
      BY <1>1, <1>2 DEF DInv, DeletionTypeOK
    <2> QED  BY <2>1 DEF DInv, Start, DeletionTypeOK
  <1>4. \A q \in Procs : proc'[q] = IF q = p THEN new ELSE proc[q]
    BY <1>2 DEF DInv, DeletionTypeOK
  <1>5. WorkFits'
    BY <1>1, <1>4 DEF DInv, Start, WorkFits, AtWork, Ordered
  <1> QED  BY <1>3, <1>5, WorkKeeps DEF Start, Ordered

LEMMA EnterKeeps == ASSUME DInv, NEW p \in Procs, Enter(p) PROVE DInv'
  <1>1. proc[p] # AtRest /\ proc[p].at = "waiting"
    BY IdleIs DEF Enter
  <1>2. DeletionTypeOK' /\ WorkFits'
    <2>1. CASE Known(p) = "succeeded"
      <3>1. proc' = [proc EXCEPT ![p] = AtRest]
        BY <2>1 DEF Enter
      <3>2. \A q \in Procs : proc'[q] = IF q = p THEN AtRest ELSE proc[q]
        BY <3>1 DEF DInv, DeletionTypeOK
      <3>3. DeletionTypeOK'
        <4>1. proc' \in [Procs -> {AtRest} \cup Working]
          BY <3>1 DEF DInv, DeletionTypeOK
        <4> QED  BY <4>1 DEF DInv, Enter, DeletionTypeOK
      <3> QED  BY <3>2, <3>3 DEF DInv, Enter, WorkFits, AtWork, Ordered
    <2>2. CASE Known(p) # "succeeded"
      <3> DEFINE new == [proc[p] EXCEPT !.at = "deleting", !.refs = Counted(p)]
      <3>1. proc' = [proc EXCEPT ![p] = new]
        BY <2>2 DEF Enter
      <3>2. new \in Working /\ new.at = "deleting" /\ new.m = proc[p].m
        BY <1>1, Process, ReferencesCount DEF DInv, Working,
           Counted
      <3>3. new # AtRest  BY <3>2, IdleIs
      <3> HIDE DEF new
      <3>4. \A q \in Procs : proc'[q] = IF q = p THEN new ELSE proc[q]
        BY <3>1 DEF DInv, DeletionTypeOK
      <3>5. DeletionTypeOK'
        BY <3>1, <3>2 DEF DInv, Enter, DeletionTypeOK
      <3>6. Ordered(proc[p].m)
        BY <1>1, <2>2, Process DEF DInv, DeletionTypeOK, WorkFits, Known, Ordered,
           Orders
      <3>7. \A q \in Procs : AtWork(q) => proc[q].m # proc[p].m
        BY DEF Enter, Locked, AtWork
      <3> QED
        BY <1>1, <3>2, <3>3, <3>4, <3>5, <3>6, <3>7 DEF DInv, Enter, WorkFits, AtWork,
           Ordered
    <2> QED  BY <2>1, <2>2
  <1> QED  BY <1>2, WorkKeeps DEF Enter, Ordered

\* A process at work that goes on.
LEMMA GoesOn ==
    ASSUME DInv, NEW p \in Procs, AtWork(p),
           NEW at \in {"deleting", "removed", "refused", "failed"},
           proc' = [proc EXCEPT ![p].at = at], order' = order
    PROVE  /\ WorkFits' /\ Ordered(proc[p].m)
           /\ proc' \in [Procs -> {AtRest} \cup Working]
  <1> DEFINE new == [proc[p] EXCEPT !.at = at]
  <1>1. new \in Working /\ new.at = at /\ new.m = proc[p].m /\ new # AtRest
    BY Process DEF AtWork
  <1>2. \A q \in Procs : proc'[q] = IF q = p THEN new ELSE proc[q]
    BY DEF DInv, DeletionTypeOK
  <1>3. proc' \in [Procs -> {AtRest} \cup Working]
    <2>1. proc' = [proc EXCEPT ![p] = new]  OBVIOUS
    <2> HIDE DEF new
    <2> QED  BY <1>1, <2>1 DEF DInv, DeletionTypeOK
  <1> HIDE DEF new
  <1> QED  BY <1>1, <1>2, <1>3 DEF DInv, WorkFits, AtWork, Ordered

LEMMA RemoveKeeps == ASSUME DInv, NEW p \in Procs, Remove(p) PROVE DInv'
  <1>1. AtWork(p)
    BY IdleIs DEF Remove, AtWork
  <1>2. /\ WorkFits' /\ Ordered(proc[p].m)
        /\ proc' \in [Procs -> {AtRest} \cup Working]
    BY <1>1, GoesOn DEF Remove
  <1>3. DeletionTypeOK'
    BY <1>2 DEF DInv, Remove, DeletionTypeOK
  <1>4. proc[p].m \in Mails
    BY <1>1, Process DEF AtWork
  <1> QED  BY <1>2, <1>3, <1>4, WorkKeeps DEF Remove, Ordered

LEMMA StoreFailsKeeps == ASSUME DInv, NEW p \in Procs, StoreFails(p) PROVE DInv'
  <1>1. AtWork(p)
    BY IdleIs DEF StoreFails, AtWork
  <1>2. /\ WorkFits' /\ Ordered(proc[p].m)
        /\ proc' \in [Procs -> {AtRest} \cup Working]
    <2>1. PICK at \in {"refused", "failed"} : proc' = [proc EXCEPT ![p].at = at]
      BY DEF StoreFails
    <2> QED  BY <1>1, <2>1, GoesOn DEF StoreFails
  <1>3. DeletionTypeOK'
    <2>1. faults' \in 0..MaxFaults
      BY DeletionAssumption DEF DInv, StoreFails, DeletionTypeOK
    <2>2. there' \in BOOLEAN
      BY DEF DInv, StoreFails, DeletionTypeOK
    <2> QED  BY <1>2, <2>1, <2>2 DEF DInv, StoreFails, DeletionTypeOK
  <1>4. proc[p].m \in Mails
    BY <1>1, Process DEF AtWork
  <1> QED  BY <1>2, <1>3, <1>4, WorkKeeps DEF StoreFails, Ordered

LEMMA RecordKeeps == ASSUME DInv, NEW p \in Procs, Record(p) PROVE DInv'
  <1>1. AtWork(p) /\ proc[p].m \in Mails /\ Ordered(proc[p].m)
    BY IdleIs, Process DEF DInv, WorkFits, Record, AtWork
  <1>2. order' = order \/ order' = [order EXCEPT ![proc[p].m] = Verdict(p)]
    BY DEF Record
  <1>3. Verdict(p) \in {"succeeded", "manual", "pending"}
    BY DEF Verdict
  <1>4. \A q \in Procs : proc'[q] = IF q = p THEN AtRest ELSE proc[q]
    BY DEF DInv, DeletionTypeOK, Record
  <1>5. DeletionTypeOK'
    <2>1. proc' \in [Procs -> {AtRest} \cup Working]
      BY DEF DInv, DeletionTypeOK, Record
    <2>2. order' \in [Mails -> Orders] /\ row' \in Mails \cup {NoRow}
      BY <1>2, <1>3 DEF DInv, DeletionTypeOK, Record, Orders
    <2> QED  BY <2>1, <2>2 DEF DInv, DeletionTypeOK, Record
  <1>6. \A m \in Mails : /\ Ordered(m)' => Ordered(m)
                         /\ order[m] # "none" => order'[m] # "none"
                         /\ m # proc[p].m => order'[m] = order[m]
    BY <1>1, <1>2, <1>3 DEF DInv, DeletionTypeOK, Ordered
  <1>7. \A q \in Procs : proc'[q] # AtRest =>
           q # p /\ proc[q] = proc'[q] /\ proc[q].m \in Mails /\ AtWork(q)' = AtWork(q)
    BY <1>4, Process DEF AtWork
  <1>8. \A q \in Procs : q # p /\ AtWork(q) => proc[q].m # proc[p].m
    BY <1>1 DEF DInv, WorkFits
  <1>9. WorkFits'
    BY <1>6, <1>7, <1>8 DEF DInv, WorkFits, AtWork, Ordered
  <1> QED  BY <1>5, <1>6, <1>9, WorkKeeps DEF Record

LEMMA DieKeeps == ASSUME DInv, NEW p \in Procs, Die(p) PROVE DInv'
  <1>1. \A q \in Procs : proc'[q] = IF q = p THEN AtRest ELSE proc[q]
    BY DEF DInv, DeletionTypeOK, Die
  <1>2. DeletionTypeOK'
    <2>1. faults' \in 0..MaxFaults
      BY DeletionAssumption DEF DInv, Die, DeletionTypeOK
    <2>2. proc' \in [Procs -> {AtRest} \cup Working]
      BY DEF DInv, Die, DeletionTypeOK
    <2> QED  BY <2>1, <2>2 DEF DInv, Die, DeletionTypeOK
  <1>3. WorkFits'
    BY <1>1 DEF DInv, Die, WorkFits, AtWork, Ordered
  <1> QED  BY <1>2, <1>3, WorkKeeps DEF Die, Ordered

LEMMA DeletionNextKeeps == DInv /\ [DeletionNext]_deletionVars => DInv'
  <1> SUFFICES ASSUME DInv, [DeletionNext]_deletionVars PROVE DInv'
    OBVIOUS
  <1>1. CASE UNCHANGED deletionVars
    <2>1. DeletionTypeOK'  BY <1>1 DEF deletionVars, DInv, DeletionTypeOK
    <2> QED  BY <1>1, <2>1, Untouched DEF deletionVars
  <1>2. CASE ConfirmReset
    BY <1>2, ConfirmResetKeeps
  <1>3. ASSUME NEW m \in Mails, Mail(m) PROVE DInv'
    BY <1>3, ArchiveKeeps, StoreKeeps, AbandonArchiveKeeps, RunJobKeeps, AskKeeps, ConfirmKeeps,
       DeleteKeeps DEF Mail
  <1>4. ASSUME NEW p \in Procs,
               \/ Work(p) \/ StoreFails(p) \/ Die(p)
               \/ \E m \in Mails : Start(p, m)
        PROVE  DInv'
    BY <1>4, EnterKeeps, RemoveKeeps, RecordKeeps, StoreFailsKeeps, DieKeeps,
       StartKeeps DEF Work
  <1> QED  BY <1>1, <1>2, <1>3, <1>4 DEF DeletionNext

(* The mails, the orders and the processes keep their shape.                 *)
THEOREM DeletionTyped == DeletionSpec => []DeletionTypeOK
  <1>1. DeletionInit => DInv  BY DeletionInitKeeps
  <1>2. DInv => DeletionTypeOK  BY DEF DInv
  <1> QED  BY <1>1, <1>2, DeletionNextKeeps, PTL DEF DeletionSpec

(* The object of a mail that stays is in the store, whichever other mails    *)
(* are deleted and however often processes start, fail, die and retry.       *)
THEOREM KeepsObjects == DeletionSpec => []KeptIsThere
  <1>1. DeletionInit => DInv  BY DeletionInitKeeps
  <1>2. DInv => KeptIsThere
    BY DEF DInv, AliveIsThere, Alive, KeptIsThere
  <1> QED  BY <1>1, <1>2, DeletionNextKeeps, PTL DEF DeletionSpec
=============================================================================
