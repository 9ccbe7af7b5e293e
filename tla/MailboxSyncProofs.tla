-------------------------- MODULE MailboxSyncProofs --------------------------
(***************************************************************************)
(* Proofs about MailboxSync, for every number of mails, batch sizes,       *)
(* limits and changes of UIDVALIDITY.                                      *)
(***************************************************************************)
EXTENDS MailboxSync, FiniteSetTheorems, TLAPS

Row == [status : {"none", "discovered", "retry_wait", "failed", "spooled", "done"},
        attempts : 0..MaxRetries, due : BOOLEAN, tries : 0..NotEnqueued]

(* Records that no download was tried for have used no attempt and no job.   *)
Untouched ==
    \A u \in Uids : record[u].status \in {"none", "discovered"} =>
        record[u].attempts = 0 /\ record[u].tries = NotEnqueued

(* What the current fetch still has to do may be tried once more.            *)
WithinLimit ==
    fetch.epoch = epoch => \A u \in fetch.todo : record[u].attempts < MaxRetries

(* Nobody knows a UIDVALIDITY that is still to come.                         *)
PastEpochs ==
    /\ fetch.epoch <= epoch /\ sync.epoch <= epoch
    /\ sync.epoch = 0 => sync.mode = "initializing"

(* UIDs are given in ascending order, and the cursor is on one of them.      *)
Ascending ==
    /\ \A u, v \in Uids : v < u /\ box[u] # "none" => box[v] # "none"
    /\ \A u \in Uids : u <= sync.cursor => box[u] # "none"

Typed == TypeOK /\ Untouched /\ WithinLimit /\ PastEpochs
Covered == Typed /\ Ascending /\ NoGap
-----------------------------------------------------------------------------
(* Sets of UIDs are finite, and so are those of cursors.                     *)
LEMMA FiniteUids ==
    /\ \A S \in SUBSET (0..MaxUid) : IsFiniteSet(S)
    /\ \A S \in SUBSET Uids : IsFiniteSet(S) /\ Cardinality(S) \in Nat
  <1>1. IsFiniteSet(0..MaxUid)
    BY FS_Interval, MailboxAssumption
  <1>2. ASSUME NEW S \in SUBSET (0..MaxUid) PROVE IsFiniteSet(S)
    BY <1>1, FS_Subset
  <1>3. ASSUME NEW S \in SUBSET Uids PROVE IsFiniteSet(S) /\ Cardinality(S) \in Nat
    <2>1. S \in SUBSET (0..MaxUid)
      BY MailboxAssumption DEF Uids
    <2>. QED BY <2>1, <1>2, FS_CardinalityType
  <1>. QED BY <1>2, <1>3

(* The sets {x : x > v}, v \in S, are ordered by inclusion, and the least of *)
(* them belongs to the highest element.                                      *)
LEMMA HighestIsTop ==
    ASSUME NEW S \in SUBSET (0..MaxUid), S # {}
    PROVE  Highest(S) \in S /\ \A v \in S : v <= Highest(S)
  <1>. DEFINE Above(v) == {x \in S : x > v}
              T == {Above(v) : v \in S}
  <1>0. S \subseteq Int
    BY MailboxAssumption
  <1>1. IsFiniteSet(S)
    BY FiniteUids
  <1>2. IsWellFoundedOn(StrictSubsetOrdering(S), FiniteSubsetsOf(S))
    BY FS_StrictSubsetOrderingWellFounded
  <1>3. T \subseteq FiniteSubsetsOf(S)
    BY <1>1, FS_FiniteSubsetsOfFinite
  <1>4. T # {}
    OBVIOUS
  <1>5. \E x \in T : \A y \in T : ~ (<<y, x>> \in StrictSubsetOrdering(S))
    <2>. HIDE DEF T
    <2>. QED BY <1>2, <1>3, <1>4, WFMin
  <1>6. PICK m \in S : \A v \in S : ~ (<<Above(v), Above(m)>> \in StrictSubsetOrdering(S))
    BY <1>5
  <1>7. ASSUME NEW v \in S, v > m PROVE FALSE
    <2>0. ASSUME NEW x \in S, x > v PROVE x > m
      BY <1>0, <1>7, <2>0
    <2>1. Above(v) \subseteq Above(m)
      BY <2>0
    <2>2. v \in Above(m) /\ v \notin Above(v)
      BY <1>0, <1>7
    <2>. QED BY <2>1, <2>2, <1>6 DEF StrictSubsetOrdering
  <1>8. \A v \in S : v <= m
    BY <1>0, <1>7
  <1>. QED BY <1>8 DEF Highest

(* _discover_new_uids looks at a prefix of the candidates, and at all of     *)
(* them when they fit.                                                       *)
LEMMA InspectedIsPrefix ==
    ASSUME NEW C \in SUBSET Uids, NEW n \in Nat
    PROVE  /\ Inspected(C, n) \subseteq C
           /\ \A u \in Inspected(C, n) : \A v \in C : v < u => v \in Inspected(C, n)
           /\ Cardinality(C) <= n => C \subseteq Inspected(C, n)
  <1>. DEFINE Before(u) == {v \in Fresh(C) : v < u}
  <1>0. C \subseteq Int
    BY MailboxAssumption DEF Uids
  <1>1. \A u : /\ Before(u) \in SUBSET C
               /\ Before(u) \in SUBSET Uids
    BY DEF Fresh
  <1>2. \A u : IsFiniteSet(Before(u)) /\ Cardinality(Before(u)) \in Nat
    BY <1>1, FiniteUids
  <1>3. ASSUME NEW u \in Inspected(C, n), NEW v \in C, v < u PROVE v \in Inspected(C, n)
    <2>1. u \in C /\ Cardinality(Before(u)) < n
      BY <1>3 DEF Inspected
    <2>0. ASSUME NEW x \in C, x < v PROVE x < u
      BY <1>0, <1>3, <2>0, <2>1
    <2>2. Before(v) \in SUBSET Before(u)
      BY <2>0 DEF Fresh
    <2>3. Cardinality(Before(v)) <= Cardinality(Before(u))
      BY <1>2, <2>2, FS_Subset
    <2>4. Cardinality(Before(v)) < n
      BY <1>2, <2>1, <2>3
    <2>. QED BY <2>4 DEF Inspected
  <1>4. ASSUME Cardinality(C) <= n, NEW u \in C PROVE u \in Inspected(C, n)
    <2>1. IsFiniteSet(C) /\ Cardinality(C) \in Nat
      BY FiniteUids
    <2>2. Before(u) \in SUBSET (C \ {u})
      BY <1>0 DEF Fresh
    <2>3. IsFiniteSet(C \ {u}) /\ Cardinality(C \ {u}) = Cardinality(C) - 1
      BY <2>1, FS_RemoveElement
    <2>4. Cardinality(Before(u)) <= Cardinality(C) - 1
      BY <2>2, <2>3, FS_Subset
    <2>5. Cardinality(Before(u)) < n
      BY <1>2, <1>4, <2>1, <2>4
    <2>. QED BY <2>5 DEF Inspected
  <1>. QED BY <1>3, <1>4 DEF Inspected
-----------------------------------------------------------------------------
Known == {u \in Uids : box[u] # "none"}
Discovered == [NoRecord EXCEPT !.status = "discovered"]

(* The rows the operators build are rows.                                    *)
LEMMA RebasedIsTyped ==
    ASSUME Typed
    PROVE  /\ Rebased.mode \in {"initializing", "incremental", "rebaseline"}
           /\ Rebased.epoch = epoch /\ Rebased.cursor \in 0..MaxUid
           /\ Rebased \in [mode : {"initializing", "incremental", "rebaseline"},
                           epoch : 0..MaxEpoch, cursor : 0..MaxUid]
           /\ Rebased.cursor \in {0, sync.cursor}
           /\ Rebased.mode = "incremental" => sync.mode = "incremental" /\ sync.epoch = epoch
                                              /\ Rebased.cursor = sync.cursor
  BY MailboxAssumption DEF Typed, TypeOK, PastEpochs, Rebased

LEMMA RowsAreTyped ==
    /\ NoRecord \in Row /\ Discovered \in Row
    /\ \A row \in Row : Settled(row) \in Row
    /\ \A row \in Row : row.attempts < MaxRetries => Spooled(row) \in Row
    /\ \A row \in Row : row.attempts < MaxRetries => FailedOnce(row) \in Row
  <1>0. /\ 0 \in 0..MaxRetries /\ 1 \in 0..MaxRetries
        /\ JobAttempts \in 0..NotEnqueued /\ NotEnqueued \in 0..NotEnqueued
        /\ \A n \in 0..MaxRetries : n < MaxRetries => n + 1 \in 0..MaxRetries
    BY MailboxAssumption DEF NotEnqueued
  <1>1. NoRecord \in Row /\ Discovered \in Row
    BY <1>0 DEF NoRecord, Discovered, Row
  <1>2. ASSUME NEW row \in Row PROVE Settled(row) \in Row
    <2>1. (IF row.attempts = 0 THEN 1 ELSE row.attempts) \in 0..MaxRetries
      BY <1>0 DEF Row
    <2>. QED BY <2>1 DEF Settled, Row
  <1>3. ASSUME NEW row \in Row, row.attempts < MaxRetries PROVE Spooled(row) \in Row
    <2>1. /\ row.attempts + 1 \in 0..MaxRetries
          /\ (IF row.tries = NotEnqueued THEN JobAttempts ELSE row.tries) \in 0..NotEnqueued
      BY <1>0, <1>3 DEF Row
    <2>. QED BY <2>1 DEF Spooled, Row
  <1>4. ASSUME NEW row \in Row, row.attempts < MaxRetries PROVE FailedOnce(row) \in Row
    <2>1. /\ row.attempts + 1 \in 0..MaxRetries
          /\ (row.attempts + 1 >= MaxRetries) \in BOOLEAN
          /\ (IF row.attempts + 1 < MaxRetries THEN "retry_wait" ELSE "failed")
               \in {"retry_wait", "failed"}
      BY <1>0, <1>4 DEF Row
    <2>. QED BY <2>1 DEF FailedOnce, Row
  <1>. QED BY <1>1, <1>2, <1>3, <1>4

(* What a poll does: it creates records for the UIDs it has looked at, takes *)
(* on UIDs that may be tried, and moves the cursor over UIDs that exist; in  *)
(* an incremental state every wanted mail the cursor newly passes, and on    *)
(* the way to one every wanted mail, has a record.                           *)
LEMMA DiscoverDoes ==
    ASSUME Typed, Discover
    PROVE  \E seen, todo, passed \in SUBSET Uids :
             /\ record' = [u \in Uids |-> IF u \in seen /\ record[u].status = "none"
                                          THEN Discovered ELSE record[u]]
             /\ fetch' = NoFetch \/ fetch' = [epoch |-> epoch, todo |-> todo]
             /\ \A u \in todo : /\ record[u].attempts < MaxRetries
                                /\ record[u].status \notin {"spooled", "done"}
             /\ passed \subseteq Known
             /\ sync'.mode \in {"initializing", "incremental", "rebaseline"}
             /\ sync' = [mode |-> sync'.mode, epoch |-> epoch,
                         cursor |-> Highest({Rebased.cursor} \cup passed)]
             /\ sync'.mode = "incremental" =>
                  \A u \in Uids : box[u] = "wanted" /\ u <= sync'.cursor =>
                     \/ record'[u].status # "none"
                     \/ Rebased.mode = "incremental" /\ u <= Rebased.cursor
  <1>. DEFINE s == Rebased
              baseline == s.mode # "incremental"
              limit == IF baseline THEN InitialLimit ELSE IncrementalLimit
              found == IF baseline THEN {u \in Uids : box[u] = "wanted"} ELSE Listed(s.cursor)
              excluded == IF baseline THEN {u \in Uids : box[u] = "same_day"} ELSE {}
              pending == FirstOf(Having("discovered"), limit)
              candidates == found \ (pending \cup DueRetries)
  <1>1. PICK retries \in SUBSET DueRetries :
          LET room == limit - Cardinality(pending)
              rest == room - Cardinality(retries)
              inspected == IF rest = 0 THEN {} ELSE Inspected(candidates, rest)
          IN
          /\ Cardinality(retries) <= room
          /\ record' = [u \in Uids |-> IF u \in inspected /\ record[u].status = "none"
                                       THEN Discovered ELSE record[u]]
          /\ sync' = [mode |-> IF baseline /\ rest > 0 /\ Cardinality(candidates) <= rest
                               THEN "incremental" ELSE s.mode,
                      epoch |-> epoch,
                      cursor |-> RecordDiscovery(s.cursor, excluded \cup inspected)]
          /\ fetch' = LET todo == pending \cup retries \cup Fresh(inspected) IN
                      IF todo = {} THEN NoFetch ELSE [epoch |-> epoch, todo |-> todo]
    BY DEF Discover, Discovered
  <1>. DEFINE room == limit - Cardinality(pending)
              rest == room - Cardinality(retries)
              inspected == IF rest = 0 THEN {} ELSE Inspected(candidates, rest)
              todo == pending \cup retries \cup Fresh(inspected)
  <1>2. /\ pending \in SUBSET Uids /\ pending \subseteq Having("discovered")
        /\ retries \in SUBSET Uids
        /\ DueRetries \in SUBSET Uids
    BY DEF FirstOf, Having, DueRetries
  <1>3. candidates \in SUBSET Uids /\ candidates \subseteq Known /\ excluded \subseteq Known
    BY MailboxAssumption DEF Listed, Present, Known, AllAges
  <1>4. rest \in Nat
    <2>1. limit \in Nat /\ Cardinality(pending) \in Nat /\ Cardinality(retries) \in Nat
      BY <1>2, FiniteUids, MailboxAssumption
    <2>2. Cardinality(retries) <= room
      BY <1>1
    <2>. HIDE DEF limit, pending
    <2>. QED BY <2>1, <2>2
  <1>5. inspected \subseteq candidates
    <2>. HIDE DEF candidates, rest
    <2>. QED BY <1>3, <1>4, InspectedIsPrefix
  <1>6. todo \in SUBSET Uids /\ \A u \in todo : /\ record[u].attempts < MaxRetries
                                               /\ record[u].status \notin {"spooled", "done"}
    <2>1. \A u \in pending \cup Fresh(inspected) :
             u \in Uids /\ record[u].status \in {"none", "discovered"}
      BY <1>2, <1>3, <1>5 DEF Fresh, Having
    <2>2. \A u \in pending \cup Fresh(inspected) : record[u].attempts = 0
      BY <2>1 DEF Typed, Untouched
    <2>3. \A u \in retries : u \in Uids /\ record[u].attempts < MaxRetries
                             /\ record[u].status \in {"retry_wait", "failed"}
      BY DEF DueRetries, Having
    <2>. HIDE DEF pending, inspected
    <2>. QED BY <2>1, <2>2, <2>3, MailboxAssumption
  <1>7. fetch' = NoFetch \/ fetch' = [epoch |-> epoch, todo |-> todo]
    BY <1>1
  <1>8. \A u \in Uids : box[u] = "wanted" /\ u \in pending \cup DueRetries \cup inspected =>
           record'[u].status # "none"
    <2>1. \A u \in pending \cup DueRetries : record[u].status # "none"
      BY <1>2 DEF DueRetries, Having
    <2>2. record' = [u \in Uids |-> IF u \in inspected /\ record[u].status = "none"
                                    THEN Discovered ELSE record[u]]
      BY <1>1
    <2>3. Discovered.status = "discovered"
      BY DEF Discovered, NoRecord
    <2>. HIDE DEF pending, inspected
    <2>. QED BY <2>1, <2>2, <2>3
  <1>9. ASSUME sync'.mode = "incremental", NEW u \in Uids, box[u] = "wanted", u <= sync'.cursor
        PROVE  \/ record'[u].status # "none"
               \/ Rebased.mode = "incremental" /\ u <= Rebased.cursor
    <2>1. CASE baseline
      <3>1. rest > 0 /\ Cardinality(candidates) <= rest
        BY <1>1, <1>9, <2>1
      <3>2. candidates \subseteq inspected
        <4>. HIDE DEF candidates, rest
        <4>. QED BY <3>1, <1>3, <1>4, InspectedIsPrefix
      <3>3. u \in candidates \cup pending \cup DueRetries
        BY <2>1, <1>9
      <3>. QED BY <1>8, <1>9, <3>2, <3>3
    <2>2. CASE ~baseline /\ u > Rebased.cursor
      <3>1. u \in Present
        BY <1>9 DEF Present, Typed, TypeOK
      <3>2. u \in candidates \cup pending \cup DueRetries
        BY <2>2, <3>1 DEF Listed
      <3>3. ASSUME u \in candidates PROVE u \in inspected
        <4>. DEFINE top == Highest({s.cursor} \cup inspected)
        <4>1. sync'.cursor = top /\ u <= top
          BY <1>1, <1>9, <2>2 DEF RecordDiscovery
        <4>2. {s.cursor} \cup inspected \in SUBSET (0..MaxUid)
          BY <1>3, <1>5, RebasedIsTyped, MailboxAssumption DEF Uids
        <4>3. top \in {s.cursor} \cup inspected
          BY <4>2, HighestIsTop
        <4>4. top \in Int /\ s.cursor \in Int /\ u \in Int
          <5>1. s.cursor \in 0..MaxUid /\ top \in 0..MaxUid
            BY <4>2, <4>3
          <5>2. 0..MaxUid \subseteq Int /\ Uids \subseteq Int
            BY MailboxAssumption DEF Uids
          <5>. QED BY <5>1, <5>2
        <4>5. top # s.cursor
          BY <2>2, <4>1, <4>4
        <4>6. top \in Inspected(candidates, rest) /\ inspected = Inspected(candidates, rest)
          BY <4>3, <4>5
        <4>7. u = top \/ u < top
          BY <4>1, <4>4
        <4>. HIDE DEF candidates, rest, inspected, top
        <4>. QED BY <1>3, <1>4, <3>3, <4>3, <4>5, <4>6, <4>7, InspectedIsPrefix
      <3>. QED BY <1>8, <1>9, <3>2, <3>3
    <2>3. Rebased.cursor \in Int /\ u \in Int
      BY RebasedIsTyped, MailboxAssumption DEF Uids
    <2>. QED BY <2>1, <2>2, <2>3
  <1>10. inspected \in SUBSET Uids /\ excluded \cup inspected \in SUBSET Uids
         /\ excluded \cup inspected \subseteq Known
    BY <1>3, <1>5 DEF Known
  <1>11. /\ sync'.mode \in {"initializing", "incremental", "rebaseline"}
         /\ sync' = [mode |-> sync'.mode, epoch |-> epoch,
                     cursor |-> Highest({Rebased.cursor} \cup (excluded \cup inspected))]
    BY <1>1, RebasedIsTyped DEF RecordDiscovery
  <1>12. record' = [u \in Uids |-> IF u \in inspected /\ record[u].status = "none"
                                   THEN Discovered ELSE record[u]]
    BY <1>1
  <1>. HIDE DEF inspected, excluded, todo
  <1>. QED BY <1>6, <1>7, <1>9, <1>10, <1>11, <1>12
-----------------------------------------------------------------------------
(* Type correctness.                                                         *)
LEMMA InitTyped == Init => Typed
  <1>. SUFFICES ASSUME Init PROVE Typed
    OBVIOUS
  <1>1. NoRecord \in Row /\ record \in [Uids -> Row]
    BY RowsAreTyped DEF Init
  <1>2. 0 \in 0..MaxEpoch /\ 0 \in 0..MaxUid /\ 1 \in 1..MaxEpoch
    BY MailboxAssumption
  <1>3. TypeOK
    BY <1>1, <1>2 DEF Init, TypeOK, Row, NoFetch
  <1>. QED BY <1>3, MailboxAssumption DEF Init, Typed, Untouched, WithinLimit, PastEpochs,
                                         NoRecord, NoFetch

(* A step that changes one row, and may take its UID off the list.           *)
LEMMA UpdateTyped ==
    ASSUME Typed, NEW u \in Uids, NEW row \in Row, Update(u, row),
           row.status \in {"none", "discovered"} => row.attempts = 0 /\ row.tries = NotEnqueued,
           fetch.epoch = epoch /\ u \in fetch'.todo => row.attempts < MaxRetries,
           UNCHANGED fetch \/ Done(u), UNCHANGED <<box, epoch, sync>>
    PROVE  Typed'
  <1>1. record' \in [Uids -> Row]
    BY DEF Update, Typed, TypeOK, Row
  <1>2. /\ fetch' \in [epoch : 0..MaxEpoch, todo : SUBSET Uids]
        /\ fetch'.epoch \in {0, fetch.epoch} /\ fetch'.todo \subseteq fetch.todo
        /\ fetch'.epoch # fetch.epoch => fetch'.todo = {}
    BY MailboxAssumption DEF Done, NoFetch, Typed, TypeOK
  <1>3. TypeOK'
    BY <1>1, <1>2 DEF Typed, TypeOK, Row
  <1>4. Untouched'
    BY DEF Update, Typed, TypeOK, Untouched
  <1>5. WithinLimit'
    BY <1>2 DEF Update, Typed, TypeOK, WithinLimit
  <1>6. PastEpochs'
    BY <1>2, MailboxAssumption DEF Typed, TypeOK, PastEpochs
  <1>. QED BY <1>3, <1>4, <1>5, <1>6 DEF Typed

LEMMA TakenIsTyped ==
    ASSUME Typed, NEW u \in Uids, Take(u) \/ TakeFails(u)
    PROVE  Typed'
  <1>1. record[u] \in Row /\ u \in fetch.todo
    BY DEF Typed, TypeOK, Row, Take, TakeFails
  <1>2. u \notin fetch'.todo
    BY DEF Take, TakeFails, Done, NoFetch, Typed, TypeOK
  <1>3. CASE fetch.epoch = epoch
    <2>1. record[u].attempts < MaxRetries
      BY <1>1, <1>3 DEF Typed, WithinLimit
    <2>2. /\ Spooled(record[u]).status = "spooled"
          /\ FailedOnce(record[u]).status \in {"retry_wait", "failed"}
          /\ Settled(record[u]).status = "done"
      BY <1>1 DEF Spooled, FailedOnce, Settled, Row
    <2>3. PICK row \in {Spooled(record[u]), Settled(record[u]), FailedOnce(record[u])} :
             Update(u, row)
      BY <1>3 DEF Take, TakeFails
    <2>4. row \in Row /\ row.status \notin {"none", "discovered"}
      BY <1>1, <2>1, <2>2, RowsAreTyped
    <2>. QED BY <1>2, <2>3, <2>4, UpdateTyped DEF Take, TakeFails
  <1>4. CASE fetch.epoch # epoch
    <2>1. TakeFails(u) /\ UNCHANGED <<box, epoch, sync, record>>
      BY <1>4 DEF Take, TakeFails
    <2>2. /\ fetch' \in [epoch : 0..MaxEpoch, todo : SUBSET Uids]
          /\ fetch'.epoch \in {0, fetch.epoch}
      BY <2>1, MailboxAssumption DEF TakeFails, Done, NoFetch, Typed, TypeOK
    <2>3. epoch # 0 /\ fetch'.epoch # epoch /\ fetch'.epoch <= epoch
      BY <1>4, <2>2, MailboxAssumption DEF Typed, TypeOK, PastEpochs
    <2>. QED BY <2>1, <2>2, <2>3 DEF Typed, TypeOK, Untouched, WithinLimit, PastEpochs
  <1>. QED BY <1>3, <1>4

LEMMA DiscoverTyped == ASSUME Typed, Discover PROVE Typed'
  <1>1. PICK seen, todo, passed \in SUBSET Uids :
             /\ record' = [u \in Uids |-> IF u \in seen /\ record[u].status = "none"
                                          THEN Discovered ELSE record[u]]
             /\ fetch' = NoFetch \/ fetch' = [epoch |-> epoch, todo |-> todo]
             /\ \A u \in todo : /\ record[u].attempts < MaxRetries
                                /\ record[u].status \notin {"spooled", "done"}
             /\ sync'.mode \in {"initializing", "incremental", "rebaseline"}
             /\ sync' = [mode |-> sync'.mode, epoch |-> epoch,
                         cursor |-> Highest({Rebased.cursor} \cup passed)]
    BY DiscoverDoes
  <1>2. UNCHANGED <<box, epoch>>
    BY DEF Discover
  <1>3. /\ Discovered \in Row /\ Discovered.status = "discovered"
        /\ Discovered.attempts = 0 /\ Discovered.tries = NotEnqueued
    BY RowsAreTyped DEF Discovered, NoRecord
  <1>4. record' \in [Uids -> Row] /\ Untouched'
    BY <1>1, <1>3 DEF Typed, TypeOK, Row, Untouched
  <1>5. Highest({Rebased.cursor} \cup passed) \in 0..MaxUid
    <2>1. Uids \subseteq 0..MaxUid
      BY MailboxAssumption DEF Uids
    <2>2. {Rebased.cursor} \cup passed \in SUBSET (0..MaxUid)
      BY <1>1, <2>1, RebasedIsTyped
    <2>. QED BY <2>2, HighestIsTop
  <1>6. sync' \in [mode : {"initializing", "incremental", "rebaseline"},
                   epoch : 0..MaxEpoch, cursor : 0..MaxUid]
        /\ sync'.epoch = epoch
    <2>1. epoch \in 0..MaxEpoch
      BY MailboxAssumption DEF Typed, TypeOK
    <2>2. PICK m \in {"initializing", "incremental", "rebaseline"}, c \in 0..MaxUid :
             sync' = [mode |-> m, epoch |-> epoch, cursor |-> c]
      BY <1>1, <1>5
    <2>. QED BY <2>1, <2>2
  <1>7. fetch' \in [epoch : 0..MaxEpoch, todo : SUBSET Uids]
        /\ fetch'.epoch \in {0, epoch} /\ fetch'.todo \subseteq todo
    BY <1>1, MailboxAssumption DEF NoFetch, Typed, TypeOK
  <1>8. WithinLimit'
    <2>1. \A u \in todo : record'[u].attempts < MaxRetries
      BY <1>1, <1>3, MailboxAssumption
    <2>. QED BY <2>1, <1>7 DEF WithinLimit
  <1>9. PastEpochs'
    BY <1>2, <1>6, <1>7, MailboxAssumption DEF Typed, TypeOK, PastEpochs
  <1>10. TypeOK'
    BY <1>2, <1>4, <1>6, <1>7 DEF Typed, TypeOK, Row
  <1>. QED BY <1>4, <1>8, <1>9, <1>10 DEF Typed

LEMMA NextTyped == Typed /\ [Next]_vars => Typed'
  <1>. SUFFICES ASSUME Typed, [Next]_vars PROVE Typed'
    OBVIOUS
  <1>1. ASSUME NEW u \in Uids, NEW age \in Ages, Arrive(u, age) PROVE Typed'
    BY <1>1 DEF Arrive, Typed, TypeOK, Untouched, WithinLimit, PastEpochs
  <1>2. ASSUME NEW u \in Uids, Expunge(u) PROVE Typed'
    BY <1>2 DEF Expunge, Typed, TypeOK, Untouched, WithinLimit, PastEpochs
  <1>3. ASSUME NEW u \in Uids, FetchByMessage(u) PROVE Typed'
    <2>1. record[u].attempts < MaxRetries
      BY <1>3, MailboxAssumption DEF FetchByMessage, DueRetries, Typed, Untouched
    <2>2. epoch \in 0..MaxEpoch
      BY MailboxAssumption DEF Typed, TypeOK
    <2>3. fetch' \in [epoch : 0..MaxEpoch, todo : SUBSET Uids]
      BY <1>3, <2>2 DEF FetchByMessage
    <2>. QED BY <1>3, <2>1, <2>2, <2>3
             DEF FetchByMessage, Typed, TypeOK, Untouched, WithinLimit, PastEpochs
  <1>4. ASSUME NEW u \in Uids, Take(u) \/ TakeFails(u) PROVE Typed'
    BY <1>4, TakenIsTyped
  <1>5. ASSUME NEW u \in Uids, Processed(u) PROVE Typed'
    <2>0. 0 \in 0..NotEnqueued
      BY MailboxAssumption DEF NotEnqueued
    <2>1. [record[u] EXCEPT !.status = "done", !.tries = 0] \in Row
      BY <2>0 DEF Typed, TypeOK, Row
    <2>2. fetch.epoch = epoch /\ u \in fetch.todo => record[u].attempts < MaxRetries
      BY DEF Typed, WithinLimit
    <2>. QED BY <1>5, <2>1, <2>2, UpdateTyped DEF Processed, Typed, TypeOK
  <1>6. ASSUME NEW u \in Uids, AttemptFails(u) PROVE Typed'
    <2>1. PICK status \in {record[u].status, "spooled", "retry_wait"} :
             Update(u, [record[u] EXCEPT !.status = status, !.tries = @ - 1])
      BY <1>6 DEF AttemptFails
    <2>2. record[u].tries \in 1..JobAttempts /\ record[u].tries - 1 \in 0..NotEnqueued
          /\ record[u].tries # NotEnqueued
      BY <1>6, MailboxAssumption DEF AttemptFails, NotEnqueued
    <2>3. record[u].status \notin {"none", "discovered"}
      BY <2>2 DEF Typed, Untouched
    <2>. DEFINE row == [record[u] EXCEPT !.status = status, !.tries = @ - 1]
    <2>4. row \in Row /\ row.status = status /\ row.attempts = record[u].attempts
      BY <2>2 DEF Typed, TypeOK, Row
    <2>5. fetch.epoch = epoch /\ u \in fetch.todo => record[u].attempts < MaxRetries
      BY DEF Typed, WithinLimit
    <2>6. status \notin {"none", "discovered"}
      BY <2>3
    <2>7. UNCHANGED <<box, epoch, sync, fetch>>
      BY <1>6 DEF AttemptFails
    <2>8. Update(u, row)
      BY <2>1
    <2>. HIDE DEF row
    <2>. QED BY <2>4, <2>5, <2>6, <2>7, <2>8, UpdateTyped
  <1>7. ASSUME NEW u \in Uids, ComesDue(u) PROVE Typed'
    <2>1. [record[u] EXCEPT !.due = TRUE] \in Row
      BY DEF Typed, TypeOK, Row
    <2>2. fetch.epoch = epoch /\ u \in fetch.todo => record[u].attempts < MaxRetries
      BY DEF Typed, WithinLimit
    <2>. QED BY <1>7, <2>1, <2>2, UpdateTyped DEF ComesDue, Typed, TypeOK
  <1>8. CASE Renumber
    <2>1. epoch' \in 1..MaxEpoch /\ epoch' = epoch + 1
      BY <1>8, MailboxAssumption DEF Renumber, Typed, TypeOK
    <2>2. record' \in [Uids -> Row]
      BY <1>8, RowsAreTyped DEF Renumber
    <2>3. TypeOK' /\ Untouched'
      BY <1>8, <2>1, <2>2 DEF Renumber, NoRecord, Typed, TypeOK, Row, Untouched
    <2>4. fetch.epoch < epoch' /\ sync.epoch < epoch'
      BY <2>1, MailboxAssumption DEF Typed, TypeOK, PastEpochs
    <2>. QED BY <1>8, <2>3, <2>4 DEF Renumber, Typed, TypeOK, WithinLimit, PastEpochs
  <1>9. CASE Discover
    BY <1>9, DiscoverTyped
  <1>10. CASE DiscoverFails
    <2>1. sync' \in [mode : {"initializing", "incremental", "rebaseline"},
                     epoch : 0..MaxEpoch, cursor : 0..MaxUid] /\ sync'.epoch = epoch
      BY <1>10, RebasedIsTyped DEF DiscoverFails
    <2>. QED BY <1>10, <2>1, MailboxAssumption
             DEF DiscoverFails, Typed, TypeOK, Untouched, WithinLimit, PastEpochs
  <1>11. CASE Crash
    <2>1. fetch'.epoch = 0 /\ fetch'.todo = {} /\ 0 \in 0..MaxEpoch
      BY <1>11, MailboxAssumption DEF Crash, NoFetch
    <2>. QED BY <1>11, <2>1, MailboxAssumption
             DEF Crash, NoFetch, Typed, TypeOK, Untouched, WithinLimit, PastEpochs
  <1>12. CASE UNCHANGED vars
    BY <1>12 DEF vars, Typed, TypeOK, Untouched, WithinLimit, PastEpochs
  <1>. QED BY <1>1, <1>2, <1>3, <1>4, <1>5, <1>6, <1>7, <1>8, <1>9, <1>10, <1>11, <1>12 DEF Next

(* Cursor, records and fetches keep their shape, and no record has more      *)
(* attempts than IMAP_MAX_RETRIES: a fetch only takes on what may be tried   *)
(* once more, and nothing raises the counter of a record it has taken on.    *)
THEOREM TypeCorrect == Spec => []TypeOK
  <1>1. Typed => TypeOK
    BY DEF Typed
  <1>. QED BY InitTyped, NextTyped, <1>1, PTL DEF Spec
-----------------------------------------------------------------------------
(* The cursor passes no wanted mail.                                         *)
LEMMA InitCovered == Init => Covered
  <1>. SUFFICES ASSUME Init PROVE Covered
    OBVIOUS
  <1>1. \A u \in Uids : ~(u <= sync.cursor)
    BY MailboxAssumption DEF Init, Uids
  <1>2. ASSUME NEW u \in Uids, NEW v \in Uids, v < u, box[u] # "none" PROVE box[v] # "none"
    BY <1>2, MailboxAssumption DEF Init, Uids
  <1>. QED BY <1>1, <1>2, InitTyped DEF Covered, Ascending, NoGap

(* A step that loses no record and leaves cursor and folder alone.           *)
LEMMA StillCovered ==
    ASSUME Covered, UNCHANGED <<box, epoch, sync>>,
           \A u \in Uids : record[u].status # "none" => record'[u].status # "none"
    PROVE  Ascending' /\ NoGap'
  BY DEF Covered, Ascending, NoGap

LEMMA DiscoverCovers == ASSUME Covered, Discover PROVE Ascending' /\ NoGap'
  <1>0. Typed
    BY DEF Covered
  <1>1. PICK seen, passed \in SUBSET Uids :
             /\ record' = [u \in Uids |-> IF u \in seen /\ record[u].status = "none"
                                          THEN Discovered ELSE record[u]]
             /\ passed \subseteq Known
             /\ sync' = [mode |-> sync'.mode, epoch |-> epoch,
                         cursor |-> Highest({Rebased.cursor} \cup passed)]
             /\ sync'.mode = "incremental" =>
                  \A u \in Uids : box[u] = "wanted" /\ u <= sync'.cursor =>
                     \/ record'[u].status # "none"
                     \/ Rebased.mode = "incremental" /\ u <= Rebased.cursor
    BY <1>0, DiscoverDoes
  <1>2. UNCHANGED <<box, epoch>>
    BY DEF Discover
  <1>3. \A u \in Uids : record[u].status # "none" => record'[u].status # "none"
    BY <1>1
  <1>4. NoGap'
    <2>1. ASSUME NEW u \in Uids, Rebased.mode = "incremental", u <= Rebased.cursor,
                 box[u] = "wanted"
          PROVE  record[u].status # "none"
      <3>1. sync.mode = "incremental" /\ sync.epoch = epoch /\ u <= sync.cursor
        BY <1>0, <2>1, RebasedIsTyped
      <3>. QED BY <2>1, <3>1 DEF Covered, NoGap
    <2>. QED BY <1>1, <1>2, <1>3, <2>1 DEF NoGap
  <1>5. ASSUME NEW u \in Uids, u <= sync'.cursor PROVE box[u] # "none"
    <2>. DEFINE top == Highest({Rebased.cursor} \cup passed)
    <2>1. Uids \subseteq 0..MaxUid /\ 0..MaxUid \subseteq Int /\ \A v \in Uids : v > 0
      BY MailboxAssumption DEF Uids
    <2>2. {Rebased.cursor} \cup passed \in SUBSET (0..MaxUid)
      BY <1>0, <1>1, <2>1, RebasedIsTyped
    <2>3. top \in {Rebased.cursor} \cup passed /\ u <= top
      BY <1>1, <1>5, <2>2, HighestIsTop
    <2>4. CASE top = Rebased.cursor
      BY <1>0, <2>1, <2>3, <2>4, RebasedIsTyped DEF Covered, Ascending
    <2>5. CASE top \in passed
      <3>1. top \in Uids /\ box[top] # "none"
        BY <1>1, <2>5 DEF Known
      <3>. HIDE DEF top
      <3>2. u = top \/ u < top
        BY <2>1, <2>3, <3>1
      <3>. QED BY <3>1, <3>2 DEF Covered, Ascending
    <2>. QED BY <2>3, <2>4, <2>5
  <1>6. Ascending'
    BY <1>2, <1>5 DEF Covered, Ascending
  <1>. QED BY <1>4, <1>6

LEMMA NextCovered == Covered /\ [Next]_vars => Covered'
  <1>. SUFFICES ASSUME Covered, [Next]_vars PROVE Ascending' /\ NoGap'
    BY NextTyped DEF Covered
  <1>0. Typed
    BY DEF Covered
  <1>1. ASSUME NEW u \in Uids, NEW age \in Ages, Arrive(u, age) PROVE Ascending' /\ NoGap'
    <2>1. ~(u <= sync.cursor)
      BY <1>1 DEF Arrive, Covered, Ascending
    <2>2. age # "none"
      BY MailboxAssumption DEF AllAges
    <2>3. Uids \subseteq Int
      BY MailboxAssumption DEF Uids
    <2>4. \A v \in Uids : box'[v] # "none" <=> (v = u \/ box[v] # "none")
      BY <1>0, <1>1, <2>2 DEF Arrive, Typed, TypeOK
    <2>5. Ascending'
      BY <1>1, <2>3, <2>4 DEF Arrive, Covered, Ascending
    <2>6. NoGap'
      BY <1>0, <1>1, <2>1 DEF Arrive, Covered, NoGap, Typed, TypeOK
    <2>. QED BY <2>5, <2>6
  <1>2. ASSUME NEW u \in Uids, Expunge(u) PROVE Ascending' /\ NoGap'
    <2>1. box[u] # "none"
      BY <1>2, MailboxAssumption DEF Expunge, Present, AllAges
    <2>. QED BY <1>0, <1>2, <2>1 DEF Expunge, Covered, Ascending, NoGap, Typed, TypeOK
  <1>3. ASSUME NEW u \in Uids, FetchByMessage(u) PROVE Ascending' /\ NoGap'
    BY <1>3, StillCovered DEF FetchByMessage
  <1>4. ASSUME NEW u \in Uids, NEW row, Update(u, row), row.status # "none",
               UNCHANGED <<box, epoch, sync>>
        PROVE  Ascending' /\ NoGap'
    BY <1>0, <1>4, StillCovered DEF Update, Typed, TypeOK
  <1>5. ASSUME NEW u \in Uids, Take(u) \/ TakeFails(u) PROVE Ascending' /\ NoGap'
    <2>1. /\ Spooled(record[u]).status # "none"
          /\ FailedOnce(record[u]).status # "none"
          /\ Settled(record[u]).status # "none"
      BY <1>0 DEF Spooled, FailedOnce, Settled, Typed, TypeOK
    <2>2. CASE UNCHANGED record
      BY <1>5, <2>2, StillCovered DEF Take, TakeFails
    <2>. QED BY <1>4, <1>5, <2>1, <2>2 DEF Take, TakeFails
  <1>6. ASSUME NEW u \in Uids, Processed(u) PROVE Ascending' /\ NoGap'
    <2>1. [record[u] EXCEPT !.status = "done", !.tries = 0].status # "none"
      BY <1>0 DEF Typed, TypeOK
    <2>. QED BY <1>4, <1>6, <2>1 DEF Processed
  <1>7. ASSUME NEW u \in Uids, AttemptFails(u) PROVE Ascending' /\ NoGap'
    <2>1. record[u].status # "none"
      BY <1>0, <1>7, MailboxAssumption DEF AttemptFails, NotEnqueued, Typed, Untouched
    <2>2. \A status \in {record[u].status, "spooled", "retry_wait"} :
             [record[u] EXCEPT !.status = status, !.tries = @ - 1].status # "none"
      BY <1>0, <2>1 DEF Typed, TypeOK
    <2>. QED BY <1>4, <1>7, <2>2 DEF AttemptFails
  <1>8. ASSUME NEW u \in Uids, ComesDue(u) PROVE Ascending' /\ NoGap'
    <2>1. [record[u] EXCEPT !.due = TRUE].status # "none"
      BY <1>0, <1>8 DEF ComesDue, Typed, TypeOK
    <2>. QED BY <1>4, <1>8, <2>1 DEF ComesDue
  <1>9. CASE Renumber
    <2>1. sync'.epoch # epoch'
      BY <1>0, <1>9, MailboxAssumption DEF Renumber, Typed, TypeOK, PastEpochs
    <2>. QED BY <1>9, <2>1 DEF Renumber, Covered, Ascending, NoGap
  <1>10. CASE Discover
    BY <1>10, DiscoverCovers
  <1>11. CASE DiscoverFails
    <2>1. \A u \in Uids : ~(u <= 0)
      BY MailboxAssumption DEF Uids
    <2>. QED BY <1>0, <1>11, <2>1, RebasedIsTyped DEF DiscoverFails, Covered, Ascending, NoGap
  <1>12. CASE Crash
    BY <1>12, StillCovered DEF Crash
  <1>13. CASE UNCHANGED vars
    BY <1>13, StillCovered DEF vars
  <1>. QED BY <1>1, <1>2, <1>3, <1>5, <1>6, <1>7, <1>8, <1>9, <1>10, <1>11, <1>12, <1>13 DEF Next

(* Once the folder is followed by its cursor alone, no wanted mail at or     *)
(* below the cursor is without a record.                                     *)
THEOREM NothingPassed == Spec => []NoGap
  <1>1. Covered => NoGap
    BY DEF Covered
  <1>. QED BY InitCovered, NextCovered, <1>1, PTL DEF Spec

(* A mail that is being processed or done with is not selected again: a poll *)
(* and an operator's fetch take on nothing else.                             *)
LEMMA SelectsOthers ==
    ASSUME Typed, [Next]_vars, NEW u \in Uids, record[u].status \in {"spooled", "done"},
           u \in fetch'.todo
    PROVE  u \in fetch.todo
  <1>1. CASE Discover
    <2>1. PICK todo \in SUBSET Uids :
             /\ fetch' = NoFetch \/ fetch' = [epoch |-> epoch, todo |-> todo]
             /\ \A x \in todo : record[x].status \notin {"spooled", "done"}
      BY <1>1, DiscoverDoes
    <2>. QED BY <2>1 DEF NoFetch
  <1>2. ASSUME NEW x \in Uids, FetchByMessage(x) PROVE u \in fetch.todo
    BY <1>2 DEF FetchByMessage, DueRetries, Having
  <1>3. ASSUME NEW x, Done(x) PROVE u \in fetch.todo
    BY <1>3 DEF Done, NoFetch, Typed, TypeOK
  <1>4. CASE Crash
    BY <1>4 DEF Crash, NoFetch
  <1>5. CASE UNCHANGED fetch
    BY <1>5
  <1>. QED BY <1>1, <1>2, <1>3, <1>4, <1>5
           DEF Next, vars, Arrive, Expunge, Renumber, DiscoverFails, Take, TakeFails,
               Processed, AttemptFails, ComesDue

THEOREM TakenOnce == Spec => NotSelectedAgain
  <1>1. Typed /\ [Next]_vars =>
          [\A u \in Uids : record[u].status \in {"spooled", "done"} /\ epoch' = epoch =>
              (u \in fetch'.todo => u \in fetch.todo)]_vars
    BY SelectsOthers
  <1>. QED BY InitTyped, NextTyped, <1>1, PTL DEF Spec, NotSelectedAgain
=============================================================================
