--------------------------- MODULE SmtpPoolProofs ----------------------------
(***************************************************************************)
(* Proofs about SmtpPool, for every number of threads, connections and     *)
(* mails and every limit: the results that threads give are true, and the  *)
(* server gets no more mails in a minute than the limit and the pool let   *)
(* through.                                                                *)
(***************************************************************************)
EXTENDS SmtpPool, FiniteSetTheorems, SequenceTheorems, TLAPS

HasSlot(t) == thread[t].at \in {"rate", "connect", "send"}
Passed(t) == thread[t].at \in {"connect", "send"}

(* A thread has a slot from the time it was given one until the send ended.  *)
SlotGiven ==
    \A t \in Threads : IF HasSlot(t) THEN thread[t].slot \in Slots ELSE thread[t].slot = 0

(* Nobody else has it, and it is not available.                              *)
SlotIsMine ==
    \A t, u \in Threads : HasSlot(t) /\ HasSlot(u) /\ thread[t].slot = thread[u].slot => t = u

AvailableIsFree ==
    /\ \A t \in Threads : \A i \in 1..Len(available) : HasSlot(t) => available[i] # thread[t].slot
    /\ \A i, j \in 1..Len(available) : available[i] = available[j] => i = j

(* Who stands in the line waits, and stands in it once.                      *)
LineIsTrue ==
    /\ \A i \in 1..Len(waiters) : thread[waiters[i]].at = "waiting"
    /\ \A i, j \in 1..Len(waiters) : waiters[i] = waiters[j] => i = j

(* Each thread has a mail of its own, that the server does not have yet.     *)
MailIsMine ==
    /\ \A t \in Threads : thread[t].at # "idle" =>
          /\ thread[t].mail \in 1..mails
          /\ sent[thread[t].mail] = Minute
          /\ ~Passed(t) => granted[thread[t].mail] = Minute
    /\ \A t, u \in Threads : /\ thread[t].at # "idle" /\ thread[u].at # "idle"
                             /\ thread[t].mail = thread[u].mail
                             => t = u
    /\ \A m \in Mails : m > mails => granted[m] = Minute /\ sent[m] = Minute

(* A connection that a mail is put to has room for it.                       *)
RoomLeft ==
    \A t \in Threads : thread[t].at = "send" => slot[thread[t].slot].count < PerConnection

Owned == SlotGiven /\ SlotIsMine /\ AvailableIsFree /\ LineIsTrue /\ MailIsMine /\ RoomLeft

(* The mails that had been let through and not yet put to the server, a time *)
(* ago: each had a slot then.                                                *)
Passing == {m \in Mails : \E t \in Threads : Passed(t) /\ thread[t].mail = m}
UnderWay(ago) == {m \in Mails : granted[m] >= ago /\ (sent[m] < ago \/ m \in Passing)}

RateKept == Cardinality(Recent(granted)) <= Limit
SlotsBound == \A ago \in 0..Minute : Cardinality(UnderWay(ago)) <= Size


-----------------------------------------------------------------------------
(* Types.                                                                    *)
LEMMA Numbers ==
    /\ Size \in Nat \ {0} /\ PerConnection \in Nat \ {0} /\ MaxAge \in Nat \ {0}
    /\ MaxIdle \in Nat \ {0} /\ Limit \in Nat \ {0} /\ Minute \in Nat \ {0}
    /\ MaxMails \in Nat \ {0}
  BY BoundsAssumption

(* What a thread does next is a state of a sender.                           *)
LEMMA SenderRow ==
    ASSUME NEW where \in {"idle", "waiting", "notified", "rate", "connect", "send"},
           NEW s \in 0..Size, NEW m \in 0..MaxMails
    PROVE  /\ At(where, s, m) \in Sender
           /\ At(where, s, m).at = where /\ At(where, s, m).slot = s /\ At(where, s, m).mail = m
  BY DEF At, Sender

LEMMA SenderMoves ==
    ASSUME NEW row \in Sender,
           NEW where \in {"idle", "waiting", "notified", "rate", "connect", "send"}
    PROVE  /\ [row EXCEPT !.at = where] \in Sender
           /\ [row EXCEPT !.at = where].at = where
           /\ [row EXCEPT !.at = where].slot = row.slot
           /\ [row EXCEPT !.at = where].mail = row.mail
  BY DEF Sender

LEMMA IdleRow == Idle \in Sender /\ Idle.at = "idle" /\ Idle.slot = 0 /\ Idle.mail = 0
  BY Numbers DEF Idle, Sender

LEMMA Connections == Closed \in Connection /\ Fresh \in Connection /\ Fresh.count = 0
  <1>1. Closed = [open |-> FALSE, age |-> 0, idle |-> 0, count |-> 0]  BY DEF Closed
  <1>2. Closed \in Connection  BY <1>1, Numbers DEF Connection
  <1>3. Closed.count = 0  BY <1>1
  <1>4. Fresh = [Closed EXCEPT !.open = TRUE]  BY DEF Fresh
  <1> HIDE DEF Closed
  <1>5. Fresh \in Connection /\ Fresh.count = 0  BY <1>2, <1>3, <1>4 DEF Connection
  <1> QED  BY <1>2, <1>5

LEMMA MailsFinite == IsFiniteSet(Mails) /\ Mails \subseteq Nat
  <1>1. MaxMails \in Nat  BY Numbers
  <1> QED  BY <1>1, FS_Interval DEF Mails

(* A set of mails within another is no larger.                               *)
LEMMA Fewer ==
    ASSUME NEW S \in SUBSET Mails, NEW T \in SUBSET S
    PROVE  Cardinality(T) \in Nat /\ Cardinality(S) \in Nat /\ Cardinality(T) <= Cardinality(S)
  <1>1. IsFiniteSet(S)  BY MailsFinite, FS_Subset
  <1>2. IsFiniteSet(T)  BY <1>1, FS_Subset
  <1> QED  BY <1>1, <1>2, FS_Subset, FS_CardinalityType

(* The first of a line, and the rest of it.                                  *)
LEMMA FirstAndRest ==
    ASSUME NEW S, NEW line \in Seq(S), line # <<>>
    PROVE  /\ Len(line) \in Nat /\ 1 \in 1..Len(line) /\ Head(line) = line[1] /\ Head(line) \in S
           /\ Tail(line) \in Seq(S) /\ Len(Tail(line)) \in Nat
           /\ \A i \in 1..Len(Tail(line)) : i + 1 \in 1..Len(line) /\ Tail(line)[i] = line[i + 1]
           /\ \A i \in 1..Len(Tail(line)) : i + 1 # 1
  <1>1. Len(line) \in Nat \ {0}  BY EmptySeq
  <1>2. Len(Tail(line)) = Len(line) - 1  BY HeadTailProperties
  <1>3. Tail(line) \in Seq(S) /\ \A i \in 1..Len(Tail(line)) : Tail(line)[i] = line[i + 1]
    BY HeadTailProperties
  <1>4. Head(line) = line[1] /\ Head(line) \in S  BY HeadTailProperties, <1>1
  <1> QED  BY <1>1, <1>2, <1>3, <1>4

(* A line with one more at its end.                                          *)
LEMMA OneMore ==
    ASSUME NEW S, NEW line \in Seq(S), NEW e \in S
    PROVE  /\ Append(line, e) \in Seq(S) /\ Len(line) \in Nat
           /\ Len(Append(line, e)) = Len(line) + 1
           /\ \A i \in 1..Len(Append(line, e)) :
                 \/ i \in 1..Len(line) /\ Append(line, e)[i] = line[i]
                 \/ i = Len(line) + 1 /\ Append(line, e)[i] = e
  <1>1. Len(line) \in Nat  BY LenProperties
  <1>2. Append(line, e) \in Seq(S) /\ Len(Append(line, e)) = Len(line) + 1
    OBVIOUS
  <1>3. \A i \in 1..Len(line) : Append(line, e)[i] = line[i]  OBVIOUS
  <1>4. Append(line, e)[Len(line) + 1] = e  OBVIOUS
  <1> QED  BY <1>1, <1>2, <1>3, <1>4

(* The threads that were let through have a connection each.                 *)
LEMMA EachHasASlot ==
    ASSUME NEW th \in [Threads -> Sender],
           \A t \in Threads : th[t].at \in {"connect", "send"} => th[t].slot \in Slots,
           \A t, u \in Threads : /\ th[t].at \in {"connect", "send"}
                                 /\ th[u].at \in {"connect", "send"}
                                 /\ th[t].slot = th[u].slot
                                 => t = u
    PROVE  Cardinality({m \in Mails : \E t \in Threads :
                           th[t].at \in {"connect", "send"} /\ th[t].mail = m}) <= Size
  <1> DEFINE P == {m \in Mails : \E t \in Threads :
                      th[t].at \in {"connect", "send"} /\ th[t].mail = m}
             Of(m) == CHOOSE t \in Threads : th[t].at \in {"connect", "send"} /\ th[t].mail = m
             f == [m \in P |-> th[Of(m)].slot]
  <1>1. \A m \in P : /\ Of(m) \in Threads /\ th[Of(m)].at \in {"connect", "send"}
                     /\ th[Of(m)].mail = m
    OBVIOUS
  <1> HIDE DEF Of
  <1>2. f \in [P -> Slots]  BY <1>1
  <1>3. \A m, n \in P : f[m] = f[n] => m = n
    <2> SUFFICES ASSUME NEW m \in P, NEW n \in P, f[m] = f[n]
                 PROVE  m = n
      OBVIOUS
    <2>1. Of(m) = Of(n)  BY <1>1
    <2> QED  BY <2>1, <1>1
  <1> HIDE DEF f, P
  <1>4. f \in Injection(P, Slots)  BY <1>2, <1>3 DEF Injection, IsInjective
  <1>5. IsFiniteSet(Slots) /\ Cardinality(Slots) = Size
    <2>1. Size \in Nat \ {0}  BY Numbers
    <2> QED  BY <2>1, FS_Interval DEF Slots
  <1>6. Cardinality(P) <= Size  BY <1>4, <1>5, FS_Injection
  <1> QED  BY <1>6 DEF P

-----------------------------------------------------------------------------
(* The rate.                                                                 *)
LEMMA PassingFits ==
    ASSUME TypeOK, SlotGiven, SlotIsMine
    PROVE  Cardinality(Passing) <= Size
  <1>1. \A t \in Threads : thread[t].at \in {"connect", "send"} => thread[t].slot \in Slots
    BY DEF SlotGiven, HasSlot
  <1>2. \A t, u \in Threads : /\ thread[t].at \in {"connect", "send"}
                              /\ thread[u].at \in {"connect", "send"}
                              /\ thread[t].slot = thread[u].slot
                              => t = u
    BY DEF SlotIsMine, HasSlot
  <1>3. thread \in [Threads -> Sender]  BY DEF TypeOK
  <1> QED  BY <1>1, <1>2, <1>3, EachHasASlot DEF Passing, Passed

LEMMA PassingFitsNext ==
    ASSUME TypeOK', SlotGiven', SlotIsMine'
    PROVE  Cardinality(Passing') <= Size
  <1>1. \A t \in Threads : thread'[t].at \in {"connect", "send"} => thread'[t].slot \in Slots
    BY DEF SlotGiven, HasSlot
  <1>2. \A t, u \in Threads : /\ thread'[t].at \in {"connect", "send"}
                              /\ thread'[u].at \in {"connect", "send"}
                              /\ thread'[t].slot = thread'[u].slot
                              => t = u
    BY DEF SlotIsMine, HasSlot
  <1>3. thread' \in [Threads -> Sender]  BY DEF TypeOK
  <1> QED  BY <1>1, <1>2, <1>3, EachHasASlot DEF Passing, Passed

Counted == RateKept /\ SlotsBound

(* A step that lets nothing through: what is put to the server was under way.*)
LEMMA NothingPasses ==
    ASSUME TypeOK, TypeOK', Counted, granted' = granted, Passing' \subseteq Passing,
           \A m \in Mails : sent'[m] = sent[m] \/ m \in Passing
    PROVE  Counted'
  <1>1. RateKept'  BY DEF Counted, RateKept, Recent
  <1>2. ASSUME NEW ago \in 0..Minute
        PROVE  Cardinality(UnderWay(ago)') <= Size
    <2>1. UnderWay(ago)' \subseteq UnderWay(ago)  BY DEF UnderWay
    <2>2. Cardinality(UnderWay(ago)') \in Nat /\ Cardinality(UnderWay(ago)) \in Nat
          /\ Cardinality(UnderWay(ago)') <= Cardinality(UnderWay(ago))
      BY <2>1, Fewer DEF UnderWay
    <2>3. Cardinality(UnderWay(ago)) <= Size  BY DEF Counted, SlotsBound
    <2> QED  BY <2>2, <2>3, Numbers
  <1> QED  BY <1>1, <1>2 DEF Counted, SlotsBound

(* A mail is let through.                                                    *)
LEMMA OnePasses ==
    ASSUME TypeOK, TypeOK', Counted, SlotGiven', SlotIsMine', MayPass,
           NEW m \in Mails, granted' = [granted EXCEPT ![m] = 0], sent' = sent,
           Passing' \subseteq Passing \cup {m}
    PROVE  Counted'
  <1>1. RateKept'
    <2>1. Recent(granted') \subseteq Recent(granted) \cup {m}  BY DEF Recent, TypeOK
    <2>2. IsFiniteSet(Recent(granted))  BY MailsFinite, FS_Subset DEF Recent
    <2>3. /\ Cardinality(Recent(granted)) \in Nat
          /\ Cardinality(Recent(granted) \cup {m}) <= Cardinality(Recent(granted)) + 1
      <3>1. Cardinality(Recent(granted)) \in Nat  BY <2>2, FS_CardinalityType
      <3>2. Cardinality(Recent(granted) \cup {m})
              = IF m \in Recent(granted) THEN Cardinality(Recent(granted))
                ELSE Cardinality(Recent(granted)) + 1
        BY <2>2, FS_AddElement
      <3> HIDE DEF Recent
      <3> QED  BY <3>1, <3>2
    <2>4. /\ Cardinality(Recent(granted')) \in Nat
          /\ Cardinality(Recent(granted) \cup {m}) \in Nat
          /\ Cardinality(Recent(granted')) <= Cardinality(Recent(granted) \cup {m})
      <3>1. Recent(granted) \cup {m} \in SUBSET Mails  BY DEF Recent
      <3> QED  BY <2>1, <3>1, Fewer
    <2>5. Cardinality(Recent(granted)) < Limit  BY DEF MayPass
    <2> QED  BY <2>3, <2>4, <2>5, Numbers DEF RateKept
  <1>2. ASSUME NEW ago \in 0..Minute
        PROVE  Cardinality(UnderWay(ago)') <= Size
    <2>1. CASE ago = 0
      <3>1. UnderWay(ago)' \subseteq Passing'
        <4>1. \A k \in Mails : ~(sent'[k] < 0)  BY Numbers DEF TypeOK
        <4> QED  BY <2>1, <4>1 DEF UnderWay
      <3>2. Passing' \in SUBSET Mails  BY DEF Passing
      <3>3. Cardinality(UnderWay(ago)') \in Nat /\ Cardinality(Passing') \in Nat
            /\ Cardinality(UnderWay(ago)') <= Cardinality(Passing')
        BY <3>1, <3>2, Fewer
      <3> QED  BY <3>3, PassingFitsNext, Numbers
    <2>2. CASE ago # 0
      <3>1. UnderWay(ago)' \subseteq UnderWay(ago)
        <4>1. ASSUME NEW k \in UnderWay(ago)'  PROVE k \in UnderWay(ago)
          <5>1. k \in Mails /\ granted'[k] >= ago /\ (sent[k] < ago \/ k \in Passing')
            BY DEF UnderWay
          <5>2. k # m
            <6>1. granted'[m] = 0  BY DEF TypeOK
            <6> QED  BY <6>1, <5>1, <2>2, Numbers
          <5>3. granted'[k] = granted[k]  BY <5>1, <5>2 DEF TypeOK
          <5> QED  BY <5>1, <5>2, <5>3 DEF UnderWay
        <4> QED  BY <4>1
      <3>2. Cardinality(UnderWay(ago)') \in Nat /\ Cardinality(UnderWay(ago)) \in Nat
            /\ Cardinality(UnderWay(ago)') <= Cardinality(UnderWay(ago))
        BY <3>1, Fewer DEF UnderWay
      <3>3. Cardinality(UnderWay(ago)) <= Size  BY DEF Counted, SlotsBound
      <3> QED  BY <3>2, <3>3, Numbers
    <2> QED  BY <2>1, <2>2
  <1> QED  BY <1>1, <1>2 DEF Counted, SlotsBound

(* Time passes: what was under way is under way a tick longer ago.           *)
LEMMA AllAge ==
    ASSUME TypeOK, Counted, SlotGiven, SlotIsMine, Tick
    PROVE  Counted'
  <1>1. Minute \in Nat \ {0}  BY Numbers
  <1>2. \A m \in Mails : /\ granted[m] \in 0..Minute /\ sent[m] \in 0..Minute
                         /\ granted'[m] = Capped(granted[m], Minute)
                         /\ sent'[m] = Capped(sent[m], Minute)
    BY DEF TypeOK, Tick, Aged
  <1>3. Passing' = Passing  BY DEF Tick, Passing, Passed
  <1>4. RateKept'
    <2>1. Recent(granted') \subseteq Recent(granted)  BY <1>1, <1>2 DEF Recent, Capped
    <2>2. Cardinality(Recent(granted')) \in Nat /\ Cardinality(Recent(granted)) \in Nat
          /\ Cardinality(Recent(granted')) <= Cardinality(Recent(granted))
      BY <2>1, Fewer DEF Recent
    <2> QED  BY <2>2, Numbers DEF Counted, RateKept
  <1>5. ASSUME NEW ago \in 0..Minute
        PROVE  Cardinality(UnderWay(ago)') <= Size
    <2>1. CASE ago = 0
      <3>1. UnderWay(ago)' \subseteq Passing
        <4>1. \A k \in Mails : ~(sent'[k] < 0)  BY <1>1, <1>2 DEF Capped
        <4> QED  BY <2>1, <4>1, <1>3 DEF UnderWay
      <3>2. Passing \in SUBSET Mails  BY DEF Passing
      <3>3. Cardinality(UnderWay(ago)') \in Nat /\ Cardinality(Passing) \in Nat
            /\ Cardinality(UnderWay(ago)') <= Cardinality(Passing)
        BY <3>1, <3>2, Fewer
      <3> QED  BY <3>3, PassingFits, Numbers
    <2>2. CASE ago # 0
      <3>1. ago - 1 \in 0..Minute  BY <2>2, <1>1
      <3>2. UnderWay(ago)' \subseteq UnderWay(ago - 1)
        <4>1. ASSUME NEW k \in UnderWay(ago)'  PROVE k \in UnderWay(ago - 1)
          <5>1. k \in Mails /\ granted'[k] >= ago /\ (sent'[k] < ago \/ k \in Passing)
            BY <1>3 DEF UnderWay
          <5>2. granted[k] >= ago - 1  BY <5>1, <1>1, <1>2 DEF Capped
          <5>3. sent'[k] < ago => sent[k] < ago - 1  BY <5>1, <1>1, <1>2 DEF Capped
          <5> QED  BY <5>1, <5>2, <5>3 DEF UnderWay
        <4> QED  BY <4>1
      <3>3. Cardinality(UnderWay(ago)') \in Nat /\ Cardinality(UnderWay(ago - 1)) \in Nat
            /\ Cardinality(UnderWay(ago)') <= Cardinality(UnderWay(ago - 1))
        BY <3>2, Fewer DEF UnderWay
      <3>4. Cardinality(UnderWay(ago - 1)) <= Size  BY <3>1 DEF Counted, SlotsBound
      <3> QED  BY <3>3, <3>4, Numbers
    <2> QED  BY <2>1, <2>2
  <1> QED  BY <1>4, <1>5 DEF Counted, SlotsBound

(* The bound on what the server gets.                                        *)
LEMMA Bounded ==
    ASSUME TypeOK, Counted
    PROVE  WithinRate
  <1>1. Minute \in Nat \ {0}  BY Numbers
  <1>2. Recent(sent) \subseteq Recent(granted) \cup UnderWay(Minute)
    BY <1>1 DEF Recent, UnderWay, TypeOK
  <1>3. IsFiniteSet(Recent(granted)) /\ IsFiniteSet(UnderWay(Minute))
    BY MailsFinite, FS_Subset DEF Recent, UnderWay
  <1>4. Cardinality(Recent(granted) \cup UnderWay(Minute))
           = Cardinality(Recent(granted)) + Cardinality(UnderWay(Minute))
             - Cardinality(Recent(granted) \cap UnderWay(Minute))
    BY <1>3, FS_Union
  <1>5. Cardinality(Recent(granted) \cap UnderWay(Minute)) \in Nat
    BY <1>3, FS_Subset, FS_CardinalityType
  <1>6. Cardinality(Recent(granted)) \in Nat /\ Cardinality(UnderWay(Minute)) \in Nat
    BY <1>3, FS_CardinalityType
  <1>7. /\ Cardinality(Recent(sent)) \in Nat
        /\ Cardinality(Recent(granted) \cup UnderWay(Minute)) \in Nat
        /\ Cardinality(Recent(sent)) <= Cardinality(Recent(granted) \cup UnderWay(Minute))
    <2>1. Recent(granted) \cup UnderWay(Minute) \in SUBSET Mails  BY DEF Recent, UnderWay
    <2> QED  BY <2>1, <1>2, Fewer
  <1>8. Cardinality(Recent(granted)) <= Limit /\ Cardinality(UnderWay(Minute)) <= Size
    <2>1. Minute \in 0..Minute  BY <1>1
    <2> QED  BY <2>1 DEF Counted, RateKept, SlotsBound
  <1> HIDE DEF Recent, UnderWay
  <1> QED  BY <1>4, <1>5, <1>6, <1>7, <1>8, Numbers DEF WithinRate

-----------------------------------------------------------------------------
(* Who has which slot and which mail.                                        *)
LEMMA Parts ==
    ASSUME TypeOK, Owned
    PROVE  /\ thread \in [Threads -> Sender]
           /\ available \in Seq(Slots) /\ waiters \in Seq(Threads)
           /\ mails \in Nat /\ mails <= MaxMails /\ MaxMails \in Nat
           /\ granted \in [Mails -> 0..Minute] /\ sent \in [Mails -> 0..Minute]
           /\ \A u \in Threads : thread[u] \in Sender
           /\ SlotGiven /\ SlotIsMine /\ AvailableIsFree /\ LineIsTrue /\ MailIsMine /\ RoomLeft
  BY Numbers DEF TypeOK, Owned

(* A thread that asks for a slot gets the first there is, or stands in line. *)
LEMMA Takes ==
    ASSUME TypeOK, Owned, NEW t \in Threads, thread[t].at \in {"idle", "notified"},
           mails' \in mails..MaxMails, NEW m \in 1..mails',
           sent[m] = Minute, granted[m] = Minute,
           \A u \in Threads \ {t} : thread[u].at # "idle" => thread[u].mail # m,
           Acquire(t, m), UNCHANGED <<slot, granted, sent>>
    PROVE  /\ thread' \in [Threads -> Sender]
           /\ available' \in Seq(Slots) /\ waiters' \in Seq(Threads)
           /\ Owned' /\ Passing' \subseteq Passing
  <1>1. /\ thread \in [Threads -> Sender]
        /\ available \in Seq(Slots) /\ waiters \in Seq(Threads)
        /\ mails \in Nat /\ mails <= MaxMails /\ MaxMails \in Nat
        /\ SlotGiven /\ SlotIsMine /\ AvailableIsFree /\ LineIsTrue /\ MailIsMine /\ RoomLeft
    BY Parts
  <1>2. m \in 0..MaxMails /\ m \in Mails /\ mails' \in Nat /\ mails <= mails'
    BY <1>1 DEF Mails
  <1>3. ~HasSlot(t) /\ thread[t].at # "waiting"  BY DEF HasSlot
  <1>4. \A i \in 1..Len(waiters) : waiters[i] # t
    BY <1>3, <1>1 DEF LineIsTrue
  <1>5. MailIsMine'
        <=> /\ \A u \in Threads : thread'[u].at # "idle" =>
                  /\ thread'[u].mail \in 1..mails'
                  /\ sent[thread'[u].mail] = Minute
                  /\ thread'[u].at \notin {"connect", "send"} => granted[thread'[u].mail] = Minute
            /\ \A u, v \in Threads : /\ thread'[u].at # "idle" /\ thread'[v].at # "idle"
                                     /\ thread'[u].mail = thread'[v].mail
                                     => u = v
            /\ \A k \in Mails : k > mails' => granted[k] = Minute /\ sent[k] = Minute
    BY DEF MailIsMine, Passed
  <1>6. CASE available # <<>>
    <2> DEFINE s == Head(available)
    <2>1. /\ thread' = [thread EXCEPT ![t] = At("rate", s, m)]
          /\ available' = Tail(available) /\ waiters' = waiters
      BY <1>6 DEF Acquire
    <2>2. /\ Len(available) \in Nat /\ 1 \in 1..Len(available) /\ s = available[1] /\ s \in Slots
          /\ available' \in Seq(Slots) /\ Len(available') \in Nat
          /\ \A i \in 1..Len(available') :
                i + 1 \in 1..Len(available) /\ available'[i] = available[i + 1] /\ i + 1 # 1
      BY <1>1, <1>6, <2>1, FirstAndRest
    <2> HIDE DEF s
    <2>3. s \in 0..Size  BY <2>2, Numbers DEF Slots
    <2>4. /\ At("rate", s, m) \in Sender /\ thread'[t] = At("rate", s, m)
          /\ thread'[t].at = "rate" /\ thread'[t].slot = s /\ thread'[t].mail = m
      BY <1>1, <1>2, <2>1, <2>3, SenderRow
    <2>5. \A u \in Threads \ {t} : thread'[u] = thread[u]  BY <1>1, <2>1
    <2>6. thread' \in [Threads -> Sender]  BY <1>1, <2>1, <2>4
    <2>7. SlotGiven'  BY <1>1, <2>2, <2>4, <2>5 DEF SlotGiven, HasSlot
    <2>8. \A u \in Threads \ {t} : HasSlot(u) => thread[u].slot # s
      BY <1>1, <2>2 DEF AvailableIsFree
    <2>9. SlotIsMine'  BY <1>1, <2>4, <2>5, <2>8 DEF SlotIsMine, HasSlot
    <2>10. AvailableIsFree'
      <3>1. \A i \in 1..Len(available') : available'[i] # s
        BY <1>1, <2>2 DEF AvailableIsFree
      <3>2. \A i, j \in 1..Len(available') : available'[i] = available'[j] => i = j
        BY <1>1, <2>2 DEF AvailableIsFree
      <3>3. \A u \in Threads \ {t} : \A i \in 1..Len(available') :
               HasSlot(u) => available'[i] # thread[u].slot
        BY <1>1, <2>2 DEF AvailableIsFree
      <3> QED  BY <3>1, <3>2, <3>3, <2>4, <2>5 DEF AvailableIsFree, HasSlot
    <2>11. LineIsTrue'
      <3>1. \A i \in 1..Len(waiters) : waiters[i] \in Threads \ {t}
        BY <1>1, <1>4, ElementOfSeq
      <3> QED  BY <1>1, <2>1, <2>5, <3>1 DEF LineIsTrue
    <2>12. MailIsMine'
      <3>1. \A u \in Threads \ {t} : thread[u].at # "idle" => thread[u].mail \in 1..mails'
        BY <1>1, <1>2 DEF MailIsMine
      <3> QED  BY <1>1, <1>2, <1>5, <2>4, <2>5, <3>1 DEF MailIsMine, Passed
    <2>13. RoomLeft'  BY <1>1, <2>4, <2>5 DEF RoomLeft
    <2>14. Passing' \subseteq Passing  BY <2>4, <2>5 DEF Passing, Passed
    <2> QED  BY <1>1, <2>1, <2>2, <2>6, <2>7, <2>9, <2>10, <2>11, <2>12, <2>13, <2>14 DEF Owned
  <1>7. CASE available = <<>>
    <2>1. /\ thread' = [thread EXCEPT ![t] = At("waiting", 0, m)]
          /\ available' = available /\ waiters' = Append(waiters, t)
      BY <1>7 DEF Acquire
    <2>3. 0 \in 0..Size  BY Numbers
    <2>4. /\ At("waiting", 0, m) \in Sender /\ thread'[t] = At("waiting", 0, m)
          /\ thread'[t].at = "waiting" /\ thread'[t].slot = 0 /\ thread'[t].mail = m
      BY <1>1, <1>2, <2>1, <2>3, SenderRow
    <2>5. \A u \in Threads \ {t} : thread'[u] = thread[u]  BY <1>1, <2>1
    <2>6. thread' \in [Threads -> Sender]  BY <1>1, <2>1, <2>4
    <2>7. SlotGiven'  BY <1>1, <2>4, <2>5 DEF SlotGiven, HasSlot
    <2>8. SlotIsMine'  BY <1>1, <2>4, <2>5 DEF SlotIsMine, HasSlot
    <2>9. AvailableIsFree'  BY <1>1, <2>1, <2>4, <2>5 DEF AvailableIsFree, HasSlot
    <2>10. /\ waiters' \in Seq(Threads) /\ Len(waiters) \in Nat
           /\ Len(waiters') = Len(waiters) + 1
           /\ \A i \in 1..Len(waiters') : \/ i \in 1..Len(waiters) /\ waiters'[i] = waiters[i]
                                          \/ i = Len(waiters) + 1 /\ waiters'[i] = t
      BY <1>1, <2>1, OneMore
    <2>11. LineIsTrue'
      <3>1. \A i \in 1..Len(waiters) : waiters[i] \in Threads \ {t}
        BY <1>1, <1>4, ElementOfSeq
      <3>2. \A i \in 1..Len(waiters') : thread'[waiters'[i]].at = "waiting"
        BY <1>1, <2>4, <2>5, <2>10, <3>1 DEF LineIsTrue
      <3>3. \A i, j \in 1..Len(waiters') : waiters'[i] = waiters'[j] => i = j
        BY <1>1, <2>10, <3>1 DEF LineIsTrue
      <3> QED  BY <3>2, <3>3 DEF LineIsTrue
    <2>12. MailIsMine'
      <3>1. \A u \in Threads \ {t} : thread[u].at # "idle" => thread[u].mail \in 1..mails'
        BY <1>1, <1>2 DEF MailIsMine
      <3> QED  BY <1>1, <1>2, <1>5, <2>4, <2>5, <3>1 DEF MailIsMine, Passed
    <2>13. RoomLeft'  BY <1>1, <2>4, <2>5 DEF RoomLeft
    <2>14. Passing' \subseteq Passing  BY <2>4, <2>5 DEF Passing, Passed
    <2> QED  BY <1>1, <2>1, <2>6, <2>7, <2>8, <2>9, <2>10, <2>11, <2>12, <2>13, <2>14 DEF Owned
  <1> QED  BY <1>6, <1>7

(* A thread goes on with the slot and the mail it has.                       *)
LEMMA GoesOn ==
    ASSUME TypeOK, Owned, NEW t \in Threads, HasSlot(t),
           NEW row \in Sender, row.at \in {"connect", "send"},
           row.slot = thread[t].slot, row.mail = thread[t].mail,
           thread' = [thread EXCEPT ![t] = row],
           UNCHANGED <<queue, mails, sent>>,
           \A k \in Mails : granted'[k] = granted[k] \/ k = thread[t].mail,
           \A s \in Slots : slot'[s] = slot[s] \/ s = thread[t].slot,
           row.at = "send" => slot'[row.slot].count < PerConnection
    PROVE  thread' \in [Threads -> Sender] /\ Owned' /\ Passing' \subseteq Passing \cup {row.mail}
  <1>1. /\ thread \in [Threads -> Sender] /\ available \in Seq(Slots) /\ waiters \in Seq(Threads)
        /\ mails \in Nat /\ mails <= MaxMails /\ MaxMails \in Nat
        /\ SlotGiven /\ SlotIsMine /\ AvailableIsFree /\ LineIsTrue /\ MailIsMine /\ RoomLeft
    BY Parts
  <1>2. thread'[t] = row /\ \A u \in Threads \ {t} : thread'[u] = thread[u]  BY <1>1
  <1>3. available' = available /\ waiters' = waiters  BY DEF queue
  <1>4. \A u \in Threads : HasSlot(u)' <=> HasSlot(u)  BY <1>2 DEF HasSlot
  <1>5. \A u \in Threads : thread'[u].slot = thread[u].slot /\ thread'[u].mail = thread[u].mail
    BY <1>2
  <1>6. \A u \in Threads : thread'[u].at = "idle" <=> thread[u].at = "idle"
    BY <1>2 DEF HasSlot
  <1>7. SlotGiven'  BY <1>1, <1>4, <1>5 DEF SlotGiven
  <1>8. SlotIsMine'  BY <1>1, <1>4, <1>5 DEF SlotIsMine
  <1>9. AvailableIsFree'  BY <1>1, <1>3, <1>4, <1>5 DEF AvailableIsFree
  <1>10. LineIsTrue'
    <2>1. \A i \in 1..Len(waiters) : waiters[i] \in Threads \ {t}
      <3>1. \A i \in 1..Len(waiters) : waiters[i] \in Threads  BY <1>1, ElementOfSeq
      <3> QED  BY <1>1, <3>1 DEF LineIsTrue, HasSlot
    <2> QED  BY <1>1, <1>2, <1>3, <2>1 DEF LineIsTrue
  <1>11. MailIsMine'
    <2>1. \A u \in Threads \ {t} : thread[u].at # "idle" => /\ thread[u].mail \in Mails
                                                            /\ thread[u].mail # row.mail
      BY <1>1 DEF MailIsMine, HasSlot, Mails
    <2>2. \A u \in Threads \ {t} : thread[u].at # "idle" /\ ~Passed(u)
                                   => granted'[thread[u].mail] = Minute
      BY <1>1, <2>1 DEF MailIsMine
    <2>3. \A u \in Threads : thread'[u].at # "idle" =>
             /\ thread'[u].mail \in 1..mails' /\ sent'[thread'[u].mail] = Minute
             /\ ~Passed(u)' => granted'[thread'[u].mail] = Minute
      BY <1>1, <1>2, <1>5, <1>6, <2>2 DEF MailIsMine, Passed
    <2>4. \A u, v \in Threads : /\ thread'[u].at # "idle" /\ thread'[v].at # "idle"
                                /\ thread'[u].mail = thread'[v].mail
                                => u = v
      BY <1>1, <1>5, <1>6 DEF MailIsMine
    <2>5. \A k \in Mails : k > mails => k # row.mail
      BY <1>1 DEF MailIsMine, HasSlot, Mails
    <2>6. \A k \in Mails : k > mails' => granted'[k] = Minute /\ sent'[k] = Minute
      BY <1>1, <2>5 DEF MailIsMine
    <2> QED  BY <2>3, <2>4, <2>6 DEF MailIsMine
  <1>12. RoomLeft'
    <2>1. \A u \in Threads \ {t} : thread[u].at = "send" =>
             thread[u].slot \in Slots /\ thread[u].slot # thread[t].slot
      BY <1>1 DEF SlotGiven, SlotIsMine, HasSlot
    <2> QED  BY <1>1, <1>2, <2>1 DEF RoomLeft
  <1>13. Passing' \subseteq Passing \cup {row.mail}  BY <1>2 DEF Passing, Passed
  <1>14. thread' \in [Threads -> Sender]  BY <1>1
  <1> QED  BY <1>7, <1>8, <1>9, <1>10, <1>11, <1>12, <1>13, <1>14 DEF Owned

(* A thread ends: its slot goes back, and the first of the line is woken.    *)
LEMMA GoesBack ==
    ASSUME TypeOK, Owned, NEW t \in Threads, HasSlot(t), Release(t),
           UNCHANGED <<granted, mails>>,
           \A k \in Mails : sent'[k] = sent[k] \/ k = thread[t].mail,
           \A s \in Slots : slot'[s] = slot[s] \/ s = thread[t].slot
    PROVE  /\ thread' \in [Threads -> Sender]
           /\ available' \in Seq(Slots) /\ waiters' \in Seq(Threads)
           /\ Owned' /\ Passing' \subseteq Passing
  <1>1. /\ thread \in [Threads -> Sender] /\ available \in Seq(Slots) /\ waiters \in Seq(Threads)
        /\ mails \in Nat /\ mails <= MaxMails /\ MaxMails \in Nat
        /\ SlotGiven /\ SlotIsMine /\ AvailableIsFree /\ LineIsTrue /\ MailIsMine /\ RoomLeft
    BY Parts
  <1> DEFINE s == thread[t].slot
             m == thread[t].mail
             h == Head(waiters)
  <1>2. s \in Slots  BY <1>1 DEF SlotGiven
  <1>3. available' = Append(available, s)  BY DEF Release
  <1> HIDE DEF s
  <1>4. /\ available' \in Seq(Slots) /\ Len(available) \in Nat
        /\ Len(available') = Len(available) + 1
        /\ \A i \in 1..Len(available') : \/ i \in 1..Len(available) /\ available'[i] = available[i]
                                         \/ i = Len(available) + 1 /\ available'[i] = s
    BY <1>1, <1>2, <1>3, OneMore
  <1>5. waiters # <<>> =>
          /\ Len(waiters) \in Nat /\ 1 \in 1..Len(waiters) /\ h = waiters[1] /\ h \in Threads
          /\ Tail(waiters) \in Seq(Threads) /\ Len(Tail(waiters)) \in Nat
          /\ \A i \in 1..Len(Tail(waiters)) : /\ i + 1 \in 1..Len(waiters) /\ i + 1 # 1
                                              /\ Tail(waiters)[i] = waiters[i + 1]
    BY <1>1, FirstAndRest
  <1>6. waiters # <<>> => thread[h].at = "waiting" /\ h # t
    BY <1>1, <1>5 DEF LineIsTrue, HasSlot
  <1>7. /\ thread'[t] = Idle
        /\ \A u \in Threads \ {t} :
              \/ thread'[u] = thread[u] /\ (waiters = <<>> \/ u # h)
              \/ /\ waiters # <<>> /\ u = h /\ thread'[u].at = "notified"
                 /\ thread'[u] \in Sender
                 /\ thread'[u].slot = thread[u].slot /\ thread'[u].mail = thread[u].mail
        /\ thread' \in [Threads -> Sender]
    <2>1. CASE waiters = <<>>
      <3>1. thread' = [thread EXCEPT ![t] = Idle]  BY <2>1 DEF Release
      <3> QED  BY <1>1, <2>1, <3>1, IdleRow
    <2>2. CASE waiters # <<>>
      <3> DEFINE row == [thread[h] EXCEPT !.at = "notified"]
      <3>1. thread' = [thread EXCEPT ![t] = Idle, ![h].at = "notified"]  BY <2>2 DEF Release
      <3>2. thread' = [thread EXCEPT ![t] = Idle, ![h] = row]  BY <1>1, <1>5, <1>6, <2>2, <3>1
      <3>3. /\ row \in Sender /\ row.at = "notified"
            /\ row.slot = thread[h].slot /\ row.mail = thread[h].mail
        BY <1>1, <1>5, <2>2, SenderMoves
      <3> HIDE DEF row, h
      <3> QED  BY <1>1, <1>5, <1>6, <2>2, <3>2, <3>3, IdleRow
    <2> QED  BY <2>1, <2>2
  <1>8. \/ waiters = <<>> /\ waiters' = waiters
        \/ waiters # <<>> /\ waiters' = Tail(waiters)
    BY DEF Release
  <1> HIDE DEF h
  <1>9. thread'[t].at = "idle" /\ thread'[t].slot = 0  BY <1>7, IdleRow
  <1>10. \A u \in Threads \ {t} :
            /\ thread'[u].slot = thread[u].slot /\ thread'[u].mail = thread[u].mail
            /\ \/ thread'[u].at = thread[u].at
               \/ thread[u].at = "waiting" /\ thread'[u].at = "notified"
    BY <1>6, <1>7
  <1>11. \A u \in Threads \ {t} : HasSlot(u)' <=> HasSlot(u)  BY <1>10 DEF HasSlot
  <1>12. ~HasSlot(t)'  BY <1>9 DEF HasSlot
  <1>13. SlotGiven'  BY <1>1, <1>9, <1>10, <1>11, <1>12 DEF SlotGiven
  <1>14. SlotIsMine'  BY <1>1, <1>10, <1>11, <1>12 DEF SlotIsMine
  <1>15. AvailableIsFree'
    <2>1. \A u \in Threads \ {t} : HasSlot(u) => thread[u].slot # s
      BY <1>1 DEF SlotIsMine, s
    <2>2. \A i \in 1..Len(available) : available[i] # s
      BY <1>1 DEF AvailableIsFree, s
    <2>3. \A i, j \in 1..Len(available') : available'[i] = available'[j] => i = j
      BY <1>1, <1>4, <2>2 DEF AvailableIsFree
    <2>4. \A u \in Threads : \A i \in 1..Len(available') :
             HasSlot(u)' => available'[i] # thread'[u].slot
      <3> SUFFICES ASSUME NEW u \in Threads, NEW i \in 1..Len(available'), HasSlot(u)'
                   PROVE  available'[i] # thread'[u].slot
        OBVIOUS
      <3>1. u \in Threads \ {t} /\ HasSlot(u)  BY <1>11, <1>12
      <3>2. thread'[u].slot = thread[u].slot  BY <1>10, <3>1
      <3>3. thread[u].slot # s  BY <2>1, <3>1
      <3>4. CASE i \in 1..Len(available) /\ available'[i] = available[i]
        BY <1>1, <3>1, <3>2, <3>4 DEF AvailableIsFree
      <3> QED  BY <1>4, <3>2, <3>3, <3>4
    <2> QED  BY <2>3, <2>4 DEF AvailableIsFree
  <1>16. waiters' \in Seq(Threads) /\ LineIsTrue'
    <2>1. \A i \in 1..Len(waiters) : waiters[i] \in Threads \ {t}
      <3>1. \A i \in 1..Len(waiters) : waiters[i] \in Threads  BY <1>1, ElementOfSeq
      <3> QED  BY <1>1, <3>1 DEF LineIsTrue, HasSlot
    <2>2. CASE waiters = <<>> /\ waiters' = waiters
      <3>1. Len(waiters) = 0  BY <2>2
      <3> QED  BY <1>1, <2>2, <3>1 DEF LineIsTrue
    <2>3. CASE waiters # <<>> /\ waiters' = Tail(waiters)
      <3>1. \A i \in 1..Len(waiters') :
               waiters'[i] = waiters[i + 1] /\ i + 1 \in 1..Len(waiters) /\ i + 1 # 1
        BY <1>5, <2>3
      <3>2. \A i \in 1..Len(waiters') : waiters'[i] # h
        BY <1>1, <1>5, <2>3, <3>1 DEF LineIsTrue
      <3>3. \A i \in 1..Len(waiters') : waiters'[i] \in Threads \ {t}  BY <2>1, <3>1
      <3>4. \A i \in 1..Len(waiters') : thread'[waiters'[i]] = thread[waiters'[i]]
        BY <1>7, <3>2, <3>3
      <3>5. \A i \in 1..Len(waiters') : thread'[waiters'[i]].at = "waiting"
        BY <1>1, <3>1, <3>4 DEF LineIsTrue
      <3>6. \A i, j \in 1..Len(waiters') : waiters'[i] = waiters'[j] => i = j
        <4>1. \A i \in 1..Len(waiters') : i \in Nat  OBVIOUS
        <4>2. \A i, j \in 1..Len(waiters') : waiters'[i] = waiters'[j] => i + 1 = j + 1
          BY <1>1, <3>1 DEF LineIsTrue
        <4> QED  BY <4>1, <4>2
      <3> QED  BY <1>5, <2>3, <3>5, <3>6 DEF LineIsTrue
    <2> QED  BY <1>8, <2>2, <2>3
  <1>17. MailIsMine'
    <2>1. \A u \in Threads \ {t} : thread[u].at # "idle" => /\ thread[u].mail \in Mails
                                                            /\ thread[u].mail # m
      BY <1>1 DEF MailIsMine, HasSlot, Mails
    <2>2. \A u \in Threads \ {t} : thread[u].at # "idle" => sent'[thread[u].mail] = Minute
      BY <1>1, <2>1 DEF MailIsMine
    <2>3. \A u \in Threads : thread'[u].at # "idle" =>
             /\ thread'[u].mail \in 1..mails' /\ sent'[thread'[u].mail] = Minute
             /\ ~Passed(u)' => granted'[thread'[u].mail] = Minute
      BY <1>1, <1>9, <1>10, <2>2 DEF MailIsMine, Passed
    <2>4. \A u, v \in Threads : /\ thread'[u].at # "idle" /\ thread'[v].at # "idle"
                                /\ thread'[u].mail = thread'[v].mail
                                => u = v
      BY <1>1, <1>9, <1>10 DEF MailIsMine
    <2>5. \A k \in Mails : k > mails => k # m
      BY <1>1 DEF MailIsMine, HasSlot, Mails
    <2>6. \A k \in Mails : k > mails' => granted'[k] = Minute /\ sent'[k] = Minute
      BY <1>1, <2>5 DEF MailIsMine
    <2> QED  BY <2>3, <2>4, <2>6 DEF MailIsMine
  <1>18. RoomLeft'
    <2>1. \A u \in Threads \ {t} : thread[u].at = "send" =>
             thread[u].slot \in Slots /\ thread[u].slot # thread[t].slot
      BY <1>1 DEF SlotGiven, SlotIsMine, HasSlot
    <2> QED  BY <1>1, <1>9, <1>10, <2>1 DEF RoomLeft
  <1>19. Passing' \subseteq Passing  BY <1>9, <1>10 DEF Passing, Passed
  <1> QED  BY <1>4, <1>7, <1>13, <1>14, <1>15, <1>16, <1>17, <1>18, <1>19 DEF Owned

-----------------------------------------------------------------------------
(* The results.                                                              *)
LEMMA NoResultFits ==
    /\ NoResult \in [result: {"none", "accepted", "partial", "retryable", "terminal", "uncertain"},
                     reached: SUBSET Recipients]
    /\ NoResult.result = "none"
  BY DEF NoResult

(* What the thread says of an answer agrees with whom the mail may reach.    *)
LEMMA ResultIsTrue ==
    ASSUME NEW answer \in Answers, NEW reached \in Reached(answer)
    PROVE  /\ Result(answer) \in {"accepted", "partial", "retryable", "terminal", "uncertain"}
           /\ reached \in SUBSET Recipients
           /\ Result(answer) \in {"retryable", "terminal"} => reached = {}
           /\ Result(answer) = "accepted" => To \subseteq reached
  <1> DEFINE refused == Refused(answer)
             all == Recipients \ refused
  <1>1. refused \subseteq Recipients /\ To \subseteq Recipients /\ To \cap Cc = {} /\ To # {}
    BY RecipientsAssumption DEF Refused, Recipients
  <1>2. \A codes : Verdict(codes) \in {"retryable", "terminal"}  BY DEF Verdict
  <1> HIDE DEF refused
  <1>3. reached \in SUBSET Recipients  BY DEF Reached
  <1>4. CASE answer.data = "lost"
    <2>1. Result(answer) = "uncertain"  BY <1>4 DEF Result
    <2> QED  BY <2>1, <1>3
  <1>5. CASE answer.data # "lost" /\ refused = Recipients
    <2>1. Result(answer) = Verdict({answer.of[r] : r \in Recipients})
      BY <1>5 DEF Result, refused
    <2>2. reached = {}  BY <1>5 DEF Reached, refused
    <2> QED  BY <2>1, <2>2, <1>2
  <1>6. CASE answer.data # "lost" /\ refused # Recipients /\ answer.data # "taken"
    <2>1. Result(answer) = Verdict({answer.data})  BY <1>6 DEF Result, refused
    <2>2. reached = {}  BY <1>6 DEF Reached, refused
    <2> QED  BY <2>1, <2>2, <1>2
  <1>7. CASE answer.data = "taken" /\ refused # Recipients
    <2>1. reached = all  BY <1>7 DEF Reached, refused
    <2>2. Result(answer) \in {"accepted", "partial"}
          /\ (Result(answer) = "accepted" => refused \subseteq Cc)
      BY <1>7 DEF Result, refused
    <2>3. Result(answer) = "accepted" => To \subseteq all  BY <2>2, <1>1
    <2> QED  BY <2>1, <2>2, <2>3, <1>3
  <1> QED  BY <1>4, <1>5, <1>6, <1>7

-----------------------------------------------------------------------------
(* The steps.                                                                *)
LEMMA QuietIsTrue ==
    ASSUME TypeOK, Quiet
    PROVE  /\ ResultsAreTrue' /\ sent' = sent
           /\ last' \in [result: {"none", "accepted", "partial", "retryable", "terminal", "uncertain"},
                         reached: SUBSET Recipients]
  BY NoResultFits DEF Quiet, ResultsAreTrue

(* The parts of the type invariant.                                          *)
LEMMA Typed ==
    ASSUME thread' \in [Threads -> Sender], available' \in Seq(Slots), waiters' \in Seq(Threads),
           slot' \in [Slots -> Connection],
           granted' \in [Mails -> 0..Minute], sent' \in [Mails -> 0..Minute], mails' \in 0..MaxMails,
           last' \in [result: {"none", "accepted", "partial", "retryable", "terminal", "uncertain"},
                      reached: SUBSET Recipients]
    PROVE  TypeOK'
  BY DEF TypeOK

SInv == TypeOK /\ Owned /\ Counted /\ ResultsAreTrue

LEMMA InitHolds == Init => SInv
  <1> SUFFICES ASSUME Init PROVE SInv
    OBVIOUS
  <1>1. Minute \in 0..Minute /\ Size \in Nat  BY Numbers
  <1>2. /\ \A t \in Threads : thread[t].at = "idle" /\ thread[t].slot = 0
        /\ thread \in [Threads -> Sender]
    BY IdleRow DEF Init
  <1>3. available \in Seq(Slots) /\ Len(available) = Size /\ \A i \in 1..Size : available[i] = i
    BY <1>1 DEF Init, Slots
  <1>4. waiters \in Seq(Threads) /\ Len(waiters) = 0  BY DEF Init
  <1>5. TypeOK
    BY <1>1, <1>2, <1>3, <1>4, Connections, NoResultFits, Numbers DEF TypeOK, Init
  <1>6. Owned
    BY <1>1, <1>2, <1>3, <1>4 DEF Init, Owned, SlotGiven, SlotIsMine, AvailableIsFree, LineIsTrue,
       MailIsMine, RoomLeft, HasSlot, Passed
  <1>7. Passing = {} /\ Recent(granted) = {}
    BY <1>2, Numbers DEF Init, Passing, Passed, Recent
  <1>8. \A ago \in 0..Minute : UnderWay(ago) = {}
    BY <1>1, <1>7 DEF Init, UnderWay
  <1>9. Counted
    BY <1>1, <1>7, <1>8, FS_EmptySet, Numbers DEF Counted, RateKept, SlotsBound
  <1>10. ResultsAreTrue  BY NoResultFits DEF Init, ResultsAreTrue
  <1> QED  BY <1>5, <1>6, <1>9, <1>10 DEF SInv

LEMMA BeginHolds ==
    ASSUME SInv, NEW t \in Threads, Begin(t)
    PROVE  SInv'
  <1>1. TypeOK /\ Owned /\ Counted  BY DEF SInv
  <1>2. /\ mails \in Nat /\ mails < MaxMails /\ MaxMails \in Nat /\ mails' = mails + 1
        /\ MailIsMine
    BY <1>1, Parts DEF Begin
  <1>3. mails' \in mails..MaxMails /\ mails' \in 1..mails' /\ mails' \in Mails
    BY <1>2 DEF Mails
  <1>4. sent[mails'] = Minute /\ granted[mails'] = Minute  BY <1>2, <1>3 DEF MailIsMine
  <1>5. \A u \in Threads \ {t} : thread[u].at # "idle" => thread[u].mail # mails'
    BY <1>2 DEF MailIsMine
  <1>6. ResultsAreTrue' /\ sent' = sent /\ granted' = granted /\ slot' = slot
        /\ last' \in [result: {"none", "accepted", "partial", "retryable", "terminal", "uncertain"},
                      reached: SUBSET Recipients]
    BY <1>1, QuietIsTrue DEF Begin
  <1>7. Acquire(t, mails') /\ thread[t].at = "idle"  BY <1>2 DEF Begin
  <1>8. /\ thread' \in [Threads -> Sender]
        /\ available' \in Seq(Slots) /\ waiters' \in Seq(Threads)
        /\ Owned' /\ Passing' \subseteq Passing
    BY <1>1, <1>3, <1>4, <1>5, <1>6, <1>7, Takes
  <1>9. TypeOK'  BY <1>1, <1>2, <1>3, <1>6, <1>8, Typed DEF TypeOK
  <1>10. Counted'  BY <1>1, <1>6, <1>8, <1>9, NothingPasses
  <1> QED  BY <1>6, <1>8, <1>9, <1>10 DEF SInv

LEMMA WakeHolds ==
    ASSUME SInv, NEW t \in Threads, Wake(t)
    PROVE  SInv'
  <1>1. TypeOK /\ Owned /\ Counted  BY DEF SInv
  <1> DEFINE m == thread[t].mail
  <1>2. mails \in Nat /\ MaxMails \in Nat /\ mails <= MaxMails /\ mails' = mails /\ MailIsMine
    BY <1>1, Parts DEF Wake
  <1>3. mails' \in mails..MaxMails  BY <1>2
  <1>4. Acquire(t, m) /\ thread[t].at = "notified"  BY DEF Wake
  <1>5. m \in 1..mails' /\ sent[m] = Minute /\ granted[m] = Minute
    BY <1>2, <1>4 DEF MailIsMine, Passed
  <1>6. \A u \in Threads \ {t} : thread[u].at # "idle" => thread[u].mail # m
    BY <1>2, <1>4 DEF MailIsMine
  <1>7. ResultsAreTrue' /\ sent' = sent /\ granted' = granted /\ slot' = slot
        /\ last' \in [result: {"none", "accepted", "partial", "retryable", "terminal", "uncertain"},
                      reached: SUBSET Recipients]
    BY <1>1, QuietIsTrue DEF Wake
  <1> HIDE DEF m
  <1>8. /\ thread' \in [Threads -> Sender]
        /\ available' \in Seq(Slots) /\ waiters' \in Seq(Threads)
        /\ Owned' /\ Passing' \subseteq Passing
    BY <1>1, <1>3, <1>4, <1>5, <1>6, <1>7, Takes
  <1>9. TypeOK'  BY <1>1, <1>2, <1>7, <1>8, Typed DEF TypeOK
  <1>10. Counted'  BY <1>1, <1>7, <1>8, <1>9, NothingPasses
  <1> QED  BY <1>7, <1>8, <1>9, <1>10 DEF SInv

LEMMA PassHolds ==
    ASSUME SInv, NEW t \in Threads, Pass(t)
    PROVE  SInv'
  <1>1. TypeOK /\ Owned /\ Counted  BY DEF SInv
  <1> DEFINE m == thread[t].mail
             row == [thread[t] EXCEPT !.at = "connect"]
  <1>2. /\ thread \in [Threads -> Sender] /\ thread[t] \in Sender
        /\ mails \in Nat /\ MaxMails \in Nat /\ mails <= MaxMails /\ MailIsMine
    BY <1>1, Parts
  <1>3. /\ row \in Sender /\ row.at = "connect" /\ row.slot = thread[t].slot /\ row.mail = m
    BY <1>2, SenderMoves
  <1>4. /\ thread[t].at = "rate" /\ MayPass /\ thread' = [thread EXCEPT ![t] = row]
        /\ granted' = [granted EXCEPT ![m] = 0] /\ UNCHANGED <<queue, slot, mails>>
    BY DEF Pass
  <1>5. ResultsAreTrue' /\ sent' = sent
        /\ last' \in [result: {"none", "accepted", "partial", "retryable", "terminal", "uncertain"},
                      reached: SUBSET Recipients]
    BY <1>1, QuietIsTrue DEF Pass
  <1>6. m \in Mails  BY <1>2, <1>4 DEF MailIsMine, Mails
  <1> HIDE DEF m, row
  <1>7. granted' \in [Mails -> 0..Minute] /\ \A k \in Mails : granted'[k] = granted[k] \/ k = m
    <2>1. 0 \in 0..Minute  BY Numbers
    <2> QED  BY <1>1, <1>4, <2>1 DEF TypeOK
  <1>8. thread' \in [Threads -> Sender] /\ Owned' /\ Passing' \subseteq Passing \cup {row.mail}
    <2>1. HasSlot(t)  BY <1>4 DEF HasSlot
    <2>2. row.at \in {"connect", "send"} /\ row.mail = thread[t].mail
          /\ (row.at = "send" => slot'[row.slot].count < PerConnection)
      BY <1>3 DEF m
    <2>3. \A k \in Mails : granted'[k] = granted[k] \/ k = thread[t].mail  BY <1>7 DEF m
    <2>4. UNCHANGED <<queue, mails, sent>> /\ \A s \in Slots : slot'[s] = slot[s]
      BY <1>4, <1>5
    <2> QED  BY <1>1, <1>3, <1>4, <2>1, <2>2, <2>3, <2>4, GoesOn
  <1>9. TypeOK'  BY <1>1, <1>4, <1>5, <1>7, <1>8, Typed DEF TypeOK, queue
  <1>10. Counted'
    <2>1. SlotGiven' /\ SlotIsMine'  BY <1>8 DEF Owned
    <2> QED  BY <1>1, <1>3, <1>4, <1>5, <1>6, <1>8, <1>9, <2>1, OnePasses
  <1> QED  BY <1>5, <1>8, <1>9, <1>10 DEF SInv

(* A thread that has its connection.                                         *)
LEMMA ConnectedHolds ==
    ASSUME SInv, NEW t \in Threads, thread[t].at = "connect",
           thread' = [thread EXCEPT ![t].at = "send"],
           slot' \in [Slots -> Connection], slot'[thread[t].slot].count < PerConnection,
           \A s \in Slots : slot'[s] = slot[s] \/ s = thread[t].slot,
           UNCHANGED <<queue, granted, mails>>, Quiet
    PROVE  SInv'
  <1>1. TypeOK /\ Owned /\ Counted  BY DEF SInv
  <1> DEFINE row == [thread[t] EXCEPT !.at = "send"]
  <1>2. /\ thread \in [Threads -> Sender] /\ thread[t] \in Sender
        /\ mails \in Nat /\ MaxMails \in Nat /\ mails <= MaxMails /\ MailIsMine
    BY <1>1, Parts
  <1>3. /\ row \in Sender /\ row.at = "send" /\ row.slot = thread[t].slot
        /\ row.mail = thread[t].mail
    BY <1>2, SenderMoves
  <1>4. thread' = [thread EXCEPT ![t] = row]  OBVIOUS
  <1>5. ResultsAreTrue' /\ sent' = sent
        /\ last' \in [result: {"none", "accepted", "partial", "retryable", "terminal", "uncertain"},
                      reached: SUBSET Recipients]
    BY <1>1, QuietIsTrue
  <1> HIDE DEF row
  <1>6. thread' \in [Threads -> Sender] /\ Owned' /\ Passing' \subseteq Passing \cup {row.mail}
    <2>1. HasSlot(t)  BY DEF HasSlot
    <2>2. row.at \in {"connect", "send"} /\ slot'[row.slot].count < PerConnection  BY <1>3
    <2>3. UNCHANGED <<queue, mails, sent>> /\ \A k \in Mails : granted'[k] = granted[k]
      BY <1>5
    <2> QED  BY <1>1, <1>3, <1>4, <2>1, <2>2, <2>3, GoesOn
  <1>7. TypeOK'  BY <1>1, <1>5, <1>6, Typed DEF TypeOK, queue
  <1>8. Passing' \subseteq Passing
    <2>1. row.mail \in Passing  BY <1>2, <1>3 DEF Passing, Passed, MailIsMine, Mails
    <2> QED  BY <2>1, <1>6
  <1>9. Counted'  BY <1>1, <1>5, <1>7, <1>8, NothingPasses
  <1> QED  BY <1>5, <1>6, <1>7, <1>9 DEF SInv

LEMMA ReuseHolds ==
    ASSUME SInv, NEW t \in Threads, Reuse(t)
    PROVE  SInv'
  <1>1. /\ thread[t].at = "connect" /\ thread' = [thread EXCEPT ![t].at = "send"]
        /\ ~WornOut(slot[thread[t].slot]) /\ UNCHANGED <<queue, slot, granted, mails>> /\ Quiet
    BY DEF Reuse
  <1>2. thread[t].slot \in Slots  BY <1>1 DEF SInv, Owned, SlotGiven, HasSlot
  <1>3. slot \in [Slots -> Connection]  BY DEF SInv, TypeOK
  <1>4. slot[thread[t].slot].count \in 0..PerConnection  BY <1>2, <1>3 DEF Connection
  <1>5. slot[thread[t].slot].count < PerConnection  BY <1>1, <1>4, Numbers DEF WornOut
  <1> QED  BY <1>1, <1>3, <1>5, ConnectedHolds

LEMMA ConnectHolds ==
    ASSUME SInv, NEW t \in Threads, Connect(t)
    PROVE  SInv'
  <1>1. /\ thread[t].at = "connect" /\ thread' = [thread EXCEPT ![t].at = "send"]
        /\ slot' = [slot EXCEPT ![thread[t].slot] = Fresh]
        /\ UNCHANGED <<queue, granted, mails>> /\ Quiet
    BY DEF Connect
  <1>2. thread[t].slot \in Slots  BY <1>1 DEF SInv, Owned, SlotGiven, HasSlot
  <1>3. slot \in [Slots -> Connection]  BY DEF SInv, TypeOK
  <1>4. /\ slot' \in [Slots -> Connection] /\ slot'[thread[t].slot] = Fresh
        /\ \A s \in Slots : slot'[s] = slot[s] \/ s = thread[t].slot
    BY <1>1, <1>2, <1>3, Connections
  <1>5. slot'[thread[t].slot].count < PerConnection  BY <1>4, Connections, Numbers
  <1> QED  BY <1>1, <1>4, <1>5, ConnectedHolds

LEMMA ConnectFailsHolds ==
    ASSUME SInv, NEW t \in Threads, ConnectFails(t)
    PROVE  SInv'
  <1>1. TypeOK /\ Owned /\ Counted  BY DEF SInv
  <1>2. /\ thread[t].at = "connect" /\ slot' = [slot EXCEPT ![thread[t].slot] = Closed]
        /\ Release(t) /\ UNCHANGED <<granted, mails, sent>>
    BY DEF ConnectFails
  <1>3. PICK result \in {"retryable", "terminal", "uncertain"} :
           last' = [result |-> result, reached |-> {}]
    BY DEF ConnectFails
  <1>4. ResultsAreTrue'
        /\ last' \in [result: {"none", "accepted", "partial", "retryable", "terminal", "uncertain"},
                      reached: SUBSET Recipients]
    BY <1>3 DEF ResultsAreTrue
  <1>5. HasSlot(t)  BY <1>2 DEF HasSlot
  <1>6. slot' \in [Slots -> Connection] /\ \A s \in Slots : slot'[s] = slot[s] \/ s = thread[t].slot
    BY <1>1, <1>2, Connections DEF TypeOK
  <1>7. /\ thread' \in [Threads -> Sender]
        /\ available' \in Seq(Slots) /\ waiters' \in Seq(Threads)
        /\ Owned' /\ Passing' \subseteq Passing
    BY <1>1, <1>2, <1>5, <1>6, GoesBack
  <1>8. TypeOK'  BY <1>1, <1>2, <1>4, <1>6, <1>7, Typed DEF TypeOK
  <1>9. Counted'  BY <1>1, <1>2, <1>7, <1>8, NothingPasses
  <1> QED  BY <1>4, <1>7, <1>8, <1>9 DEF SInv

LEMMA SendHolds ==
    ASSUME SInv, NEW t \in Threads, Send(t)
    PROVE  SInv'
  <1>1. TypeOK /\ Owned /\ Counted  BY DEF SInv
  <1> DEFINE s == thread[t].slot
             m == thread[t].mail
  <1>2. PICK answer \in Answers :
           /\ slot' = [slot EXCEPT ![s] = IF Kept(answer)
                                          THEN [slot[s] EXCEPT !.count = @ + 1, !.idle = 0]
                                          ELSE Closed]
           /\ \E reached \in Reached(answer) :
                 last' = [result |-> Result(answer), reached |-> reached]
    BY DEF Send
  <1>3. PICK reached \in Reached(answer) : last' = [result |-> Result(answer), reached |-> reached]
    BY <1>2
  <1>4. ResultsAreTrue'
        /\ last' \in [result: {"none", "accepted", "partial", "retryable", "terminal", "uncertain"},
                      reached: SUBSET Recipients]
    BY <1>3, ResultIsTrue DEF ResultsAreTrue
  <1>5. /\ thread[t].at = "send" /\ sent' = [sent EXCEPT ![m] = 0]
        /\ Release(t) /\ UNCHANGED <<granted, mails>>
    BY DEF Send
  <1>6. HasSlot(t)  BY <1>5 DEF HasSlot
  <1>7. s \in Slots  BY <1>1, <1>6 DEF Owned, SlotGiven
  <1>8. slot' \in [Slots -> Connection] /\ \A q \in Slots : slot'[q] = slot[q] \/ q = s
    <2> DEFINE used == [slot[s] EXCEPT !.count = @ + 1, !.idle = 0]
    <2>1. slot \in [Slots -> Connection] /\ slot[s] \in Connection  BY <1>1, <1>7 DEF TypeOK
    <2>2. slot[s].count \in 0..PerConnection /\ slot[s].count < PerConnection
      BY <2>1, <1>1, <1>5 DEF Connection, Owned, RoomLeft
    <2>3. slot[s].count + 1 \in 0..PerConnection /\ 0 \in 0..MaxIdle  BY <2>2, Numbers
    <2>4. used \in Connection  BY <2>1, <2>3 DEF Connection
    <2>5. slot' = [slot EXCEPT ![s] = IF Kept(answer) THEN used ELSE Closed]  BY <1>2
    <2> HIDE DEF used, s
    <2> QED  BY <1>7, <2>1, <2>4, <2>5, Connections
  <1>9. m \in Passing /\ m \in Mails
    <2>1. MailIsMine /\ mails \in Nat /\ mails <= MaxMails /\ MaxMails \in Nat  BY <1>1, Parts
    <2>2. m \in Mails  BY <2>1, <1>5 DEF MailIsMine, Mails
    <2> QED  BY <2>2, <1>5 DEF Passing, Passed
  <1>10. sent' \in [Mails -> 0..Minute] /\ \A k \in Mails : sent'[k] = sent[k] \/ k = m
    <2>1. 0 \in 0..Minute  BY Numbers
    <2> QED  BY <1>1, <1>5, <2>1 DEF TypeOK
  <1>11. /\ thread' \in [Threads -> Sender]
         /\ available' \in Seq(Slots) /\ waiters' \in Seq(Threads)
         /\ Owned' /\ Passing' \subseteq Passing
    BY <1>1, <1>5, <1>6, <1>8, <1>10, GoesBack
  <1>12. TypeOK'  BY <1>1, <1>4, <1>5, <1>8, <1>10, <1>11, Typed DEF TypeOK
  <1>13. Counted'  BY <1>1, <1>5, <1>9, <1>10, <1>11, <1>12, NothingPasses
  <1> QED  BY <1>4, <1>11, <1>12, <1>13 DEF SInv

LEMMA TickHolds ==
    ASSUME SInv, Tick
    PROVE  SInv'
  <1>1. TypeOK /\ Owned /\ Counted  BY DEF SInv
  <1>2. UNCHANGED <<thread, available, waiters, mails>>  BY DEF Tick, queue
  <1>3. \A n \in Nat, bound \in Nat \ {0} : n \in 0..bound => Capped(n, bound) \in 0..bound
    BY DEF Capped
  <1>4. granted' \in [Mails -> 0..Minute] /\ sent' \in [Mails -> 0..Minute]
    <2>1. granted' = [m \in Mails |-> Capped(granted[m], Minute)]
          /\ sent' = [m \in Mails |-> Capped(sent[m], Minute)]
      BY DEF Tick, Aged
    <2>2. \A m \in Mails : granted[m] \in 0..Minute /\ sent[m] \in 0..Minute  BY <1>1 DEF TypeOK
    <2> QED  BY <1>3, <2>1, <2>2, Numbers
  <1>5. /\ slot' \in [Slots -> Connection]
        /\ \A s \in Slots : slot'[s].count = slot[s].count
    <2> DEFINE older(s) == [slot[s] EXCEPT !.age = Capped(@, MaxAge), !.idle = Capped(@, MaxIdle)]
    <2>1. slot' = [s \in Slots |-> IF slot[s].open THEN older(s) ELSE slot[s]]  BY DEF Tick
    <2>2. ASSUME NEW s \in Slots
          PROVE  older(s) \in Connection /\ older(s).count = slot[s].count /\ slot[s] \in Connection
      <3>1. slot[s] \in Connection  BY <1>1 DEF TypeOK
      <3>2. slot[s].age \in 0..MaxAge /\ slot[s].idle \in 0..MaxIdle  BY <3>1 DEF Connection
      <3>3. Capped(slot[s].age, MaxAge) \in 0..MaxAge /\ Capped(slot[s].idle, MaxIdle) \in 0..MaxIdle
        BY <1>3, <3>2, Numbers
      <3> QED  BY <3>1, <3>3 DEF Connection
    <2> HIDE DEF older
    <2> QED  BY <2>1, <2>2
  <1>6. ResultsAreTrue'
        /\ last' \in [result: {"none", "accepted", "partial", "retryable", "terminal", "uncertain"},
                      reached: SUBSET Recipients]
    BY NoResultFits DEF Tick, ResultsAreTrue
  <1>7. TypeOK'  BY <1>1, <1>2, <1>4, <1>5, <1>6, Typed DEF TypeOK
  <1>8. SlotGiven' /\ SlotIsMine' /\ AvailableIsFree' /\ LineIsTrue'
    BY <1>1, <1>2 DEF Owned, SlotGiven, SlotIsMine, AvailableIsFree, LineIsTrue, HasSlot
  <1>9. MailIsMine'
    <2>1. \A m \in Mails : /\ granted[m] = Minute => granted'[m] = Minute
                           /\ sent[m] = Minute => sent'[m] = Minute
      <3>1. granted' = [m \in Mails |-> Capped(granted[m], Minute)]
            /\ sent' = [m \in Mails |-> Capped(sent[m], Minute)]
        BY DEF Tick, Aged
      <3>2. Capped(Minute, Minute) = Minute  BY Numbers DEF Capped
      <3> QED  BY <3>1, <3>2
    <2>2. MailIsMine /\ mails \in Nat /\ mails <= MaxMails /\ MaxMails \in Nat  BY <1>1, Parts
    <2>3. \A t \in Threads : thread[t].at # "idle" => thread[t].mail \in Mails
      BY <2>2 DEF MailIsMine, Mails
    <2> QED  BY <1>2, <2>1, <2>2, <2>3 DEF MailIsMine, Passed
  <1>10. RoomLeft'
    BY <1>1, <1>2, <1>5 DEF Owned, RoomLeft, SlotGiven, HasSlot
  <1>11. Counted'  BY <1>1, AllAge DEF Owned
  <1> QED  BY <1>6, <1>7, <1>8, <1>9, <1>10, <1>11 DEF SInv, Owned

LEMMA NextHolds == SInv /\ [Next]_vars => SInv'
  <1> SUFFICES ASSUME SInv, [Next]_vars PROVE SInv'
    OBVIOUS
  <1>1. CASE Tick  BY <1>1, TickHolds
  <1>2. ASSUME NEW t \in Threads, Begin(t) \/ Step(t)  PROVE SInv'
    BY <1>2, BeginHolds, WakeHolds, PassHolds, ReuseHolds, ConnectHolds, ConnectFailsHolds,
       SendHolds DEF Step
  <1>3. CASE UNCHANGED vars
    BY <1>3 DEF SInv, TypeOK, Owned, SlotGiven, SlotIsMine, AvailableIsFree, LineIsTrue, MailIsMine,
       RoomLeft, Counted, RateKept, SlotsBound, UnderWay, Passing, Passed, HasSlot, Recent,
       ResultsAreTrue, vars
  <1> QED  BY <1>1, <1>2, <1>3 DEF Next

-----------------------------------------------------------------------------
(* Connections and mails are never shared, and the state is well formed.     *)
THEOREM PoolTyped == Spec => []TypeOK
  <1>1. SInv => TypeOK  BY DEF SInv
  <1> QED  BY <1>1, InitHolds, NextHolds, PTL DEF Spec

(* A slot has one user at a time: smtp_pool.py's pool checks it out for one  *)
(* thread, from acquiring it until it is given back, whatever fails.         *)
THEOREM OneUserEach == Spec => [](SlotIsMine /\ AvailableIsFree)
  <1>1. SInv => SlotIsMine /\ AvailableIsFree  BY DEF SInv, Owned
  <1> QED  BY <1>1, InitHolds, NextHolds, PTL DEF Spec

(* The server gets no more mails in a minute than the limit and one for each *)
(* connection.                                                               *)
THEOREM KeepsTheRate == Spec => []WithinRate
  <1>1. SInv => WithinRate  BY Bounded DEF SInv
  <1> QED  BY <1>1, InitHolds, NextHolds, PTL DEF Spec

(* A mail is only said to be unsent when nobody got it, and only said to be  *)
(* accepted when every recipient it was addressed to did.                    *)
THEOREM TellsTheTruth == Spec => []ResultsAreTrue
  <1>1. SInv => ResultsAreTrue  BY DEF SInv
  <1> QED  BY <1>1, InitHolds, NextHolds, PTL DEF Spec
=============================================================================
