-------------------------- MODULE MailIntakeProofs --------------------------
(***************************************************************************)
(* Only mails that are surely repair requests reach a ticket: for any      *)
(* conversation, any number of copies of its mails and any limits.  The    *)
(* links of a ticket follow from what is stored of a mail, and what is     *)
(* stored from the copy that was kept, whatever the model says of others.  *)
(***************************************************************************)
EXTENDS MailIntake, FiniteSetTheorems, WellFoundedInduction, TLAPS

Sure(m) ==
  \/ m \in byHand
  \/ \E c \in Copies : MailOf[c] = m /\ ledger[c].status = "first" /\ ledger[c].clear

\* The part of the type invariant that is needed: the rows of the mails and of the ledger.
RowsOfLedger ==
  ledger \in [Copies -> [status: {"none", "classifying", "retry_wait", "failed"} \cup Final,
                         attempts: Nat, clear: BOOLEAN]]

RowsOfMails == email \in [Mails -> Email]

\* A mail that is stored for a first intent is surely one.
KeptForGoodReason == \A m \in Mails : email[m].intent \in FirstIntents => Sure(m)

IInv == RowsOfLedger /\ RowsOfMails /\ KeptForGoodReason /\ OnlyWhenSure

-----------------------------------------------------------------------------
(* How a step may change what the invariant speaks of *)

\* A result of the classification is never taken back, nor what a person decided.
SureStays ==
  /\ byHand \subseteq byHand'
  /\ \A c \in Copies : ledger[c].status = "first" =>
       ledger'[c].status = "first" /\ ledger'[c].clear = ledger[c].clear

LEMMA SureForever ==
  ASSUME SureStays, NEW m, Sure(m)
  PROVE  Sure(m)'
  BY DEF SureStays, Sure

LEMMA InitIsFine == Init => IInv
  <1> SUFFICES ASSUME Init PROVE IInv
    OBVIOUS
  <1>1. RowsOfLedger
    BY DEF Init, RowsOfLedger, Row
  <1>2. RowsOfMails
    BY DEF Init, RowsOfMails, NoEmail, Email, Intents
  <1>3. KeptForGoodReason
    BY DEF Init, KeptForGoodReason, NoEmail, FirstIntents
  <1>4. OnlyWhenSure
    BY DEF Init, OnlyWhenSure
  <1> QED
    BY <1>1, <1>2, <1>3, <1>4 DEF IInv

\* SetParse and parse_attachment: the status of the parse, and nothing else of the mail.
LEMMA ParseStatusOnly ==
  ASSUME RowsOfMails, NEW m \in Mails,
         NEW parse \in {"none", "pending", "parsing", "parsed", "needs_manual"},
         email' = [email EXCEPT ![m].parse = parse]
  PROVE  RowsOfMails' /\ \A n \in Mails : email'[n].intent = email[n].intent
  BY DEF RowsOfMails, Email

\* A step that keeps the intents of the mails and what is sure keeps what is stored justified.
LEMMA StillKeptForGoodReason ==
  ASSUME KeptForGoodReason, SureStays, \A n \in Mails : email'[n].intent = email[n].intent
  PROVE  KeptForGoodReason'
  <1> SUFFICES ASSUME NEW m \in Mails, email'[m].intent \in FirstIntents PROVE Sure(m)'
    BY DEF KeptForGoodReason
  <1>1. Sure(m)
    BY DEF KeptForGoodReason
  <1> QED
    BY <1>1, SureForever

\* So does a step that stores one mail, if that one is sure when the step is done.
LEMMA OneMoreForGoodReason ==
  ASSUME KeptForGoodReason, SureStays, RowsOfMails, NEW m \in Mails, NEW e,
         email' = [email EXCEPT ![m] = e], e.intent \in FirstIntents => Sure(m)'
  PROVE  KeptForGoodReason'
  <1> SUFFICES ASSUME NEW n \in Mails, email'[n].intent \in FirstIntents PROVE Sure(n)'
    BY DEF KeptForGoodReason
  <1>1. ASSUME n = m PROVE Sure(n)'
    BY <1>1 DEF RowsOfMails
  <1>2. ASSUME n # m PROVE Sure(n)'
    <2>1. Sure(n)
      BY <1>2 DEF KeptForGoodReason, RowsOfMails
    <2> QED
      BY <2>1, SureForever
  <1> QED
    BY <1>1, <1>2

\* A step that adds to the links only mails that are sure.
LEMMA StillLinkedForGoodReason ==
  ASSUME OnlyWhenSure, SureStays, \A l \in links' \ links : Sure(l[1])
  PROVE  OnlyWhenSure'
  <1> SUFFICES ASSUME NEW l \in links' PROVE Sure(l[1])'
    BY DEF OnlyWhenSure, Sure
  <1>1. Sure(l[1])
    BY DEF OnlyWhenSure, Sure
  <1> QED
    BY <1>1, SureForever

-----------------------------------------------------------------------------
(* The thread a mail joins is one of a mail *)

\* A finite set of numbers, unless it is empty, has a greatest one.
LEMMA Greatest ==
  ASSUME NEW S, IsFiniteSet(S), S \subseteq Nat, S # {}
  PROVE  \E n \in S : \A o \in S : o <= n
  <1> DEFINE Above(n) == {o \in S : o > n}
             T == {Above(n) : n \in S}
  <1>1. IsWellFoundedOn(StrictSubsetOrdering(S), FiniteSubsetsOf(S))
    BY FS_StrictSubsetOrderingWellFounded
  <1>2. T \subseteq FiniteSubsetsOf(S)
    BY FS_FiniteSubsetsOfFinite
  <1>3. T # {}
    OBVIOUS
  <1>4. \E x \in T : \A y \in T : ~ (<<y, x>> \in StrictSubsetOrdering(S))
    <2> HIDE DEF T
    <2> QED
      BY <1>1, <1>2, <1>3, WFMin
  <1>5. PICK n \in S : \A o \in S : ~ (<<Above(o), Above(n)>> \in StrictSubsetOrdering(S))
    BY <1>4
  <1>6. ASSUME NEW o \in S, o > n PROVE FALSE
    <2>1. ASSUME NEW x \in S, x > o PROVE x > n
      BY <1>6, <2>1
    <2>2. Above(o) \subseteq Above(n)
      BY <2>1
    <2>3. o \in Above(n) /\ o \notin Above(o)
      BY <1>6
    <2> QED
      BY <1>5, <2>2, <2>3 DEF StrictSubsetOrdering
  <1> QED
    BY <1>6

\* _find_thread_for_email: whichever mails of the references are known.
LEMMA ThreadOfAMail ==
  ASSUME RowsOfMails, NEW m \in Mails
  PROVE  ThreadFor(m) \in {0} \cup Mails
  <1> DEFINE known == {n \in Mails : n \in Ancestors[m] /\ email[n].thread # 0}
  <1>1. ThreadFor(m) = IF known = {} THEN m
                       ELSE email[CHOOSE n \in known : \A o \in known : o <= n].thread
    BY DEF ThreadFor
  <1>2. IsFiniteSet(known) /\ known \subseteq Nat
    BY MailsAssumption, FS_Subset
  <1>3. known \subseteq Mails
    OBVIOUS
  <1> HIDE DEF known
  <1>4. ASSUME known # {}
        PROVE  (CHOOSE n \in known : \A o \in known : o <= n) \in Mails
    <2>1. \E n \in known : \A o \in known : o <= n
      BY <1>2, <1>4, Greatest
    <2> QED
      BY <2>1, <1>3
  <1> QED
    BY <1>1, <1>4 DEF RowsOfMails, Email

LEMMA BusinessRow ==
  ASSUME RowsOfMails, NEW m \in Mails, NEW intent \in Intents, NEW locked \in BOOLEAN
  PROVE  Business(m, intent, locked) \in Email /\ Business(m, intent, locked).intent = intent
  BY ThreadOfAMail DEF Business, Email

-----------------------------------------------------------------------------
(* The steps: arrival and classification *)

\* A copy is taken up or fails: it had no result, and its mail stays what it is.
LEMMA LedgerOnly ==
  ASSUME IInv, NEW c \in Copies, NEW row, ledger' = [ledger EXCEPT ![c] = row],
         row \in [status: {"none", "classifying", "retry_wait", "failed"} \cup Final,
                  attempts: Nat, clear: BOOLEAN],
         ledger[c].status # "first", email' = email, links' = links, byHand' = byHand
  PROVE  IInv'
  <1>1. RowsOfLedger' /\ RowsOfMails'
    BY DEF IInv, RowsOfLedger, RowsOfMails
  <1>2. SureStays
    BY DEF IInv, RowsOfLedger, SureStays
  <1>3. KeptForGoodReason'
    BY <1>2, StillKeptForGoodReason DEF IInv
  <1>4. OnlyWhenSure'
    BY <1>2, StillLinkedForGoodReason DEF IInv
  <1> QED
    BY <1>1, <1>3, <1>4 DEF IInv

LEMMA TakeKeeps ==
  ASSUME IInv, NEW c \in Copies, Take(c)
  PROVE  IInv'
  <1> DEFINE row == IF Duplicate(c) THEN Row("other", 0)
                    ELSE Row("classifying", ledger[c].attempts + 1)
  <1>1. ledger' = [ledger EXCEPT ![c] = row] /\ ledger[c].status # "first"
    BY DEF Take, IInv, RowsOfLedger
  <1>2. row \in [status: {"none", "classifying", "retry_wait", "failed"} \cup Final,
                 attempts: Nat, clear: BOOLEAN]
    BY DEF Row, IInv, RowsOfLedger, Final
  <1>3. email' = email /\ links' = links /\ byHand' = byHand
    BY DEF Take, kept, tickets, people
  <1> HIDE DEF row
  <1> QED
    BY <1>1, <1>2, <1>3, LedgerOnly

LEMMA IngressFailsKeeps ==
  ASSUME IInv, NEW c \in Copies, IngressFails(c)
  PROVE  IInv'
  <1> DEFINE row == IF ledger[c].attempts < MaxAttempts
                    THEN Row("retry_wait", ledger[c].attempts) ELSE Row("failed", 0)
  <1>1. ledger' = [ledger EXCEPT ![c] = row] /\ ledger[c].status # "first"
    BY DEF IngressFails, IInv, RowsOfLedger
  <1>2. row \in [status: {"none", "classifying", "retry_wait", "failed"} \cup Final,
                 attempts: Nat, clear: BOOLEAN]
    BY DEF Row, IInv, RowsOfLedger
  <1>3. email' = email /\ links' = links /\ byHand' = byHand
    BY DEF IngressFails, kept, tickets, people
  <1> HIDE DEF row
  <1> QED
    BY <1>1, <1>2, <1>3, LedgerOnly

\* The levels, one by one.
LEMMA LevelOfFirst ==
  ASSUME NEW intent \in FirstIntents
  PROVE  Level(intent) = "first"
  <1>1. intent # "manual" /\ intent # "lifecycle" /\ intent # "unknown"
    BY DEF FirstIntents
  <1> QED
    BY <1>1, Zenon DEF Level

LEMMA FirstLevel ==
  ASSUME NEW intent \in Intents, Level(intent) = "first"
  PROVE  intent \in FirstIntents
  <1>1. "manual" \notin FirstIntents /\ "lifecycle" \notin FirstIntents
        /\ "unknown" \notin FirstIntents
    BY DEF FirstIntents
  <1>2. Level("manual") = "second" /\ Level("lifecycle") = "third"
        /\ Level("unknown") = "unknown"
    BY <1>1 DEF Level
  <1> QED
    BY <1>2 DEF Intents

\* What the classification answers for a copy settles what it is sure of.
LEMMA ClassifyKeeps ==
  ASSUME IInv, NEW c \in Copies, Classify(c)
  PROVE  IInv'
  <1> DEFINE m == MailOf[c]
  <1>1. PICK answer \in Intents, confident \in BOOLEAN, agrees \in BOOLEAN :
          LET intent == Decision(answer, confident, agrees)
          IN  /\ \/ KeepMinimal(m, intent)
                 \/ KeepBusiness(m, intent)
                 \/ KeepNothing(intent)
              /\ ledger' = [ledger EXCEPT ![c] =
                   [Row(IF Level(intent) = "first" THEN "first" ELSE "other", 0)
                      EXCEPT !.clear = confident /\ agrees /\ Level(answer) = "first"]]
    BY DEF Classify
  <1> DEFINE intent == Decision(answer, confident, agrees)
             status == IF Level(intent) = "first" THEN "first" ELSE "other"
             clear == confident /\ agrees /\ Level(answer) = "first"
             row == [status |-> status, attempts |-> 0, clear |-> clear]
  <1>2. /\ KeepMinimal(m, intent) \/ KeepBusiness(m, intent) \/ KeepNothing(intent)
        /\ ledger' = [ledger EXCEPT ![c] = row]
    <2>1. \A b, d : [Row(b, 0) EXCEPT !.clear = d]
                      = [status |-> b, attempts |-> 0, clear |-> d]
      BY DEF Row
    <2> QED
      BY <1>1, <2>1
  <1>3. m \in Mails /\ intent \in Intents
    BY CopiesAssumption DEF Decision, Intents
  <1>4. row \in [status: {"none", "classifying", "retry_wait", "failed"} \cup Final,
                 attempts: Nat, clear: BOOLEAN]
    BY DEF Final
  <1>5. ledger[c].status # "first" /\ links' = links /\ byHand' = byHand
    BY DEF Classify, tickets, people
  <1>6. RowsOfLedger' /\ SureStays
    <2> HIDE DEF row
    <2> QED
      BY <1>2, <1>4, <1>5 DEF IInv, RowsOfLedger, SureStays
  <1>7. ASSUME intent \in FirstIntents PROVE Sure(m)'
    <2>1. confident /\ agrees /\ intent = answer
      BY <1>7 DEF Decision, FirstIntents
    <2>2. Level(intent) = "first"
      BY <1>7, LevelOfFirst
    <2>3. row.status = "first" /\ row.clear
      BY <2>1, <2>2
    <2> HIDE DEF row
    <2>4. ledger'[c] = row
      BY <1>2 DEF IInv, RowsOfLedger
    <2> QED
      BY <2>3, <2>4 DEF Sure
  <1> HIDE DEF intent, m
  <1>8. OnlyWhenSure'
    BY <1>5, <1>6, StillLinkedForGoodReason DEF IInv
  <1>9. ASSUME email' = email PROVE RowsOfMails' /\ KeptForGoodReason'
    BY <1>6, <1>9, StillKeptForGoodReason DEF IInv, RowsOfMails
  <1>10. ASSUME NEW e \in Email, e.intent = intent, email' = [email EXCEPT ![m] = e]
         PROVE  RowsOfMails' /\ KeptForGoodReason'
    <2>1. RowsOfMails'
      BY <1>10 DEF IInv, RowsOfMails
    <2>2. KeptForGoodReason'
      BY <1>3, <1>6, <1>7, <1>10, OneMoreForGoodReason DEF IInv
    <2> QED
      BY <2>1, <2>2
  <1>11. ASSUME KeepMinimal(m, intent) PROVE RowsOfMails' /\ KeptForGoodReason'
    <2> DEFINE e == [tier |-> "minimal", intent |-> intent, thread |-> 0,
                     parse |-> "needs_manual", locked |-> FALSE]
    <2>1. email' = email \/ email' = [email EXCEPT ![m] = e]
      BY <1>11 DEF KeepMinimal, NoEmail
    <2>2. e \in Email /\ e.intent = intent
      BY <1>3 DEF Email
    <2> HIDE DEF e
    <2> QED
      BY <2>1, <2>2, <1>9, <1>10
  <1>12. ASSUME KeepBusiness(m, intent) PROVE RowsOfMails' /\ KeptForGoodReason'
    <2>1. email' = email \/ email' = [email EXCEPT ![m] = Business(m, intent, FALSE)]
      BY <1>12 DEF KeepBusiness
    <2>2. Business(m, intent, FALSE) \in Email /\ Business(m, intent, FALSE).intent = intent
      BY <1>3, BusinessRow DEF IInv
    <2> QED
      BY <2>1, <2>2, <1>9, <1>10
  <1>13. ASSUME KeepNothing(intent) PROVE RowsOfMails' /\ KeptForGoodReason'
    BY <1>13, <1>9 DEF KeepNothing, kept
  <1>14. RowsOfMails' /\ KeptForGoodReason'
    BY <1>2, <1>11, <1>12, <1>13
  <1> QED
    BY <1>6, <1>8, <1>14 DEF IInv

-----------------------------------------------------------------------------
(* The steps: parses and people *)

\* A parse adds at most a link of its own mail, which is stored for a first intent, and changes
\* the parse status of that mail only.
LEMMA ParseStep ==
  ASSUME IInv, NEW m \in Mails, ledger' = ledger, byHand' = byHand,
         NEW parse \in {"none", "pending", "parsing", "parsed", "needs_manual"},
         email' = email \/ email' = [email EXCEPT ![m].parse = parse],
         links' = links \/ (Parsed(m) /\ \E k : links' = links \cup {<<m, k>>})
  PROVE  IInv'
  <1>1. SureStays /\ RowsOfLedger'
    BY DEF IInv, SureStays, RowsOfLedger
  <1>2. RowsOfMails' /\ \A n \in Mails : email'[n].intent = email[n].intent
    BY ParseStatusOnly DEF IInv, RowsOfMails
  <1>3. KeptForGoodReason'
    BY <1>1, <1>2, StillKeptForGoodReason DEF IInv
  <1>4. ASSUME NEW l \in links' \ links PROVE Sure(l[1])
    <2>1. l[1] = m /\ email[m].intent \in FirstIntents
      BY <1>4 DEF Parsed
    <2> QED
      BY <2>1 DEF IInv, KeptForGoodReason
  <1>5. OnlyWhenSure'
    BY <1>1, <1>4, StillLinkedForGoodReason DEF IInv
  <1> QED
    BY <1>1, <1>2, <1>3, <1>5 DEF IInv

LEMMA ParseBeginsKeeps ==
  ASSUME IInv, NEW a \in Actors, NEW m \in Mails, ParseBegins(a, m)
  PROVE  IInv'
  <1>1. ledger' = ledger /\ links' = links /\ byHand' = byHand
    BY DEF ParseBegins, tickets
  <1>2. email' = email \/ email' = [email EXCEPT ![m].parse = "parsing"]
    BY DEF ParseBegins, ReadAttachments
  <1> QED
    BY <1>1, <1>2, ParseStep

\* The outcomes that touch a ticket are those of a mail for a first intent.
LEMMA ParseEndsKeeps ==
  ASSUME IInv, NEW a \in Actors, NEW m \in Mails, ParseEnds(a, m)
  PROVE  IInv'
  <1> DEFINE Asked2 == email' = [email EXCEPT ![m].parse = "needs_manual"] /\ links' = links
             Joined == /\ Parsed(m)
                       /\ \E parse \in {"parsed", "needs_manual"} :
                            email' = [email EXCEPT ![m].parse = parse]
                       /\ \E k : links' = links \cup {<<m, k>>}
  <1>1. ledger' = ledger /\ byHand' = byHand
    BY DEF ParseEnds, people
  <1>2. ASSUME AskAboutMail(m) PROVE Asked2
    BY <1>2 DEF AskAboutMail, SetParse, tickets
  <1>3. ASSUME Parsed(m), NEW k, NEW type, Review(m, k, type) PROVE Joined
    BY <1>3 DEF Review, SetParse, JoinTicket
  <1>4. ASSUME Parsed(m), NEW k, Adopt(m, k) PROVE Joined
    BY <1>4 DEF Adopt, Apply, SetParse, JoinTicket
  <1>5. \/ AskAboutMail(m)
        \/ Parsed(m) /\ \E k, type : Review(m, k, type)
        \/ Parsed(m) /\ \E k : Adopt(m, k)
    BY DEF ParseEnds, Outcome, NoAnswer, Doubtful, Clear
  <1>6. Asked2 \/ Joined
    <2> HIDE DEF Asked2, Joined
    <2> QED
      BY <1>2, <1>3, <1>4, <1>5
  <1>7. CASE Asked2
    BY <1>1, <1>7, ParseStep
  <1>8. CASE Joined
    <2>1. PICK parse \in {"parsed", "needs_manual"} : email' = [email EXCEPT ![m].parse = parse]
      BY <1>8
    <2> QED
      BY <1>1, <1>8, <2>1, ParseStep
  <1> QED
    BY <1>6, <1>7, <1>8

\* resolve_task, promote_to_first: the mail becomes one a person took for a repair request.
LEMMA PromoteKeeps ==
  ASSUME IInv, NEW t \in tasks, NEW intent \in FirstIntents, Promote(t, intent)
  PROVE  IInv'
  <1> DEFINE m == t[1]
  <1>1. ledger' = ledger /\ links' = links /\ byHand' = byHand \cup {m}
    BY DEF Promote, tickets
  <1>2. email' = email \/ email' = [email EXCEPT ![m] = Business(m, intent, TRUE)]
    BY DEF Promote
  <1> HIDE DEF m
  <1>3. SureStays /\ RowsOfLedger' /\ Sure(m)'
    BY <1>1 DEF IInv, SureStays, RowsOfLedger, Sure
  <1>4. ASSUME email' = email PROVE RowsOfMails' /\ KeptForGoodReason'
    BY <1>3, <1>4, StillKeptForGoodReason DEF IInv, RowsOfMails
  <1>5. ASSUME m \notin Mails, email' = [email EXCEPT ![m] = Business(m, intent, TRUE)]
        PROVE  email' = email
    BY <1>5 DEF IInv, RowsOfMails
  <1>6. ASSUME m \in Mails, email' = [email EXCEPT ![m] = Business(m, intent, TRUE)]
        PROVE  RowsOfMails' /\ KeptForGoodReason'
    <2> DEFINE e == Business(m, intent, TRUE)
    <2>1. e \in Email
      BY <1>6, BusinessRow DEF IInv, Intents
    <2> HIDE DEF e
    <2>2. email' = [email EXCEPT ![m] = e]
      BY <1>6 DEF e
    <2>3. RowsOfMails'
      BY <2>1, <2>2 DEF IInv, RowsOfMails
    <2>4. KeptForGoodReason'
      BY <1>3, <1>6, <2>2, OneMoreForGoodReason DEF IInv
    <2> QED
      BY <2>3, <2>4
  <1>7. RowsOfMails' /\ KeptForGoodReason'
    BY <1>2, <1>4, <1>5, <1>6
  <1>8. OnlyWhenSure'
    BY <1>1, <1>3, StillLinkedForGoodReason DEF IInv
  <1> QED
    BY <1>3, <1>7, <1>8 DEF IInv

\* A step that touches neither the mails, nor the ledger, nor the links.
LEMMA OthersKeep ==
  ASSUME IInv, ledger' = ledger, email' = email, links' = links, byHand' = byHand
  PROVE  IInv'
  BY DEF IInv, RowsOfLedger, RowsOfMails, KeptForGoodReason, OnlyWhenSure, Sure

LEMMA StepKeeps == IInv /\ [Next]_vars => IInv'
  <1> SUFFICES ASSUME IInv, [Next]_vars PROVE IInv'
    OBVIOUS
  <1>1. ASSUME NEW c \in Copies, Ingress(c) PROVE IInv'
    BY <1>1, TakeKeeps, ClassifyKeeps, IngressFailsKeeps DEF Ingress
  <1>2. ASSUME NEW a \in Actors, NEW m \in Mails, Parse(a, m) PROVE IInv'
    <2>1. ASSUME ParseFails(a, m) PROVE IInv'
      BY <2>1, OthersKeep DEF ParseFails, tickets, people
    <2> QED
      BY <1>2, <2>1, ParseBeginsKeeps, ParseEndsKeeps DEF Parse
  <1>3. ASSUME NEW t \in tasks, Resolve(t) PROVE IInv'
    BY <1>3, OthersKeep DEF Resolve
  <1>4. ASSUME NEW t \in tasks, NEW intent \in FirstIntents, Promote(t, intent) PROVE IInv'
    BY <1>4, PromoteKeeps
  <1>5. ASSUME NEW k \in Tickets, CloseTicket(k) PROVE IInv'
    BY <1>5, OthersKeep DEF CloseTicket, kept, people
  <1>6. CASE UNCHANGED vars
    BY <1>6, OthersKeep DEF vars, kept, tickets, people
  <1>7. CASE Next
    BY <1>1, <1>2, <1>3, <1>4, <1>5, <1>7 DEF Next
  <1> QED
    BY <1>6, <1>7

\* A ticket is opened or changed only by a mail that the model was sure of or that a person took
\* for a repair request, for every conversation and every number of copies, attempts and people.
THEOREM TicketsOnlyFromSureMails == Spec => []OnlyWhenSure
  <1>1. IInv => OnlyWhenSure
    BY DEF IInv
  <1> QED
    BY InitIsFine, StepKeeps, <1>1, PTL DEF Spec

-----------------------------------------------------------------------------
(* The rows keep their shape.  The bounds on the attempts need that a copy   *)
(* or a job that waits has an attempt left.                                  *)
CopiesFit ==
  /\ ledger \in [Copies -> [status: {"none", "classifying", "retry_wait", "failed"} \cup Final,
                             attempts: 0..MaxAttempts, clear: BOOLEAN]]
  /\ \A c \in Copies : ledger[c].status \in {"none", "retry_wait"} =>
                          ledger[c].attempts < MaxAttempts

Tries == [status: {"none", "queued", "running", "success", "failed"}, attempts: 0..MaxAttempts]

JobsFit ==
  /\ job \in [JobKinds \X Mails -> Tries]
  /\ \A x \in JobKinds \X Mails : job[x].status = "queued" => job[x].attempts < MaxAttempts

TicketsFit ==
  /\ current \in [Mails -> {0} \cup Tickets]
  /\ ticket \in [Tickets -> {"none", "review", "open", "closed"}]
  /\ links \subseteq Mails \X Tickets
  /\ \A t \in tasks : t[1] \in Mails /\ t[2] \in {0} \cup Tickets

ParsesFit == run \in [Actors \X Mails -> Run]

PeopleFit == requests \in 0..MaxRequests /\ byHand \subseteq Mails

Shaped == /\ IInv /\ CopiesFit /\ JobsFit /\ TicketsFit /\ ParsesFit /\ PeopleFit

LEMMA InitIsShaped == Init => Shaped
  <1> SUFFICES ASSUME Init PROVE Shaped
    OBVIOUS
  <1>0. MaxAttempts \in Nat \ {0} /\ MaxTickets \in Nat \ {0} /\ MaxRequests \in Nat \ {0}
    BY BoundsAssumption
  <1>1. CopiesFit
    BY <1>0 DEF Init, CopiesFit, Row
  <1>2. JobsFit
    BY <1>0 DEF Init, JobsFit, Tries
  <1>3. TicketsFit
    BY DEF Init, TicketsFit
  <1>4. ParsesFit
    BY DEF Init, ParsesFit, Run, NoRun
  <1>5. PeopleFit
    BY <1>0 DEF Init, PeopleFit
  <1> QED
    BY <1>1, <1>2, <1>3, <1>4, <1>5, InitIsFine DEF Shaped

\* A row of the ledger that is written.
LEMMA LedgerWritten ==
  ASSUME CopiesFit, NEW c \in Copies, NEW row, ledger' = [ledger EXCEPT ![c] = row],
         row.status \in {"none", "classifying", "retry_wait", "failed"} \cup Final,
         row \in [status: {"none", "classifying", "retry_wait", "failed"} \cup Final,
                  attempts: 0..MaxAttempts, clear: BOOLEAN],
         row.status \in {"none", "retry_wait"} => row.attempts < MaxAttempts
  PROVE  CopiesFit'
  BY DEF CopiesFit

LEMMA IngressShaped ==
  ASSUME Shaped, NEW c \in Copies, Ingress(c)
  PROVE  CopiesFit'
  <1>0. MaxAttempts \in Nat \ {0}
    BY BoundsAssumption
  <1>1. ledger[c] \in [status: {"none", "classifying", "retry_wait", "failed"} \cup Final,
                       attempts: 0..MaxAttempts, clear: BOOLEAN]
    BY DEF Shaped, CopiesFit
  <1>2. ASSUME Take(c) PROVE CopiesFit'
    <2> DEFINE row == IF Duplicate(c) THEN Row("other", 0)
                      ELSE Row("classifying", ledger[c].attempts + 1)
    <2>1. ledger' = [ledger EXCEPT ![c] = row] /\ ledger[c].attempts < MaxAttempts
      BY <1>2 DEF Take, Shaped, CopiesFit
    <2>2. /\ row \in [status: {"none", "classifying", "retry_wait", "failed"} \cup Final,
                      attempts: 0..MaxAttempts, clear: BOOLEAN]
          /\ row.status \notin {"none", "retry_wait"}
      BY <1>0, <1>1, <2>1 DEF Row, Final
    <2> HIDE DEF row
    <2> QED
      BY <2>1, <2>2, LedgerWritten DEF Shaped
  <1>3. ASSUME IngressFails(c) PROVE CopiesFit'
    <2> DEFINE row == IF ledger[c].attempts < MaxAttempts
                      THEN Row("retry_wait", ledger[c].attempts) ELSE Row("failed", 0)
    <2>1. ledger' = [ledger EXCEPT ![c] = row]
      BY <1>3 DEF IngressFails, Shaped, CopiesFit
    <2>2. /\ row \in [status: {"none", "classifying", "retry_wait", "failed"} \cup Final,
                      attempts: 0..MaxAttempts, clear: BOOLEAN]
          /\ row.status \in {"none", "retry_wait"} => row.attempts < MaxAttempts
      BY <1>0, <1>1 DEF Row
    <2> HIDE DEF row
    <2> QED
      BY <2>1, <2>2, LedgerWritten DEF Shaped
  <1>4. ASSUME Classify(c) PROVE CopiesFit'
    <2>1. PICK answer \in Intents, confident \in BOOLEAN, agrees \in BOOLEAN :
            ledger' = [ledger EXCEPT ![c] =
              [Row(IF Level(Decision(answer, confident, agrees)) = "first" THEN "first"
                   ELSE "other", 0)
                 EXCEPT !.clear = confident /\ agrees /\ Level(answer) = "first"]]
      BY <1>4 DEF Classify
    <2> DEFINE status == IF Level(Decision(answer, confident, agrees)) = "first" THEN "first"
                         ELSE "other"
               clear == confident /\ agrees /\ Level(answer) = "first"
               row == [status |-> status, attempts |-> 0, clear |-> clear]
    <2>2. ledger' = [ledger EXCEPT ![c] = row]
      <3>1. \A b, d : [Row(b, 0) EXCEPT !.clear = d]
                        = [status |-> b, attempts |-> 0, clear |-> d]
        BY DEF Row
      <3> QED
        BY <2>1, <3>1
    <2>3. /\ row \in [status: {"none", "classifying", "retry_wait", "failed"} \cup Final,
                      attempts: 0..MaxAttempts, clear: BOOLEAN]
          /\ row.status \notin {"none", "retry_wait"}
      BY <1>0 DEF Final
    <2> HIDE DEF row
    <2> QED
      BY <2>2, <2>3, LedgerWritten DEF Shaped
  <1> QED
    BY <1>2, <1>3, <1>4 DEF Ingress

\* What is kept of a copy gives its mail a job, or leaves the jobs alone.
LEMMA QueueFits ==
  ASSUME JobsFit, NEW kind \in JobKinds, NEW m \in Mails, job' = Queue(kind, m)
  PROVE  JobsFit'
  <1>1. Queued \in Tries /\ Queued.attempts < MaxAttempts
    BY BoundsAssumption DEF Queued, Tries
  <1>2. <<kind, m>> \in JobKinds \X Mails
    OBVIOUS
  <1> QED
    BY <1>1, <1>2 DEF JobsFit, Queue

LEMMA ClassifyShaped ==
  ASSUME Shaped, NEW c \in Copies, Classify(c)
  PROVE  JobsFit' /\ TicketsFit'
  <1> DEFINE m == MailOf[c]
  <1>1. m \in Mails
    BY CopiesAssumption
  <1>2. \E intent : KeepMinimal(m, intent) \/ KeepBusiness(m, intent) \/ KeepNothing(intent)
    BY DEF Classify
  <1>3. current' = current /\ ticket' = ticket /\ links' = links
    BY DEF Classify, tickets
  <1> HIDE DEF m
  <1>4. ASSUME NEW intent, KeepMinimal(m, intent) PROVE JobsFit' /\ TicketsFit'
    BY <1>1, <1>3, <1>4 DEF KeepMinimal, Shaped, JobsFit, TicketsFit
  <1>5. ASSUME NEW intent, KeepBusiness(m, intent) PROVE JobsFit' /\ TicketsFit'
    <2>1. job' = job \/ job' = Queue("first", m)
      BY <1>5 DEF KeepBusiness
    <2>2. JobsFit'
      BY <1>1, <2>1, QueueFits DEF Shaped, JobsFit, JobKinds
    <2> QED
      BY <1>3, <1>5, <2>2 DEF KeepBusiness, Shaped, TicketsFit
  <1>6. ASSUME NEW intent, KeepNothing(intent) PROVE JobsFit' /\ TicketsFit'
    BY <1>3, <1>6 DEF KeepNothing, kept, Shaped, JobsFit, TicketsFit
  <1> QED
    BY <1>2, <1>4, <1>5, <1>6

\* A job that is written.
LEMMA JobWritten ==
  ASSUME JobsFit, NEW a \in JobKinds, NEW m \in Mails, NEW row \in Tries,
         row.status = "queued" => row.attempts < MaxAttempts,
         job' = [job EXCEPT ![<<a, m>>] = row]
  PROVE  JobsFit'
  <1>1. <<a, m>> \in JobKinds \X Mails
    OBVIOUS
  <1> QED
    BY <1>1 DEF JobsFit

LEMMA ParseWritten ==
  ASSUME ParsesFit, NEW a \in Actors, NEW m \in Mails, NEW row \in Run,
         run' = [run EXCEPT ![<<a, m>>] = row]
  PROVE  ParsesFit'
  BY DEF ParsesFit

LEMMA NoRunIs == NoRun \in Run
  BY DEF NoRun, Run

\* reparse_email, up to the call of the model: the links of a mail have a latest one.
LEMMA ParseBeginsShaped ==
  ASSUME Shaped, NEW a \in Actors, NEW m \in Mails, ParseBegins(a, m)
  PROVE  JobsFit' /\ ParsesFit' /\ PeopleFit'
  <1>0. MaxAttempts \in Nat \ {0} /\ MaxTickets \in Nat \ {0} /\ MaxRequests \in Nat \ {0}
    BY BoundsAssumption
  <1> DEFINE k == ThreadTicket(m)
             link == IF Linked(m) = {} THEN 0
                     ELSE CHOOSE l \in Linked(m) : \A o \in Linked(m) : o <= l
             row == [busy |-> TRUE, ticket |-> k, closed |-> k # 0 /\ ticket[k] = "closed",
                     link |-> link]
  <1>1. k \in {0} \cup Tickets
    <2>1. email[m].thread \in {0} \cup Mails
      BY DEF Shaped, IInv, RowsOfMails, Email
    <2> QED
      BY <2>1 DEF ThreadTicket, Shaped, TicketsFit
  <1>2. link \in {0} \cup Tickets
    <2>1. Linked(m) \subseteq Tickets
      BY DEF Linked
    <2>2. Tickets \subseteq Nat /\ IsFiniteSet(Tickets)
      BY <1>0, FS_Interval DEF Tickets
    <2>3. IsFiniteSet(Linked(m)) /\ Linked(m) \subseteq Nat
      BY <2>1, <2>2, FS_Subset
    <2>4. ASSUME Linked(m) # {}
          PROVE  (CHOOSE l \in Linked(m) : \A o \in Linked(m) : o <= l) \in Linked(m)
      <3>1. \E l \in Linked(m) : \A o \in Linked(m) : o <= l
        BY <2>3, <2>4, Greatest
      <3> QED
        BY <3>1
    <2> QED
      BY <2>1, <2>4
  <1>3. row \in Run
    <2> HIDE DEF k, link
    <2> QED
      BY <1>1, <1>2 DEF Run
  <1>4. run' = [run EXCEPT ![<<a, m>>] = row]
    BY DEF ParseBegins
  <1>5. ParsesFit'
    <2> HIDE DEF row
    <2> QED
      BY <1>3, <1>4, ParseWritten DEF Shaped
  <1>6. PeopleFit'
    <2>1. requests' \in 0..MaxRequests
      <3>1. CASE a = "person"
        <4>1. a \notin JobKinds
          BY <3>1 DEF JobKinds
        <4>2. requests < MaxRequests /\ requests' = requests + 1
          BY <3>1, <4>1 DEF ParseBegins
        <4> QED
          BY <1>0, <4>2 DEF Shaped, PeopleFit
      <3>2. CASE a # "person"
        BY <3>2 DEF ParseBegins, Shaped, PeopleFit
      <3> QED
        BY <3>1, <3>2
    <2> QED
      BY <2>1 DEF ParseBegins, Shaped, PeopleFit
  <1>7. JobsFit'
    <2>1. CASE a \in JobKinds
      <3> DEFINE next == [status |-> "running", attempts |-> job[a, m].attempts + 1]
      <3>1. <<a, m>> \in JobKinds \X Mails
        BY <2>1
      <3>2. job[a, m].status = "queued" /\ job' = [job EXCEPT ![<<a, m>>] = next]
        BY <2>1, <3>1 DEF ParseBegins, Shaped, JobsFit
      <3>3. job[a, m].attempts \in 0..MaxAttempts /\ job[a, m].attempts < MaxAttempts
        BY <3>1, <3>2 DEF Shaped, JobsFit, Tries
      <3>4. next \in Tries /\ next.status # "queued"
        <4>1. ASSUME NEW n \in 0..MaxAttempts, n < MaxAttempts PROVE n + 1 \in 0..MaxAttempts
          BY <1>0, <4>1
        <4>2. job[a, m].attempts + 1 \in 0..MaxAttempts
          BY <3>3, <4>1
        <4> QED
          BY <4>2 DEF Tries
      <3> HIDE DEF next
      <3> QED
        BY <2>1, <3>2, <3>4, JobWritten DEF Shaped
    <2>2. CASE a \notin JobKinds
      BY <2>2 DEF ParseBegins, Shaped, JobsFit
    <2> QED
      BY <2>1, <2>2
  <1> QED
    BY <1>5, <1>6, <1>7

\* What becomes of the tickets and the tasks when the parse ends.
LEMMA JoinFits ==
  ASSUME TicketsFit, NEW m \in Mails, NEW k \in Tickets, JoinTicket(m, k)
  PROVE  links' \subseteq Mails \X Tickets /\ current' \in [Mails -> {0} \cup Tickets]
  <1>1. links' \subseteq Mails \X Tickets
    BY DEF JoinTicket, TicketsFit
  <1>2. current' = [current EXCEPT ![email[m].thread] = k]
    BY DEF JoinTicket
  <1>3. current' \in [Mails -> {0} \cup Tickets]
    BY <1>2 DEF TicketsFit
  <1> QED
    BY <1>1, <1>3

LEMMA TaskFits ==
  ASSUME TicketsFit, NEW m \in Mails, NEW k \in {0} \cup Tickets, NEW type,
         NEW t \in OpenTask(<<m, k, type>>)
  PROVE  t[1] \in Mails /\ t[2] \in {0} \cup Tickets
  BY DEF OpenTask, TicketsFit

LEMMA ReviewShaped ==
  ASSUME TicketsFit, NEW m \in Mails, NEW k, NEW type, Review(m, k, type)
  PROVE  TicketsFit'
  <1>1. k \in Tickets /\ JoinTicket(m, k) /\ tasks' = OpenTask(<<m, k, type>>)
    BY DEF Review
  <1>2. ticket' \in [Tickets -> {"none", "review", "open", "closed"}]
    BY DEF Review, TicketsFit
  <1>3. \A t \in tasks' : t[1] \in Mails /\ t[2] \in {0} \cup Tickets
    BY <1>1, TaskFits
  <1> QED
    BY <1>1, <1>2, <1>3, JoinFits DEF TicketsFit

LEMMA AdoptShaped ==
  ASSUME TicketsFit, NEW m \in Mails, NEW k, Adopt(m, k)
  PROVE  TicketsFit'
  <1> DEFINE left == tasks \ {<<m, k, "ai_review">>}
  <1>1. PICK status : /\ k \in Tickets /\ JoinTicket(m, k)
                      /\ ticket' = [ticket EXCEPT ![k] = StatusAfter(@, status)]
    BY DEF Adopt, Apply
  <1>2. StatusAfter(ticket[k], status) \in {"none", "review", "open", "closed"}
    BY <1>1 DEF StatusAfter, TicketsFit
  <1>3. ticket' \in [Tickets -> {"none", "review", "open", "closed"}]
    BY <1>1, <1>2 DEF TicketsFit
  <1>4. tasks' \subseteq tasks
    BY DEF Adopt
  <1> QED
    BY <1>1, <1>3, <1>4, JoinFits DEF TicketsFit

LEMMA AskShaped ==
  ASSUME TicketsFit, NEW m \in Mails, AskAboutMail(m)
  PROVE  TicketsFit'
  <1>1. \A t \in tasks' : t[1] \in Mails /\ t[2] \in {0} \cup Tickets
    BY TaskFits DEF AskAboutMail
  <1> QED
    BY <1>1 DEF AskAboutMail, tickets, TicketsFit

LEMMA ParseEndsShaped ==
  ASSUME Shaped, NEW a \in Actors, NEW m \in Mails, ParseEnds(a, m)
  PROVE  JobsFit' /\ ParsesFit' /\ TicketsFit'
  <1>1. \/ AskAboutMail(m)
        \/ \E k, type : Review(m, k, type)
        \/ \E k : Adopt(m, k)
    BY DEF ParseEnds, Outcome, NoAnswer, Doubtful, Clear
  <1>2. TicketsFit'
    BY <1>1, AskShaped, ReviewShaped, AdoptShaped DEF Shaped
  <1>3. ParsesFit'
    BY NoRunIs, ParseWritten DEF ParseEnds, Shaped
  <1>4. JobsFit'
    <2>1. Done("success") \in Tries /\ Done("success").status # "queued"
      BY BoundsAssumption DEF Done, Tries
    <2>2. CASE a \in JobKinds
      BY <2>1, <2>2, JobWritten DEF ParseEnds, Shaped
    <2>3. CASE a \notin JobKinds
      BY <2>3 DEF ParseEnds, Shaped, JobsFit
    <2> QED
      BY <2>2, <2>3
  <1> QED
    BY <1>2, <1>3, <1>4

LEMMA ParseFailsShaped ==
  ASSUME Shaped, NEW a \in Actors, NEW m \in Mails, ParseFails(a, m)
  PROVE  JobsFit' /\ ParsesFit'
  <1>1. ParsesFit'
    BY NoRunIs, ParseWritten DEF ParseFails, Shaped
  <1>2. JobsFit'
    <2>1. CASE a \in JobKinds
      <3>1. <<a, m>> \in JobKinds \X Mails
        BY <2>1
      <3>2. job[a, m] \in Tries
        BY <3>1 DEF Shaped, JobsFit
      <3>3. Done("failed") \in Tries /\ Done("failed").status # "queued"
        BY BoundsAssumption DEF Done, Tries
      <3>4. /\ Retry(a, m) \in Tries
            /\ Retry(a, m).status = "queued" => Retry(a, m).attempts < MaxAttempts
        <4>1. CASE job[a, m].attempts < MaxAttempts
          BY <3>2, <4>1 DEF Retry, Tries
        <4>2. CASE ~(job[a, m].attempts < MaxAttempts)
          BY <3>3, <4>2 DEF Retry
        <4> QED
          BY <4>1, <4>2
      <3>5. job' = [job EXCEPT ![<<a, m>>] = Retry(a, m)]
        BY <2>1 DEF ParseFails
      <3> QED
        BY <2>1, <3>4, <3>5, JobWritten DEF Shaped
    <2>2. CASE a \notin JobKinds
      BY <2>2 DEF ParseFails, Shaped, JobsFit
    <2> QED
      BY <2>1, <2>2
  <1> QED
    BY <1>1, <1>2

LEMMA PromoteShaped ==
  ASSUME Shaped, NEW t \in tasks, NEW intent, Promote(t, intent)
  PROVE  JobsFit' /\ TicketsFit' /\ PeopleFit'
  <1>1. t[1] \in Mails
    BY DEF Shaped, TicketsFit
  <1>2. job' = job \/ job' = Queue("promotion", t[1])
    BY DEF Promote
  <1>3. JobsFit'
    BY <1>1, <1>2, QueueFits DEF Shaped, JobsFit, JobKinds
  <1>4. TicketsFit'
    BY DEF Promote, tickets, Shaped, TicketsFit
  <1>5. PeopleFit'
    BY <1>1, BoundsAssumption DEF Promote, Shaped, PeopleFit
  <1> QED
    BY <1>3, <1>4, <1>5

LEMMA ResolveShaped ==
  ASSUME Shaped, NEW t \in tasks, Resolve(t)
  PROVE  TicketsFit' /\ PeopleFit'
  <1>1. TicketsFit'
    BY DEF Resolve, Shaped, TicketsFit
  <1>2. PeopleFit'
    BY BoundsAssumption DEF Resolve, Shaped, PeopleFit
  <1> QED
    BY <1>1, <1>2

LEMMA StepStaysShaped == Shaped /\ [Next]_vars => Shaped'
  <1> SUFFICES ASSUME Shaped, [Next]_vars PROVE Shaped'
    OBVIOUS
  <1>1. IInv'
    BY StepKeeps DEF Shaped
  <1> DEFINE Fits == CopiesFit' /\ JobsFit' /\ TicketsFit' /\ ParsesFit' /\ PeopleFit'
  <1>2. UNCHANGED ledger => CopiesFit'
    BY DEF Shaped, CopiesFit
  <1>3. UNCHANGED job => JobsFit'
    BY DEF Shaped, JobsFit
  <1>4. UNCHANGED <<tickets, tasks>> => TicketsFit'
    BY DEF Shaped, TicketsFit, tickets
  <1>5. UNCHANGED run => ParsesFit'
    BY DEF Shaped, ParsesFit
  <1>6. UNCHANGED people => PeopleFit'
    BY DEF Shaped, PeopleFit, people
  <1>7. ASSUME NEW c \in Copies, Ingress(c) PROVE Fits
    <2>1. UNCHANGED <<run, people>> /\ (Classify(c) \/ UNCHANGED <<kept, tickets>>)
      BY <1>7 DEF Ingress, Take, Classify, IngressFails
    <2>2. UNCHANGED <<kept, tickets>> => JobsFit' /\ TicketsFit'
      BY <1>3, <1>4 DEF kept
    <2> QED
      BY <1>5, <1>6, <1>7, <2>1, <2>2, IngressShaped, ClassifyShaped
  <1>8. ASSUME NEW a \in Actors, NEW m \in Mails, Parse(a, m) PROVE Fits
    <2>1. ASSUME ParseBegins(a, m) PROVE Fits
      BY <1>2, <1>4, <2>1, ParseBeginsShaped DEF ParseBegins
    <2>2. ASSUME ParseEnds(a, m) PROVE Fits
      BY <1>2, <1>6, <2>2, ParseEndsShaped DEF ParseEnds
    <2>3. ASSUME ParseFails(a, m) PROVE Fits
      BY <1>2, <1>4, <1>6, <2>3, ParseFailsShaped DEF ParseFails
    <2> QED
      BY <1>8, <2>1, <2>2, <2>3 DEF Parse
  <1>9. ASSUME NEW t \in tasks, Resolve(t) PROVE Fits
    BY <1>2, <1>3, <1>5, <1>9, ResolveShaped DEF Resolve
  <1>10. ASSUME NEW t \in tasks, NEW intent, Promote(t, intent) PROVE Fits
    BY <1>2, <1>5, <1>10, PromoteShaped DEF Promote
  <1>11. ASSUME NEW k \in Tickets, CloseTicket(k) PROVE Fits
    <2>1. TicketsFit'
      BY <1>11 DEF CloseTicket, kept, Shaped, TicketsFit
    <2> QED
      BY <1>2, <1>3, <1>5, <1>6, <1>11, <2>1 DEF CloseTicket, kept
  <1>12. ASSUME UNCHANGED vars PROVE Fits
    BY <1>2, <1>3, <1>4, <1>5, <1>6, <1>12 DEF vars, kept
  <1>13. ASSUME Next PROVE Fits
    BY <1>7, <1>8, <1>9, <1>10, <1>11, <1>13 DEF Next
  <1> QED
    BY <1>1, <1>12, <1>13 DEF Shaped

\* The rows of the ledger, of the mails, of tickets and tasks, and the parses in progress keep
\* their shape, and neither a copy nor a job is tried more often than the limit says, however
\* copies, models, failures and people come together.
THEOREM IntakeTyped == Spec => []TypeOK
  <1>1. Shaped => TypeOK
    BY DEF Shaped, IInv, RowsOfMails, CopiesFit, JobsFit, TicketsFit, ParsesFit, PeopleFit,
           Tries, TypeOK
  <1> QED
    BY <1>1, InitIsShaped, StepStaysShaped, PTL DEF Spec

-----------------------------------------------------------------------------
(* What the reading of a mail guarantees for every route, file and result.   *)

(* The gateway *)

\* A call after the first one is made only because every call before it failed in passing.
LEMMA FirstCall == 1 \in Calls /\ Endpoint(1) = 1
  <1>1. Retries \in Nat
    BY RouteAssumption
  <1>2. (IF Fallback THEN 2 ELSE 1) * (Retries + 1) \in Nat \ {0}
    <2>1. CASE Fallback
      BY <1>1, <2>1
    <2>2. CASE ~Fallback
      BY <1>1, <2>2
    <2> QED
      BY <2>1, <2>2
  <1> QED
    BY <1>1, <1>2 DEF Calls, Endpoint

\* The calls of invoke_structured end with the first answer or the first lasting error: no second
\* call of a route can end it, so no answer is thrown away and no request is paid for twice.
THEOREM OneCallEnds ==
  ASSUME NEW said, NEW n \in Made(said), NEW k \in Made(said),
         said[n] \notin Passing, said[k] \notin Passing
  PROVE  n = k
  <1>1. n \in Nat /\ k \in Nat /\ n >= 1 /\ k >= 1
    BY RouteAssumption DEF Made, Calls
  <1>2. ~(k < n)
    BY <1>1 DEF Made
  <1>3. ~(n < k)
    BY <1>1 DEF Made
  <1> QED
    BY <1>1, <1>2, <1>3

\* When the first endpoint has no key, nobody is asked, although llm_task_configured counts the
\* key of the fallback: the missing key is a lasting error.
THEOREM NoKeyNoFallback ==
  ASSUME NEW keys, NEW says, 1 \notin keys
  PROVE  ~Answered(keys, says)
  <1> DEFINE said == Said(keys, says)
  <1>1. said[1] = "no_key"
    BY FirstCall DEF Said
  <1>2. ASSUME NEW n \in Made(said), said[n] = "answer"
        PROVE  FALSE
    <2>1. n \in Nat /\ n >= 1
      BY RouteAssumption DEF Made, Calls
    <2>2. CASE n = 1
      BY <1>1, <1>2, <2>2
    <2>3. CASE n > 1
      <3>1. 1 \in 1 .. (n - 1)
        BY <2>1, <2>3
      <3> QED
        BY <1>1, <3>1, <1>2 DEF Made, Passing
    <2> QED
      BY <2>1, <2>2, <2>3
  <1> QED
    BY <1>2 DEF Answered

\* When both endpoints have keys and the first one only fails in passing, the fallback is asked,
\* and its answer counts.
THEOREM FallbackAnswers ==
  ASSUME Fallback, NEW keys, 1 \in keys, 2 \in keys, NEW says,
         \A k \in 1 .. (Retries + 1) : says[k] \in Passing, says[Retries + 2] = "answer"
  PROVE  Answered(keys, says)
  <1> DEFINE n == Retries + 2
             said == Said(keys, says)
  <1>1. Retries \in Nat
    BY RouteAssumption
  <1>2. n \in Calls /\ \A k \in 1 .. (n - 1) : k \in Calls /\ k \in 1 .. (Retries + 1)
    BY <1>1 DEF Calls
  <1>3. said[n] = "answer"
    BY <1>1, <1>2 DEF Said, Endpoint
  <1>4. \A k \in 1 .. (n - 1) : said[k] \in Passing
    BY <1>1, <1>2 DEF Said, Endpoint
  <1>5. n \in Made(said)
    BY <1>2, <1>4 DEF Made
  <1>6. Configured(keys)
    BY DEF Configured, Endpoints
  <1> QED
    BY <1>3, <1>5, <1>6 DEF Answered

-----------------------------------------------------------------------------
(* Attachments *)

\* A text file that can be opened is parsed whether or not the model answers, unless it is a prc
\* file of bytes or has no text: an outage does not send the mails with such files to a person.
THEOREM TextNeedsNoModel ==
  ASSUME NEW f \in File, f.type \in {"txt", "prc"}, Opened(f, TRUE),
         f.content = "text"
  PROVE  \A answered \in BOOLEAN : Status(f, TRUE, answered) = "parsed"
  BY DEF Status, Opened, Archive, Parsable, Decorative, Unreadable, LocalText

-----------------------------------------------------------------------------
(* The result *)

\* In a result that no person looks at every attachment was read, from an intact file of a size that
\* is read, by a model or for its text, but for archives, decorative images, and a prc file when
\* nothing is missing: whatever the files are, the store gives and the models answer.
THEOREM ReadOrNotNeeded ==
  ASSUME NEW x, NEW thread, NEW files, ~RequiresManual(x, thread, files),
         NEW f \in File, NEW up \in BOOLEAN, NEW answered \in BOOLEAN,
         [type |-> f.type, status |-> Status(f, up, answered)] \in files
  PROVE  \/ Archive(f, up)
         \/ Decorative(f)
         \/ f.type = "prc" /\ Missing(x, thread) = {}
         \/ f.archived /\ up /\ ~f.large /\ ~Unreadable(f) /\ (answered \/ LocalText(f))
  <1> DEFINE status == Status(f, up, answered)
  <1>1. status \in {"needs_manual_review", "unsupported"} =>
           f.type = "prc" /\ Missing(x, thread) = {}
    <2> DEFINE file == [type |-> f.type, status |-> status]
    <2>1. file.type = f.type /\ file.status = status /\ file \in files
      OBVIOUS
    <2> HIDE DEF file, status
    <2> QED
      BY <2>1 DEF RequiresManual, Unread
  <1>2. status \notin {"needs_manual_review", "unsupported"} =>
           \/ Archive(f, up)
           \/ Decorative(f)
           \/ Opened(f, up) /\ Parsable(f, answered)
    BY DEF Status
  <1> HIDE DEF status
  <1> QED
    BY <1>1, <1>2 DEF Opened, Parsable

\* A result of low confidence that no person looks at is complete and without conflicts, and
\* either the answer to what a ticket asked for, or a repair whose return fields the mail states.
THEOREM LowConfidenceIsComplete ==
  ASSUME NEW x, x.confidence = "low", NEW thread, NEW files, ~RequiresManual(x, thread, files)
  PROVE  /\ Missing(x, thread) = {} /\ Conflicts(x, thread) = {}
         /\ \/ Supplement(x) /\ thread.linked /\ thread.lacks # {}
            \/ x.intent = "new_repair" /\ "return" \in x.fields /\ x.returns = "explicit"
  <1>1. Confidence(x, thread) = "sure" \/ MayAsk(x, thread)
    BY DEF RequiresManual
  <1>2. Recovered(x, thread) \/ Explicit(x, thread)
    BY <1>1 DEF Confidence, MayAsk
  <1> QED
    BY <1>2 DEF Recovered, Explicit, Complete

\* Return fields that are only in a signature are not taken: a repair is never complete with them.
THEOREM SignatureIsNoAddress ==
  ASSUME NEW x, x.intent # "customer_supplement", x.returns = "signature", NEW thread
  PROVE  "return" \in Missing(x, thread)
  BY DEF Missing, Kept, Supplement, Fields

\* A supplement never brings the serial number that its ticket lacks, whatever it says: the items
\* of a supplement are replaced by those of the ticket, and no field holds a serial number.
THEOREM SupplementBringsNoSn ==
  ASSUME NEW x \in Extraction, Supplement(x), NEW thread, thread.linked, "sn" \in thread.lacks
  PROVE  "sn" \in Missing(x, thread) /\ ~Recovered(x, thread)
  <1>1. "sn" \notin Kept(x)
    BY DEF Kept, Extraction, Fields
  <1> QED
    BY <1>1 DEF Missing, Recovered, Complete
=============================================================================
