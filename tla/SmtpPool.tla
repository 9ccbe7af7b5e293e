------------------------------- MODULE SmtpPool -------------------------------
(***************************************************************************)
(* The pool of connections to the mail server: threads that send take a    *)
(* connection or wait for one, keep to a rate, connect again when the      *)
(* connection is worn out, and turn what the server says into the result   *)
(* that ReplyDelivery acts on.                                             *)
(*                                                                         *)
(* Time is counted in ticks and every time stamp is kept as an age; of a   *)
(* mail, the age Minute stands for longer ago, and for never.  The settings*)
(* do not change while a process runs, so a process has one pool; only     *)
(* tests reset it.                                                         *)
(***************************************************************************)
EXTENDS Integers, Sequences, FiniteSets

CONSTANTS Threads,
          Size,           \* SMTP_MAX_CONNECTIONS
          PerConnection,  \* SMTP_MESSAGES_PER_CONNECTION
          MaxAge,         \* SMTP_CONNECTION_MAX_AGE_SECONDS
          MaxIdle,        \* SMTP_IDLE_TIMEOUT_SECONDS
          Limit,          \* SMTP_RATE_LIMIT_PER_MINUTE
          Minute,         \* a minute
          To, Cc,         \* the recipients of a mail
          MaxMails        \* bound: the mails that are sent

ASSUME BoundsAssumption ==
  {Size, PerConnection, MaxAge, MaxIdle, Limit, Minute, MaxMails} \subseteq Nat \ {0}
ASSUME RecipientsAssumption == IsFiniteSet(To) /\ IsFiniteSet(Cc) /\ To # {} /\ To \cap Cc = {}

VARIABLES thread,     \* what each thread does, and the slot it has, or 0
          available,  \* the slots nobody has, in the order they came back
          waiters,    \* the threads that wait for a slot, in order
          slot,       \* [slot -> its connection]
          granted,    \* [mail -> how long ago the rate limit let it pass]
          mails,      \* how many mails were begun
          last,       \* history: what the send that just ended was said to be, whom it reached
          sent        \* history: [mail -> how long ago it was put to the server]

vars == <<thread, available, waiters, slot, granted, mails, last, sent>>
queue == <<available, waiters>>

-----------------------------------------------------------------------------
Slots == 1..Size
Mails == 1..MaxMails
Recipients == To \cup Cc

Sender == [at: {"idle", "waiting", "notified", "rate", "connect", "send"},
           slot: 0..Size, mail: 0..MaxMails]

Idle == [at |-> "idle", slot |-> 0, mail |-> 0]
At(where, s, m) == [at |-> where, slot |-> s, mail |-> m]

Connection == [open: BOOLEAN, age: 0..MaxAge, idle: 0..MaxIdle, count: 0..PerConnection]

Closed == [open |-> FALSE, age |-> 0, idle |-> 0, count |-> 0]
Fresh == [Closed EXCEPT !.open = TRUE]

NoResult == [result |-> "none", reached |-> {}]

\* No send ends in this step.
Quiet == last' = NoResult /\ UNCHANGED sent

\* The mails whose time stamp is of the last minute.
Recent(ages) == {m \in Mails : ages[m] < Minute}

Init ==
  /\ thread = [t \in Threads |-> Idle]
  /\ available = [s \in Slots |-> s]
  /\ waiters = <<>>
  /\ slot = [s \in Slots |-> Closed]
  /\ granted = [m \in Mails |-> Minute]
  /\ mails = 0
  /\ last = NoResult
  /\ sent = [m \in Mails |-> Minute]

-----------------------------------------------------------------------------
(* The slots *)

\* With the lock of the condition: the first slot there is, or the end of the line.
Acquire(t, m) ==
  IF available # <<>>
  THEN /\ thread' = [thread EXCEPT ![t] = At("rate", Head(available), m)]
       /\ available' = Tail(available)
       /\ UNCHANGED waiters
  ELSE /\ thread' = [thread EXCEPT ![t] = At("waiting", 0, m)]
       /\ waiters' = Append(waiters, t)
       /\ UNCHANGED available

\* A thread that was not asked to wait may be faster than one that was notified.
Begin(t) ==
  /\ thread[t].at = "idle" /\ mails < MaxMails
  /\ mails' = mails + 1
  /\ Acquire(t, mails + 1)
  /\ UNCHANGED <<slot, granted>> /\ Quiet

Wake(t) ==
  /\ thread[t].at = "notified"
  /\ Acquire(t, thread[t].mail)
  /\ UNCHANGED <<slot, granted, mails>> /\ Quiet

BugRelease(t) ==
  /\ available' = Append(available, thread[t].slot)
  /\ thread' = [thread EXCEPT ![t] = Idle]
  /\ UNCHANGED waiters

\* Whatever became of the send, the slot goes back and the first of the line is notified.
Release(t) ==
  /\ available' = Append(available, thread[t].slot)
  /\ IF waiters = <<>>
     THEN thread' = [thread EXCEPT ![t] = Idle] /\ UNCHANGED waiters
     ELSE /\ thread' = [thread EXCEPT ![t] = Idle, ![Head(waiters)].at = "notified"]
          /\ waiters' = Tail(waiters)

-----------------------------------------------------------------------------
(* The rate and the connection *)

BugMayPass == Cardinality(Recent(granted)) <= Limit

\* _rate_limit: the sends of the last minute, counted when they are let through.  A thread that
\* may not pass sleeps with its slot.
MayPass == Cardinality(Recent(granted)) < Limit

Pass(t) ==
  /\ thread[t].at = "rate" /\ MayPass
  /\ granted' = [granted EXCEPT ![thread[t].mail] = 0]
  /\ thread' = [thread EXCEPT ![t].at = "connect"]
  /\ UNCHANGED <<queue, slot, mails>> /\ Quiet

\* _requires_reconnect, apart from the NOOP that the server may not answer.
WornOut(c) == ~c.open \/ c.count >= PerConnection \/ c.age >= MaxAge \/ c.idle >= MaxIdle

Reuse(t) ==
  /\ thread[t].at = "connect" /\ ~WornOut(slot[thread[t].slot])
  /\ thread' = [thread EXCEPT ![t].at = "send"]
  /\ UNCHANGED <<queue, slot, granted, mails>> /\ Quiet

Connect(t) ==
  /\ thread[t].at = "connect"
  /\ slot' = [slot EXCEPT ![thread[t].slot] = Fresh]
  /\ thread' = [thread EXCEPT ![t].at = "send"]
  /\ UNCHANGED <<queue, granted, mails>> /\ Quiet

\* The server refuses the connection or the login with a code, or does not answer.
ConnectFails(t) ==
  /\ thread[t].at = "connect"
  /\ slot' = [slot EXCEPT ![thread[t].slot] = Closed]
  /\ \E result \in {"retryable", "terminal", "uncertain"} :
       last' = [result |-> result, reached |-> {}]
  /\ Release(t)
  /\ UNCHANGED <<granted, mails, sent>>

-----------------------------------------------------------------------------
(* The send *)

\* What the server says: of each recipient, and of the mail as a whole (the sender and the data).
\* later: a code 4xx; never: 5xx.  lost: the connection breaks, before or after the data arrived.
Codes == {"taken", "later", "never"}
Answers == [of : [Recipients -> Codes], data : Codes \cup {"lost"}]

Refused(answer) == {r \in Recipients : answer.of[r] # "taken"}

Verdict(codes) == IF codes = {"later"} THEN "retryable" ELSE "terminal"

BugResult(answer) ==
  IF answer.data = "lost" THEN "uncertain"
  ELSE IF Refused(answer) # {} THEN Verdict({answer.of[r] : r \in Refused(answer)})
  ELSE IF answer.data # "taken" THEN Verdict({answer.data})
  ELSE "accepted"

\* The exceptions of smtplib, and the branches of _send_reply_via_smtp, in their order.
Result(answer) ==
  IF answer.data = "lost" THEN "uncertain"
  ELSE IF Refused(answer) = Recipients THEN Verdict({answer.of[r] : r \in Recipients})
  ELSE IF answer.data # "taken" THEN Verdict({answer.data})
  ELSE IF Refused(answer) \subseteq Cc THEN "accepted"
  ELSE "partial"

\* Whom the mail may reach: after a loss nobody, or all that were not refused.
Reached(answer) ==
  LET all == Recipients \ Refused(answer)
  IN  CASE answer.data = "taken" -> {all}
        [] answer.data = "lost"  -> {{}, all}
        [] OTHER                 -> {{}}

\* smtplib raises nothing when some recipient took the mail; every exception closes the connection.
Kept(answer) == answer.data = "taken" /\ Refused(answer) # Recipients

Send(t) ==
  /\ thread[t].at = "send"
  /\ \E answer \in Answers :
       /\ slot' = [slot EXCEPT ![thread[t].slot] =
                     IF Kept(answer)
                     THEN [slot[thread[t].slot] EXCEPT !.count = @ + 1, !.idle = 0]
                     ELSE Closed]
       /\ \E reached \in Reached(answer) :
            last' = [result |-> Result(answer), reached |-> reached]
  /\ sent' = [sent EXCEPT ![thread[t].mail] = 0]
  /\ Release(t)
  /\ UNCHANGED <<granted, mails>>

-----------------------------------------------------------------------------
Capped(n, bound) == IF n < bound THEN n + 1 ELSE n

Aged(ages) == [m \in Mails |-> Capped(ages[m], Minute)]

Tick ==
  /\ granted' = Aged(granted) /\ sent' = Aged(sent)
  /\ slot' = [s \in Slots |-> IF slot[s].open
                              THEN [slot[s] EXCEPT !.age = Capped(@, MaxAge),
                                                   !.idle = Capped(@, MaxIdle)]
                              ELSE slot[s]]
  /\ last' = NoResult
  /\ UNCHANGED <<thread, queue, mails>>

Step(t) == Wake(t) \/ Pass(t) \/ Reuse(t) \/ Connect(t) \/ ConnectFails(t) \/ Send(t)

Next == Tick \/ \E t \in Threads : Begin(t) \/ Step(t)

\* Time passes, and a thread goes on: every call to the server has a time-out.
Fairness == WF_vars(Tick) /\ \A t \in Threads : WF_vars(Step(t))

Spec == Init /\ [][Next]_vars /\ Fairness

-----------------------------------------------------------------------------
\* The types of the variables.
TypeOK ==
  /\ thread \in [Threads -> Sender]
  /\ available \in Seq(Slots) /\ waiters \in Seq(Threads)
  /\ slot \in [Slots -> Connection]
  /\ granted \in [Mails -> 0..Minute] /\ sent \in [Mails -> 0..Minute] /\ mails \in 0..MaxMails
  /\ last \in [result: {"none", "accepted", "partial", "retryable", "terminal", "uncertain"},
               reached: SUBSET Recipients]

\* The server gets no more mails in a minute than the limit and one for every connection: the rate
\* is counted before a connection is made, and that may take a thread into the next minute.
WithinRate == Cardinality(Recent(sent)) <= Limit + Size

\* A result that lets the mail be sent again, or gives it up, is only given when nobody got it;
\* and a mail that counts as accepted reached every recipient it was addressed to.
ResultsAreTrue ==
  /\ last.result \in {"retryable", "terminal"} => last.reached = {}
  /\ last.result = "accepted" => To \subseteq last.reached

\* Every mail that was begun gets a result: no thread waits for ever, for a slot or for the rate,
\* although sends fail, threads overtake each other and wait with a slot in their hands.
EverySendEnds == \A t \in Threads : thread[t].at # "idle" ~> thread[t].at = "idle"
=============================================================================
