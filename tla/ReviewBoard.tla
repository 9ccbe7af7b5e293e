----------------------------- MODULE ReviewBoard -----------------------------
(***************************************************************************)
(* Who has to work on a manual-review task: its owner, the person who      *)
(* claims it, the notifications that tell them, and the operators there    *)
(* are.  One task of a ticket (or of a mail without a ticket) is followed, *)
(* from its creation to its resolution; what a resolution does to the      *)
(* ticket is in TicketFlow.  The ticket is not closed: its closing         *)
(* resolves the notifications of all its tasks.                            *)
(*                                                                         *)
(* No handler locks the task or the users.  A transaction (a request on    *)
(* the task, the repair that the scheduler runs every five minutes, the    *)
(* dismissal of an operator) reads the rows, decides, and its commit       *)
(* writes the columns whose values it changed.  A handler is an operator   *)
(* from the stored rows to the outcomes it may have; one transaction at a  *)
(* time may be slow, so that others commit between its read and its        *)
(* commit.  The status assignment_failed is tested by the code but never   *)
(* given.                                                                  *)
(***************************************************************************)
CONSTANTS Miya, Demi,   \* the two operators that tasks fall to
          Others,       \* the other operators
          Admins,       \* administrators, who are not operators
          Nobody        \* no user

ASSUME UsersAssumption ==
  /\ Miya # Demi /\ {Miya, Demi} \cap (Others \cup Admins \cup {Nobody}) = {}
  /\ Others \cap Admins = {} /\ Nobody \notin Others \cup Admins

VARIABLES
  db,       \* the stored rows: the task, its ticket's owner, the active operators
  told,     \* the users with an unresolved notification of the task
  slow,     \* the transaction that has read but not committed
  raced     \* how another one came between its read and its commit

boardVars == <<db, told, slow, raced>>

-----------------------------------------------------------------------------
Pair == {Miya, Demi}
Operators == Pair \cup Others
Users == Operators \cup Admins
Open == {"pending", "assigned", "claimed"}

\* kind: a task of a ticket or of a mail.  keeper: assigned_user_id of the ticket.  scope: whom
\* the customer scope of the ticket makes the first choice
\* (Miya when there is none).  corrected, handed: whether the log
\* has ticket_owner_corrected for the ticket, manual_task_assigned for the task.  took: who
\* became the owner by claiming a task without one.  staff: the active users who are operators.
BoardRows == [kind: {"ticket", "mail"}, status: Open \cup {"none", "resolved"},
              owner: Users \cup {Nobody}, claimer: Users \cup {Nobody}, keeper: Users \cup {Nobody},
              scope: Pair, corrected: BOOLEAN, handed: BOOLEAN, took: Users \cup {Nobody},
              staff: SUBSET Operators]

\* An outcome: the rows as the handler leaves them, whether it resolves the notifications of the
\* task, and whom it notifies then.
Quiet(rows) == [rows |-> rows, quiet |-> TRUE, tell |-> {}]
Only(rows) == [rows |-> rows, quiet |-> FALSE, tell |-> {}]
Tells(rows, u) == [rows |-> rows, quiet |-> FALSE, tell |-> {u}]
Renews(rows, u) == [rows |-> rows, quiet |-> TRUE, tell |-> {u}]

-----------------------------------------------------------------------------
(* Whom a task falls to *)

ScopeOwner(b) ==
  LET backup == CHOOSE u \in Pair : u # b.scope
  IN  CASE b.scope \in b.staff -> b.scope
        [] b.scope \notin b.staff /\ backup \in b.staff -> backup
        [] OTHER -> Nobody

TaskOwner(b, preferred) == IF preferred \in b.staff THEN preferred ELSE ScopeOwner(b)

First(u, v) == IF u # Nobody THEN u ELSE v

\* create_manual_task_if_missing and create_email_manual_task_if_missing
Create(b) ==
  LET owner == TaskOwner(b, IF b.kind = "ticket" THEN b.keeper ELSE Nobody)
  IN  IF b.status = "none" /\ owner # Nobody
      THEN {Tells([b EXCEPT !.status = "pending", !.owner = owner], owner)} ELSE {}

BugAskAgain(b) ==
  LET owner == TaskOwner(b, First(b.owner, b.keeper))
  IN  IF b.status \in Open /\ b.kind = "ticket" /\ owner \notin {Nobody, b.owner}
      THEN {Quiet([b EXCEPT !.status = "pending", !.owner = owner, !.claimer = Nobody])} ELSE {}

\* The same for a task that is open: its owner is replaced when he is no operator any more.
AskAgain(b) ==
  LET owner == TaskOwner(b, First(b.owner, b.keeper))
  IN  IF b.status \in Open /\ b.kind = "ticket" /\ owner \notin {Nobody, b.owner}
      THEN {Renews([b EXCEPT !.status = "pending", !.owner = owner, !.claimer = Nobody], owner)}
      ELSE {}

\* route_ticket_by_customer_scope, after the customer policy has set the scope
Route(b, scope) ==
  LET scoped == [b EXCEPT !.scope = scope]
      owner == ScopeOwner(scoped)
      kept == [scoped EXCEPT !.keeper = IF b.corrected THEN @ ELSE owner]
      free == b.status \in Open \ {"claimed"} /\ b.claimer = Nobody /\ ~b.handed
  IN  CASE b.kind # "ticket" -> {}
        [] b.kind = "ticket" /\ owner = Nobody -> {Only(scoped)}
        [] OTHER -> {IF free THEN Renews([kept EXCEPT !.owner = owner, !.status = "pending"], owner)
                     ELSE Only(kept)}

-----------------------------------------------------------------------------
(* The endpoints of a task *)

Claim(b, u) ==
  IF b.status \in {"pending", "assigned"} /\ b.owner \in {Nobody, u}
  THEN {Only([b EXCEPT !.status = "claimed", !.claimer = u, !.owner = u,
                       !.took = IF b.owner = Nobody THEN u ELSE @,
                       !.keeper = IF b.kind = "ticket" THEN First(@, u) ELSE @])}
  ELSE {}

\* u is an active operator, or Nobody to take the task from its owner.
Assign(b, u) ==
  LET freed == IF u = Nobody \/ b.status = "pending" THEN [b EXCEPT !.claimer = Nobody] ELSE b
      state == CASE u = Nobody -> "pending"
                 [] u # Nobody /\ b.status = "pending" -> "assigned"
                 [] OTHER -> b.status
      rows == [freed EXCEPT !.owner = u, !.status = state, !.handed = TRUE,
                            !.keeper = IF b.kind = "ticket" THEN u ELSE @]
  IN  CASE b.status \notin Open -> {}
        [] b.status \in Open /\ u = Nobody -> {Only(rows)}
        [] OTHER -> {Tells(rows, u)}

BugRelease(b, u) ==
  IF b.status \in {"claimed", "assigned"} THEN {Only([b EXCEPT !.status = "released"])} ELSE {}

Release(b, u) ==
  IF b.status \in {"claimed", "assigned"} /\ b.claimer \in {Nobody, u}
  THEN {Only([b EXCEPT !.status = "pending", !.claimer = Nobody])} ELSE {}

\* By whomever: resolve_task does not ask who owns or claimed the task.
Resolve(b) ==
  IF b.status \in Open THEN {Quiet([b EXCEPT !.status = "resolved"])} ELSE {}

\* The services that resolve a task on the way.  The late SAP result and the renewed policy or
\* return route leave its notifications unresolved.
Settle(b) ==
  IF b.status \in Open
  THEN {Quiet([b EXCEPT !.status = "resolved"]), Only([b EXCEPT !.status = "resolved"])} ELSE {}

CorrectOwner(b, u) ==
  IF b.kind # "ticket" THEN {}
  ELSE LET rows == [b EXCEPT !.keeper = u, !.corrected = TRUE]
       IN  {IF b.status \in Open
            THEN Renews([rows EXCEPT !.owner = u, !.claimer = Nobody, !.status = "pending"], u)
            ELSE Only(rows)}

-----------------------------------------------------------------------------
(* The repair tool *)

BugRepairOwner(b) ==
  IF b.owner # Nobody THEN b.owner ELSE TaskOwner(b, IF b.kind = "ticket" THEN b.keeper ELSE Nobody)

\* The owner the tool gives an open task: the first of three who is an active operator.
RepairOwner(b) ==
  CASE b.owner \in b.staff -> b.owner
    [] b.owner \notin b.staff /\ b.claimer \in b.staff -> b.claimer
    [] OTHER -> TaskOwner(b, IF b.kind = "ticket" THEN b.keeper ELSE Nobody)

\* repair_notification_and_task_data, applied.
Repaired(b) ==
  LET owner == RepairOwner(b)
      state == IF b.status = "assigned" /\ owner # Nobody THEN "assigned" ELSE "pending"
      rows == [b EXCEPT !.status = state, !.owner = owner]
  IN  CASE b.status = "none" -> Only(b)
        [] b.status = "resolved" -> Quiet(b)
        [] OTHER -> IF b.status = "claimed" /\ b.claimer \in b.staff THEN Only(b)
                    ELSE IF rows # b /\ owner # Nobody THEN Renews(rows, owner)
                    ELSE Only(rows)

-----------------------------------------------------------------------------
(* The operators there are *)

BugPairStays(b, u) == TRUE

\* _ensure_task_owner_pair_available, asked when u stops being an active operator
PairStays(b, u) == u \in Pair => \E v \in Pair \ {u} : v \in b.staff

\* What update_user_status, set_user_roles and delete_user ask before they write.
MayGo(b, u) == u \in b.staff /\ PairStays(b, u)

-----------------------------------------------------------------------------
(* Transactions, one of which may be slow *)

\* Nobody overtook it; another committed between its read and its commit; both dismissed one of
\* the pair.
Race == {"no", "overtaken", "crossed"}

\* what: the kind of the transaction.  changed, quiet, tell: the columns it will write and what
\* it does to the notifications.  gone: the operator it will dismiss.
None == [what |-> "nothing", changed |-> <<>>, quiet |-> FALSE, tell |-> {}, gone |-> {},
         late |-> "no"]

Idle == slow.what = "nothing"

BoardInit ==
  /\ db \in [kind: {"ticket", "mail"}, status: {"none"}, owner: {Nobody}, claimer: {Nobody},
             keeper: {Nobody}, scope: {Miya}, corrected: {FALSE}, handed: {FALSE}, took: {Nobody},
             staff: {Operators}]
  /\ told = {}
  /\ slow = None
  /\ raced = "no"

Workers(b) == b.staff \cup Admins

Handlers(b) ==
  Create(b) \cup AskAgain(b)
    \cup (UNION {Route(b, scope) : scope \in Pair})
    \cup (UNION {Claim(b, u) \cup Release(b, u) : u \in Workers(b)})
    \cup (UNION {Assign(b, u) : u \in b.staff \cup {Nobody}})
    \cup (UNION {CorrectOwner(b, u) : u \in b.staff})
    \cup Resolve(b) \cup Settle(b)

Choices(b, what) ==
  CASE what = "request" -> Handlers(b)
    [] what = "repair" -> {Repaired(b)}
    [] what = "dismissal" -> {Only(b)}

Goes(b, what) ==
  IF what = "dismissal" THEN {{u} : u \in {v \in Operators : MayGo(b, v)}} ELSE {{}}

\* The columns that a transaction writes, and those it leaves to whoever wrote them last.
Difference(old, new) == [c \in {d \in DOMAIN old : new[d] # old[d]} |-> new[c]]
Written(b, changed) == [c \in DOMAIN b |-> IF c \in DOMAIN changed THEN changed[c] ELSE b[c]]

Recipients(quiet, tell) == (IF quiet THEN {} ELSE told) \cup tell

\* A transaction that nobody overtakes commits, perhaps before the slow one.  Bound: one does.
Overtake(how) ==
  /\ slow.late = "no"
  /\ slow' = [slow EXCEPT !.late = IF Idle THEN "no" ELSE how]
  /\ UNCHANGED raced

Request ==
  /\ \E o \in Handlers(db) :
       db' = o.rows /\ told' = Recipients(o.quiet, o.tell)
  /\ Overtake("overtaken")

\* _scheduled_consistency_recovery, beside whatever request there is.
Repair ==
  /\ LET o == Repaired(db)
     IN  db' = o.rows /\ told' = Recipients(o.quiet, o.tell)
  /\ Overtake("overtaken")

\* The administrators: u stops being an active operator, or becomes one.
ChangeStaff ==
  /\ \E u \in Operators :
       \/ /\ MayGo(db, u)
          /\ db' = [db EXCEPT !.staff = @ \ {u}]
          /\ Overtake(IF slow.gone \cup {u} = Pair THEN "crossed" ELSE "overtaken")
       \/ /\ db' = [db EXCEPT !.staff = @ \cup {u}]
          /\ Overtake("overtaken")
  /\ UNCHANGED told

\* At most one transaction is overtaken; one that will write nothing overtakes nobody.
Read ==
  /\ Idle /\ raced = "no"
  /\ \E what \in {"request", "repair", "dismissal"} :
       \E o \in Choices(db, what), gone \in Goes(db, what) :
          /\ o # Only(db) \/ gone # {}
          /\ slow' = [what |-> what, changed |-> Difference(db, o.rows), quiet |-> o.quiet,
                      tell |-> o.tell, gone |-> gone, late |-> "no"]
  /\ UNCHANGED <<db, told, raced>>

CommitRequest ==
  /\ ~Idle
  /\ db' = [Written(db, slow.changed) EXCEPT !.staff = @ \ slow.gone]
  /\ told' = Recipients(slow.quiet, slow.tell)
  /\ raced' = slow.late
  /\ slow' = None

BoardNext == Request \/ Read \/ CommitRequest \/ Repair \/ ChangeStaff

BoardSpec == BoardInit /\ [][BoardNext]_boardVars

-----------------------------------------------------------------------------
BoardTypeOK ==
  /\ db \in BoardRows
  /\ told \subseteq Users
  /\ slow.what \in {"nothing", "request", "repair", "dismissal"}
  /\ slow.quiet \in BOOLEAN /\ slow.tell \subseteq Users /\ slow.gone \subseteq Operators
  /\ DOMAIN slow.changed \subseteq {"status", "owner", "claimer", "keeper", "scope", "corrected",
                                    "handed", "took"}
  /\ slow.late \in Race /\ raced \in Race

\* One of the two that tasks fall to is an active operator.  Not true, and checked by
\* ReviewBoardCrossed.cfg only: _ensure_task_owner_pair_available counts without a lock, so two
\* administrators who dismiss one each may both count the other.
PairIsThere == db.staff \cap Pair # {}

\* However the operators come and go, unless two administrators dismissed the two of the pair at
\* once, a task without a preferred owner falls to somebody: the creation of a task, which every
\* failure of the mail and SAP services relies on, is never refused.
SomebodyIsThere ==
  raced # "crossed" => \A scope \in Pair : ScopeOwner([db EXCEPT !.scope = scope]) # Nobody

\* As long as no transaction overtook another, the owner of an open task has an unresolved
\* notification of it, unless he claimed it himself when it had no owner.
OwnerIsTold ==
  raced = "no" /\ db.status \in Open /\ db.owner # Nobody => db.owner \in told \cup {db.took}

\* A repair commits that nobody overtook.
RepairEnds == Repair \/ (CommitRequest /\ slow.what = "repair" /\ slow.late = "no")

\* Whatever overtaking requests have left behind, and whatever it runs beside, the repair leaves
\* an open task with an active operator, as its owner or as the one who has claimed it, as long
\* as one of the pair is there, and a resolved task without notifications.
RepairRestores ==
  [][RepairEnds =>
       /\ PairIsThere /\ db'.status \in Open => {db'.owner, db'.claimer} \cap db'.staff # {}
       /\ db'.status = "resolved" => told' = {}]_boardVars
=============================================================================
