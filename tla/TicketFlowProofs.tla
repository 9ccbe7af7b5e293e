--------------------------- MODULE TicketFlowProofs ---------------------------
(***************************************************************************)
(* Proofs about TicketFlow, for every configuration of the relay and any   *)
(* number of open tasks.  A handler composes smaller ones; each of those   *)
(* is shown to be related to the state it starts from by one of two        *)
(* relations, which compose, and what the properties say of a step follows *)
(* from the relation of the whole handler.  The other parts are about      *)
(* ReviewBoard, where the people who work on the tasks are modelled, about *)
(* RepairRules, which has the decisions of the safety gate, and about      *)
(* MasterData, where the records come from that those decisions choose of. *)
(***************************************************************************)
EXTENDS TicketFlow, ReviewBoard, RepairRules, MasterData, FiniteSetTheorems, TLAPS

AlertFits(s) == s.alert <=> s.status = "error"

(* A ticket that exists.                                                     *)
Ok(s) == s \in State /\ s.status # "none" /\ AlertFits(s)

(* The tasks that may be open when a ticket has left manual review.          *)
Left(x) == {"relay", "reply"} \cup IF x.status = "ready_for_export" THEN {"route"} ELSE {}

(* x comes from s without leaving the review or getting ready for the export.*)
Stays(s, x) ==
    /\ Ok(x)
    /\ x.status = "closed" <=> s.status = "closed"
    /\ x.status = "ready_for_export" => s.status = "ready_for_export"
    /\ s.status = "manual_review" => x.status = "manual_review"

(* x comes from s: on evidence if it is ready, with nothing open if it left. *)
Proceeds(s, x) ==
    /\ Ok(x)
    /\ x.status = "closed" <=> s.status = "closed"
    /\ x.status = "ready_for_export" => s.status = "ready_for_export" \/ x.evidence = "current"
    /\ s.status = "manual_review" => x.status = "manual_review" \/ x.open \subseteq Left(x)

LEMMA StaysProceeds ==
    ASSUME NEW s, NEW x, Stays(s, x)
    PROVE  Proceeds(s, x)
  BY DEF Stays, Proceeds

LEMMA StaysTwice ==
    ASSUME NEW s, NEW y, NEW x, Stays(s, y), Stays(y, x)
    PROVE  Stays(s, x)
  BY DEF Stays

LEMMA StaysThenProceeds ==
    ASSUME NEW s, NEW y, NEW x, Stays(s, y), Proceeds(y, x)
    PROVE  Proceeds(s, x)
  BY DEF Stays, Proceeds

LEMMA Itself ==
    ASSUME NEW s, Ok(s)
    PROVE  Stays(s, s)
  BY DEF Stays

-----------------------------------------------------------------------------
(* The columns that a handler sets.                                          *)
Columns(s, x) == x.status = s.status /\ x.alert = s.alert /\ x.mail = s.mail

LEMMA SameStatus ==
    ASSUME NEW s, NEW x \in State, Ok(s), x.status = s.status, x.alert = s.alert
    PROVE  Stays(s, x)
  BY DEF Stays, Ok, AlertFits

LEMMA OpenTaskFits ==
    ASSUME NEW s, Ok(s), NEW task \in TaskTypes
    PROVE  /\ Stays(s, OpenTask(s, task)) /\ OpenTask(s, task).status = s.status
           /\ OpenTask(s, task).evidence = s.evidence
           /\ OpenTask(s, task).open = s.open \cup {task}
  <1> DEFINE x == OpenTask(s, task)
  <1>1. x \in State /\ x.status = s.status /\ x.alert = s.alert /\ x.evidence = s.evidence
        /\ x.open = s.open \cup {task}
    BY DEF OpenTask, Ok, State
  <1> QED  BY <1>1, SameStatus

LEMMA CloseFits ==
    ASSUME NEW s, Ok(s), NEW types
    PROVE  /\ Stays(s, Close(s, types)) /\ Close(s, types).status = s.status
           /\ Close(s, types).evidence = s.evidence /\ Close(s, types).mail = s.mail
           /\ Close(s, types).open = s.open \ types
  <1> DEFINE x == Close(s, types)
  <1>1. x \in State /\ x.status = s.status /\ x.alert = s.alert /\ x.evidence = s.evidence
        /\ x.open = s.open \ types /\ x.mail = s.mail
    BY DEF Close, Ok, State
  <1> QED  BY <1>1, SameStatus

LEMMA RmaFits ==
    ASSUME NEW s, Ok(s), NEW rma \in {"open", "sent", "issued"}
    PROVE  /\ Stays(s, [s EXCEPT !.rma = rma])
           /\ [s EXCEPT !.rma = rma].status = s.status /\ [s EXCEPT !.rma = rma].open = s.open
           /\ [s EXCEPT !.rma = rma].evidence = s.evidence
           /\ [s EXCEPT !.rma = rma].rma = rma
  <1> DEFINE x == [s EXCEPT !.rma = rma]
  <1>1. x \in State /\ x.status = s.status /\ x.alert = s.alert /\ x.open = s.open
        /\ x.evidence = s.evidence /\ x.rma = rma
    BY DEF Ok, State
  <1> QED  BY <1>1, SameStatus

LEMMA SnReportFits ==
    ASSUME NEW s, Ok(s)
    PROVE  /\ Stays(s, SnReport(s)) /\ SnReport(s).status = s.status
           /\ SnReport(s).open = s.open
  <1> DEFINE x == SnReport(s)
  <1>1. x \in State /\ x.status = s.status /\ x.alert = s.alert /\ x.open = s.open
    BY DEF SnReport, Ok, State
  <1> QED  BY <1>1, SameStatus

LEMMA DataChangeFits ==
    ASSUME NEW s, Ok(s)
    PROVE  Stays(s, DataChange(s)) /\ DataChange(s).status = s.status
  <1> DEFINE x == DataChange(s)
  <1>1. s \in State /\ 1 - s.data \in {0, 1}  BY DEF Ok, State
  <1>2. x \in State /\ x.status = s.status /\ x.alert = s.alert
    BY <1>1 DEF DataChange, State
  <1> QED  BY <1>2, SameStatus

-----------------------------------------------------------------------------
(* The workflow: where the transitions lead.                                 *)
LEMMA Targets ==
    ASSUME NEW from, NEW to, NEW event, <<from, to, event>> \in Transitions
    PROVE  /\ to \in Statuses /\ from # "closed" /\ from # to
           /\ to = "closed" => from = "rma_sent"
           /\ to = "ready_for_export" => event \in {"validation_passed", "manual_resolved"}
  BY DEF Transitions, BaseTransitions, NonTerminal, Statuses

LEMMA TransitionFits ==
    ASSUME NEW s, Ok(s), NEW to, NEW event, NEW resolving, NEW task \in TaskTypes,
           NEW x \in Transition(s, to, event, resolving, task)
    PROVE  /\ Ok(x) /\ x.status = to /\ s.status # "closed" /\ s.status # to
           /\ to = "closed" => s.status = "rma_sent"
           /\ x.data = s.data /\ x.evidence = s.evidence /\ x.rma = s.rma /\ x.mail = s.mail
           /\ to = "manual_review" => x.open = s.open \cup {task}
           /\ to # "manual_review" => x.open = s.open
           /\ Blockers(s, to, resolving) = {}
  <1>1. /\ <<s.status, to, event>> \in Transitions /\ Blockers(s, to, resolving) = {}
        /\ x = [s EXCEPT !.status = to, !.alert = Alert(s, to),
                         !.open = IF to = "manual_review" THEN s.open \cup {task} ELSE s.open]
    BY DEF Transition, Allowed
  <1>2. /\ to \in Statuses /\ s.status # "closed" /\ s.status # to
        /\ to = "closed" => s.status = "rma_sent"
    BY <1>1, Targets
  <1>3. s \in State /\ s.status # "none" /\ (s.alert <=> s.status = "error")
    BY DEF Ok, AlertFits
  <1>4. Alert(s, to) \in BOOLEAN /\ (Alert(s, to) <=> to = "error")
    <2>1. s.alert \in BOOLEAN  BY <1>3 DEF State
    <2>2. CASE to = "error"  BY <2>2 DEF Alert
    <2>3. CASE to # "error"
      <3>1. ~(s.alert /\ s.status # "error")  BY <1>3
      <3> QED  BY <2>1, <2>3, <3>1, Zenon DEF Alert
    <2> QED  BY <2>2, <2>3
  <1> HIDE DEF Alert
  <1> DEFINE open == IF to = "manual_review" THEN s.open \cup {task} ELSE s.open
             a == Alert(s, to)
  <1>5. open \subseteq TaskTypes  BY <1>3 DEF State
  <1>6. x = [s EXCEPT !.status = to, !.alert = a, !.open = open]  BY <1>1
  <1>7. a \in BOOLEAN /\ (a <=> to = "error")  BY <1>4
  <1> HIDE DEF open, a
  <1>8. /\ x \in State /\ x.status = to /\ x.alert = a /\ x.open = open
        /\ x.data = s.data /\ x.evidence = s.evidence /\ x.rma = s.rma /\ x.mail = s.mail
    BY <1>2, <1>3, <1>5, <1>6, <1>7 DEF State
  <1>9. to # "none"  BY <1>2 DEF Statuses
  <1>10. Ok(x)  BY <1>7, <1>8, <1>9, Zenon DEF Ok, AlertFits
  <1> QED  BY <1>1, <1>2, <1>8, <1>10 DEF open

(* A transition to anything but the export or the end.                       *)
LEMMA TransitionStays ==
    ASSUME NEW s, Ok(s), NEW to, NEW event, NEW resolving, NEW task \in TaskTypes,
           NEW x \in Transition(s, to, event, resolving, task),
           to \notin {"ready_for_export", "closed"}, s.status # "manual_review"
    PROVE  Stays(s, x) /\ x.status = to
  BY TransitionFits DEF Stays

(* Nothing open is left behind when the review ends without a resolution.    *)
LEMMA NothingOpen ==
    ASSUME NEW s, Ok(s), NEW to, NEW event, NEW resolving, NEW task \in TaskTypes,
           NEW x \in Transition(s, to, event, resolving, task),
           s.status = "manual_review"
    PROVE  /\ x.open \subseteq resolving \cup (IF to = "ready_for_export" THEN {"route"} ELSE {})
           /\ x.status # "manual_review"
  <1>1. /\ to # "manual_review" => x.open = s.open
        /\ Blockers(s, to, resolving) = {} /\ s.status # to /\ x.status = to
    BY TransitionFits
  <1>2. x.open = s.open /\ x.status # "manual_review"  BY <1>1
  <1>3. s.open \ (resolving \cup IF to = "ready_for_export" THEN {"route"} ELSE {}) = {}
    BY <1>1 DEF Blockers
  <1> QED  BY <1>2, <1>3

LEMMA ToReviewFits ==
    ASSUME NEW s, Ok(s), NEW task \in TaskTypes, NEW x \in ToReview(s, task)
    PROVE  Stays(s, x) /\ x.status = "manual_review" /\ s.status # "closed"
  <1>1. CASE s.status = "manual_review"
    <2>1. x = OpenTask(s, task)  BY <1>1 DEF ToReview
    <2> QED  BY <1>1, <2>1, OpenTaskFits
  <1>2. CASE s.status # "manual_review"
    <2>1. x \in Transition(s, "manual_review", "manual_review_required", {}, task)
      BY <1>2 DEF ToReview
    <2> QED  BY <1>2, <2>1, TransitionFits, TransitionStays
  <1> QED  BY <1>1, <1>2

LEMMA ReviewOrTaskFits ==
    ASSUME NEW s, Ok(s), NEW task \in TaskTypes, NEW x \in ReviewOrTask(s, task)
    PROVE  Stays(s, x) /\ x.status \in {"manual_review", "closed"}
  <1>1. CASE s.status = "closed"
    <2>1. x = OpenTask(s, task)  BY <1>1 DEF ReviewOrTask
    <2> QED  BY <1>1, <2>1, OpenTaskFits
  <1>2. CASE s.status # "closed"
    <2>1. x \in ToReview(s, task)  BY <1>2 DEF ReviewOrTask
    <2> QED  BY <2>1, ToReviewFits
  <1> QED  BY <1>1, <1>2

LEMMA TaskNames ==
    /\ {"ai", "sn", "required", "safety", "relay", "policy"} \subseteq TaskTypes
    /\ {"route", "changed", "timeout", "rma", "reply", "other"} \subseteq TaskTypes
  BY DEF TaskTypes

-----------------------------------------------------------------------------
(* The export safety gate.                                                   *)
LEMMA SnReviewFits ==
    ASSUME NEW s, Ok(s), NEW x \in SnReview(s)
    PROVE  Stays(s, x) /\ x.status \in {"manual_review", "closed"}
  <1>1. CASE s.status = "closed"
    <2>1. x = s  BY <1>1 DEF SnReview
    <2> QED  BY <1>1, <2>1, Itself
  <1>2. CASE s.status # "closed"
    <2>1. x \in ToReview(s, "sn")  BY <1>2 DEF SnReview
    <2> QED  BY <2>1, ToReviewFits, TaskNames
  <1> QED  BY <1>1, <1>2

LEMMA RoutesFit ==
    ASSUME NEW s, Ok(s), NEW x \in ResolveRoutes(s)
    PROVE  /\ Stays(s, x) /\ x.status = s.status /\ x.evidence = s.evidence
           /\ x.open \subseteq s.open \cup {"route"} /\ s.open \subseteq x.open \cup {"route"}
  <1>1. x = OpenTask(s, "route") \/ x = Close(s, {"route"})  BY DEF ResolveRoutes
  <1>2. "route" \in TaskTypes  BY TaskNames
  <1>3. CASE x = OpenTask(s, "route")  BY <1>2, <1>3, OpenTaskFits
  <1>4. CASE x = Close(s, {"route"})  BY <1>4, CloseFits
  <1> QED  BY <1>1, <1>3, <1>4

LEMMA GateFailsFits ==
    ASSUME NEW s, Ok(s), NEW x \in GateFails(s)
    PROVE  Stays(s, x) /\ x.status \in {"manual_review", "closed"}
  <1> DEFINE bare == SnReport(s)
             review(y) == ToReview([y EXCEPT !.rma = "open"], "safety")
  <1>1. Stays(s, bare)  BY SnReportFits
  <1>2. Ok(bare)  BY <1>1 DEF Stays
  <1>3. \/ x \in SnReview(bare)
        \/ \E z \in {bare, PolicyUnresolved(bare)} : \E y \in ResolveRoutes(z) : x \in review(y)
    BY DEF GateFails, Then
  <1> HIDE DEF bare
  <1>4. CASE x \in SnReview(bare)  BY <1>1, <1>2, <1>4, SnReviewFits, StaysTwice
  <1>5. ASSUME NEW z \in {bare, PolicyUnresolved(bare)}, NEW y \in ResolveRoutes(z),
               x \in review(y)
        PROVE  Stays(s, x) /\ x.status \in {"manual_review", "closed"}
    <2>1. Stays(s, z)
      <3>1. CASE z = bare  BY <1>1, <3>1
      <3>2. CASE z = PolicyUnresolved(bare)
        BY <1>1, <1>2, <3>2, OpenTaskFits, TaskNames, StaysTwice DEF PolicyUnresolved
      <3> QED  BY <3>1, <3>2
    <2>2. Ok(z)  BY <2>1 DEF Stays
    <2>3. Stays(z, y)  BY <2>2, RoutesFit
    <2>4. Ok(y)  BY <2>3 DEF Stays
    <2> DEFINE o == [y EXCEPT !.rma = "open"]
    <2>5. Stays(y, o)  BY <2>4, RmaFits
    <2>6. Ok(o)  BY <2>5 DEF Stays
    <2>7. x \in ToReview(o, "safety")  BY <1>5
    <2> HIDE DEF o
    <2>8. Stays(o, x) /\ x.status = "manual_review"  BY <2>6, <2>7, ToReviewFits, TaskNames
    <2>9. Stays(s, y)  BY <2>1, <2>3, StaysTwice
    <2>10. Stays(s, o)  BY <2>5, <2>9, StaysTwice
    <2> QED  BY <2>8, <2>10, StaysTwice
  <1> QED  BY <1>3, <1>4, <1>5

LEMMA MarkReadyFits ==
    ASSUME NEW s, Ok(s), NEW resolving, NEW x \in MarkReady(s, resolving)
    PROVE  /\ Ok(x) /\ x.status = "ready_for_export" /\ s.status # "closed"
           /\ x.open = s.open
           /\ s.status = "manual_review" => x.open \subseteq resolving \cup {"route"}
  <1>1. CASE s.status = "ready_for_export"
    <2>1. x = s  BY <1>1 DEF MarkReady
    <2> QED  BY <1>1, <2>1
  <1>2. CASE s.status # "ready_for_export"
    <2> DEFINE event == IF s.status = "parsed" THEN "validation_passed" ELSE "manual_resolved"
    <2>1. x \in Transition(s, "ready_for_export", event, resolving, "other")
      BY <1>2 DEF MarkReady
    <2>2. "other" \in TaskTypes  BY TaskNames
    <2> HIDE DEF event
    <2>3. /\ Ok(x) /\ x.status = "ready_for_export" /\ s.status # "closed" /\ x.open = s.open
      BY <2>1, <2>2, TransitionFits
    <2>4. s.status = "manual_review" => x.open \subseteq resolving \cup {"route"}
      <3> SUFFICES ASSUME s.status = "manual_review"
                   PROVE  x.open \subseteq resolving \cup {"route"}
        OBVIOUS
      <3>1. x.open \subseteq resolving \cup (IF "ready_for_export" = "ready_for_export"
                                              THEN {"route"} ELSE {})
        BY <2>1, <2>2, NothingOpen
      <3> QED  BY <3>1
    <2> QED  BY <2>3, <2>4
  <1> QED  BY <1>1, <1>2

(* Through the gate: ready, on the evidence of the data, and of the tasks    *)
(* that were open in the review none is but those of the gate itself.        *)
LEMMA GatePassesFits ==
    ASSUME NEW s, Ok(s), NEW resolving, NEW x \in GatePasses(s, resolving)
    PROVE  /\ Ok(x) /\ x.status = "ready_for_export" /\ s.status # "closed"
           /\ x.evidence = "current"
           /\ x.open \subseteq s.open \cup {"route", "relay"}
           /\ s.status = "manual_review" => x.open \subseteq resolving \cup {"route", "relay"}
  <1> DEFINE bare == SnReport(s)
             queue(y) == {[y EXCEPT !.evidence = Evidence(y), !.rma = "open",
                                    !.open = IF configured THEN @ ELSE @ \cup {"relay"}] :
                            configured \in Relay}
  <1>1. Ok(bare) /\ bare.status = s.status /\ bare.open = s.open
    BY SnReportFits DEF Stays
  <1>2. \E z \in ResolveRoutes(bare) : \E y \in MarkReady(z, resolving) : x \in queue(y)
    <2>1. x \in UNION {queue(y) : y \in UNION {MarkReady(z, resolving) : z \in ResolveRoutes(bare)}}
      BY Zenon DEF GatePasses, Then
    <2> HIDE DEF bare, queue
    <2> QED  BY <2>1
  <1> HIDE DEF bare, queue
  <1>3. PICK z \in ResolveRoutes(bare) : \E y \in MarkReady(z, resolving) : x \in queue(y)
    BY <1>2
  <1>4. PICK y \in MarkReady(z, resolving) : x \in queue(y)  BY <1>3
  <1>5. Ok(z) /\ z.status = s.status /\ z.open \subseteq s.open \cup {"route"}
    BY <1>1, RoutesFit DEF Stays
  <1>6. /\ Ok(y) /\ y.status = "ready_for_export" /\ s.status # "closed" /\ y.open = z.open
        /\ s.status = "manual_review" => y.open \subseteq resolving \cup {"route"}
    BY <1>5, MarkReadyFits
  <1>7. PICK configured \in Relay :
           x = [y EXCEPT !.evidence = Evidence(y), !.rma = "open",
                         !.open = IF configured THEN y.open ELSE y.open \cup {"relay"}]
    BY <1>4 DEF queue
  <1> DEFINE open == IF configured THEN y.open ELSE y.open \cup {"relay"}
  <1>8. open \subseteq y.open \cup {"relay"} /\ open \subseteq TaskTypes
    <2>1. y.open \subseteq TaskTypes  BY <1>6 DEF Ok, State
    <2>2. "relay" \in TaskTypes  BY TaskNames
    <2> QED  BY <2>1, <2>2
  <1>9. x = [y EXCEPT !.evidence = "current", !.rma = "open", !.open = open]
    BY <1>7 DEF Evidence
  <1> HIDE DEF open
  <1>10. /\ x \in State /\ x.status = "ready_for_export" /\ x.alert = y.alert
         /\ x.evidence = "current" /\ x.open = open
    BY <1>6, <1>8, <1>9 DEF Ok, State
  <1>11. Ok(x)  BY <1>6, <1>10 DEF Ok, AlertFits
  <1> QED  BY <1>5, <1>6, <1>8, <1>10, <1>11

(* Asked for outside of a review, or in one with nothing to resolve.         *)
LEMMA GatePassesProceeds ==
    ASSUME NEW s, Ok(s), NEW x \in GatePasses(s, {})
    PROVE  Proceeds(s, x)
  <1>1. /\ Ok(x) /\ x.status = "ready_for_export" /\ s.status # "closed"
        /\ x.evidence = "current"
        /\ s.status = "manual_review" => x.open \subseteq {} \cup {"route", "relay"}
    BY GatePassesFits
  <1> QED  BY <1>1 DEF Proceeds, Left

-----------------------------------------------------------------------------
(* Changes of the ticket's data.                                             *)
LEMMA InvalidateFits ==
    ASSUME NEW s, Ok(s), NEW x \in Invalidate(s)
    PROVE  Stays(s, x)
  <1> DEFINE bare == [s EXCEPT !.evidence = "none", !.rma = "open"]
  <1>1. bare \in State /\ bare.status = s.status /\ bare.alert = s.alert
    BY DEF Ok, State
  <1>2. Stays(s, bare) /\ Ok(bare)
    BY <1>1, SameStatus DEF Stays
  <1>3. CASE s.status = "ready_for_export"
    <2>1. x \in Transition(bare, "manual_review", "validated_data_changed", {}, "changed")
      BY <1>3 DEF Invalidate
    <2> HIDE DEF bare
    <2>2. Stays(bare, x)  BY <1>1, <1>2, <1>3, <2>1, TransitionStays, TaskNames
    <2> QED  BY <1>2, <2>2, StaysTwice
  <1>4. CASE s.status # "ready_for_export"
    <2>1. x = bare  BY <1>4 DEF Invalidate
    <2> QED  BY <1>2, <2>1
  <1> QED  BY <1>3, <1>4

LEMMA EditFits ==
    ASSUME NEW s, Ok(s), NEW x \in Edit(s)
    PROVE  Stays(s, x)
  <1>1. x \in Invalidate(DataChange(s))  BY DEF Edit
  <1>2. Stays(s, DataChange(s)) /\ Ok(DataChange(s))  BY DataChangeFits DEF Stays
  <1> QED  BY <1>1, <1>2, InvalidateFits, StaysTwice

LEMMA PolicyOrRouteFits ==
    ASSUME NEW s, Ok(s), NEW x \in PolicyOrRoute(s)
    PROVE  Stays(s, x)
  <1>1. \E y \in {s, PolicyUnresolved(s)} \cup ResolveRoutes(s) : x \in Invalidate(DataChange(y))
    BY DEF PolicyOrRoute, Then
  <1>2. PICK y \in {s, PolicyUnresolved(s)} \cup ResolveRoutes(s) : x \in Invalidate(DataChange(y))
    BY <1>1
  <1>3. Stays(s, y) /\ Ok(y)
    <2>1. CASE y = s  BY <2>1, Itself
    <2>2. CASE y = PolicyUnresolved(s)
      BY <2>2, OpenTaskFits, TaskNames DEF PolicyUnresolved, Stays
    <2>3. CASE y \in ResolveRoutes(s)  BY <2>3, RoutesFit DEF Stays
    <2> QED  BY <1>2, <2>1, <2>2, <2>3
  <1>4. Stays(y, DataChange(y)) /\ Ok(DataChange(y))  BY <1>3, DataChangeFits DEF Stays
  <1>5. Stays(DataChange(y), x)  BY <1>2, <1>4, InvalidateFits
  <1>6. Stays(y, x)  BY <1>4, <1>5, StaysTwice
  <1> QED  BY <1>3, <1>6, StaysTwice

LEMMA ValidateSnFits ==
    ASSUME NEW s, Ok(s), NEW x \in ValidateSn(s)
    PROVE  Stays(s, x)
  <1>1. Stays(s, SnReport(s)) /\ Ok(SnReport(s))  BY SnReportFits DEF Stays
  <1>2. x = SnReport(s) \/ x \in SnReview(SnReport(s))  BY DEF ValidateSn
  <1> QED  BY <1>1, <1>2, SnReviewFits, StaysTwice

-----------------------------------------------------------------------------
(* The results of parses.                                                    *)
LEMMA MoveStays ==
    ASSUME NEW s, Ok(s), NEW to, NEW event, NEW x \in Move(s, to, event),
           to \notin {"ready_for_export", "closed"}, s.status # "manual_review"
    PROVE  Stays(s, x)
  BY TransitionStays, TaskNames DEF Move

LEMMA RepliedFits ==
    ASSUME NEW s, Ok(s), NEW p \in Parses, NEW x \in Replied(s, p)
    PROVE  Stays(s, x)
  <1>1. \/ x = s
        \/ s.status = "auto_replied" /\ x \in Move(s, "parsed", "source_email_reparse_completed")
        \/ s.status = "auto_replied" /\ x \in Move(s, "parsed", "customer_reply_received")
    BY DEF Replied
  <1> QED  BY <1>1, Itself, MoveStays

LEMMA CompletedFits ==
    ASSUME NEW s, Ok(s), NEW p \in Parses, NEW x \in Completed(s, p)
    PROVE  Stays(s, x)
  <1>1. \/ x = s
        \/ s.status = "need_customer_info" /\ x \in Move(s, "parsed", "customer_info_completed")
    BY DEF Completed
  <1> QED  BY <1>1, Itself, MoveStays

LEMMA ParsedFits ==
    ASSUME NEW s, Ok(s), NEW p \in Parses, NEW x \in Parsed(s, p)
    PROVE  Stays(s, x)
  <1>1. \/ x = s
        \/ s.status = "new_email" /\ x \in Move(s, "manual_review", "parse_low_confidence")
        \/ s.status = "new_email" /\ x \in Move(s, "parsed", "parse_completed")
    BY DEF Parsed
  <1> QED  BY <1>1, Itself, MoveStays

LEMMA IncompleteFits ==
    ASSUME NEW s, Ok(s), NEW p \in Parses, NEW x \in Incomplete(s, p)
    PROVE  Stays(s, x)
  <1>1. \/ x = s
        \/ s.status = "parsed" /\ x \in Move(s, "need_customer_info", "missing_fields_detected")
    BY DEF Incomplete
  <1> QED  BY <1>1, Itself, MoveStays

LEMMA ApplyFits ==
    ASSUME NEW s, Ok(s), NEW p \in Parses, NEW x \in Apply(s, p)
    PROVE  Stays(s, x)
  <1> DEFINE first == IF p.changes THEN DataChange(s) ELSE s
             base == IF AutoIntent(p) THEN SnReport(first) ELSE first
  <1>1. Stays(s, first) /\ Ok(first)
    BY DataChangeFits, Itself DEF Stays
  <1>2. Stays(first, base)
    <2>1. base = SnReport(first) \/ base = first  OBVIOUS
    <2> HIDE DEF first, base
    <2> QED  BY <1>1, <2>1, SnReportFits, Itself
  <1>3. Stays(s, base) /\ Ok(base)
    <2> HIDE DEF first
    <2> HIDE DEF base
    <2>1. Stays(s, base)  BY <1>1, <1>2, StaysTwice
    <2> QED  BY <2>1 DEF Stays
  <1>4. \E a \in Replied(base, p) : \E b \in Completed(a, p) : \E c \in Parsed(b, p) :
           x \in Incomplete(c, p)
    <2>1. x \in UNION {Incomplete(c, p) : c \in UNION {Parsed(b, p) :
                        b \in UNION {Completed(a, p) : a \in Replied(base, p)}}}
      BY Zenon DEF Apply
    <2> HIDE DEF base
    <2> QED  BY <2>1
  <1> HIDE DEF base
  <1>5. PICK a \in Replied(base, p) : \E b \in Completed(a, p) : \E c \in Parsed(b, p) :
           x \in Incomplete(c, p)
    BY <1>4
  <1>6. PICK b \in Completed(a, p) : \E c \in Parsed(b, p) : x \in Incomplete(c, p)  BY <1>5
  <1>7. PICK c \in Parsed(b, p) : x \in Incomplete(c, p)  BY <1>6
  <1>8. Stays(s, a) /\ Ok(a)
    <2>1. Stays(base, a)  BY <1>3, RepliedFits
    <2> QED  BY <1>3, <2>1, StaysTwice DEF Stays
  <1>9. Stays(s, b) /\ Ok(b)
    <2>1. Stays(a, b)  BY <1>8, CompletedFits
    <2> QED  BY <1>8, <2>1, StaysTwice DEF Stays
  <1>10. Stays(s, c) /\ Ok(c)
    <2>1. Stays(b, c)  BY <1>9, ParsedFits
    <2> QED  BY <1>9, <2>1, StaysTwice DEF Stays
  <1>11. Stays(c, x)  BY <1>7, <1>10, IncompleteFits
  <1> QED  BY <1>10, <1>11, StaysTwice

(* The end of a review that nothing holds.                                   *)
Cleared(y) == y.status = "parsed" /\ y.open = {}

LEMMA RecoveredFits ==
    ASSUME NEW s, Ok(s), NEW p \in Parses, NEW x \in Recovered(s, p)
    PROVE  Stays(s, x) \/ (s.status = "manual_review" /\ Cleared(x) /\ Ok(x))
  <1> DEFINE left == Close(s, {"ai"})
  <1>1. \/ x = s
        \/ x = left
        \/ /\ s.status = "manual_review" /\ left.open = {}
           /\ x \in Move(left, "parsed", "reparse_validation_passed")
    BY DEF Recovered
  <1>2. Stays(s, left) /\ Ok(left) /\ left.status = s.status
    BY CloseFits DEF Stays
  <1> HIDE DEF left
  <1>3. CASE x = s  BY <1>3, Itself
  <1>4. CASE x = left  BY <1>2, <1>4
  <1>5. CASE /\ s.status = "manual_review" /\ left.open = {}
             /\ x \in Move(left, "parsed", "reparse_validation_passed")
    <2>1. x \in Transition(left, "parsed", "reparse_validation_passed", {}, "other")
      BY <1>5 DEF Move
    <2>2. Ok(x) /\ x.status = "parsed" /\ x.open = left.open
      BY <1>2, <2>1, TransitionFits, TaskNames
    <2> QED  BY <1>5, <2>2 DEF Cleared
  <1> QED  BY <1>1, <1>3, <1>4, <1>5

LEMMA DraftFits ==
    ASSUME NEW s, Ok(s), NEW x \in Draft(s)
    PROVE  Stays(s, x)
  <1>1. x \in {s, OpenTask(s, "reply")} \/ x \in ToReview(s, "other")
    BY Zenon DEF Draft
  <1> QED  BY <1>1, Itself, OpenTaskFits, ToReviewFits, TaskNames

LEMMA GatedFits ==
    ASSUME NEW s, Ok(s), s.status # "manual_review", NEW x \in Gated(s)
    PROVE  /\ Proceeds(s, x)
           /\ Cleared(s) => x.status = "manual_review" \/ x.open \subseteq Left(x)
  <1>1. \/ x \in GatePasses(s, {})
        \/ \E y \in GateFails(s) : x \in EnsureReview(y, "required")
    BY DEF Gated, Then
  <1>2. CASE x \in GatePasses(s, {})
    <2>1. /\ x.status = "ready_for_export"
          /\ x.open \subseteq s.open \cup {"route", "relay"}
      BY <1>2, GatePassesFits
    <2>2. Cleared(s) => x.open \subseteq Left(x)  BY <2>1 DEF Cleared, Left
    <2> QED  BY <1>2, <2>2, GatePassesProceeds
  <1>3. ASSUME NEW y \in GateFails(s), x \in EnsureReview(y, "required")
        PROVE  Stays(s, x) /\ x.status \in {"manual_review", "closed"}
    <2>1. Stays(s, y) /\ Ok(y)  BY GateFailsFits DEF Stays
    <2>2. Stays(y, x) /\ x.status \in {"manual_review", "closed"}
      BY <1>3, <2>1, ReviewOrTaskFits, TaskNames DEF EnsureReview
    <2> QED  BY <2>1, <2>2, StaysTwice
  <1>4. CASE \E y \in GateFails(s) : x \in EnsureReview(y, "required")
    <2>1. Stays(s, x) /\ x.status \in {"manual_review", "closed"}  BY <1>3, <1>4
    <2>2. Cleared(s) => x.status = "manual_review"  BY <2>1 DEF Cleared, Stays
    <2> QED  BY <2>1, <2>2, StaysProceeds
  <1> QED  BY <1>1, <1>2, <1>4

LEMMA ContinuedFits ==
    ASSUME NEW s, Ok(s), NEW p \in Parses, NEW x \in Continued(s, p)
    PROVE  /\ Proceeds(s, x)
           /\ Cleared(s) => x.status = "manual_review" \/ x.open \subseteq Left(x)
  <1>1. \/ s.status = "need_customer_info" /\ x \in Draft(s)
        \/ s.status # "manual_review" /\ x \in Gated(s)
        \/ x = s
    BY DEF Continued
  <1>2. CASE s.status = "need_customer_info" /\ x \in Draft(s)
    BY <1>2, DraftFits, StaysProceeds DEF Cleared
  <1>3. CASE s.status # "manual_review" /\ x \in Gated(s)  BY <1>3, GatedFits
  <1>4. CASE x = s
    <2>1. Proceeds(s, x)  BY <1>4, Itself, StaysProceeds
    <2>2. Cleared(s) => x.open \subseteq Left(x)  BY <1>4 DEF Cleared
    <2> QED  BY <2>1, <2>2
  <1> QED  BY <1>1, <1>2, <1>3, <1>4

LEMMA ManualParseFits ==
    ASSUME NEW s, Ok(s), NEW p \in Parses, NEW user, NEW x \in ManualParse(s, p, user)
    PROVE  Stays(s, x)
  <1>1. \E y \in EnsureReview(s, "ai") :
           x \in (IF user /\ y.status = "manual_review" THEN Apply(y, p) ELSE {y})
    BY DEF ManualParse
  <1>2. PICK y \in EnsureReview(s, "ai") :
           x \in (IF user /\ y.status = "manual_review" THEN Apply(y, p) ELSE {y})
    BY <1>1
  <1>3. Stays(s, y) /\ Ok(y)  BY ReviewOrTaskFits, TaskNames DEF EnsureReview, Stays
  <1>4. x \in Apply(y, p) \/ x = y  BY <1>2
  <1> QED  BY <1>3, <1>4, ApplyFits, StaysTwice

LEMMA ReparseFits ==
    ASSUME NEW s, Ok(s), NEW p \in Parses, NEW user, NEW x \in Reparse(s, p, user)
    PROVE  Proceeds(s, x)
  <1>1. CASE p.manual
    <2>1. x \in ManualParse(s, p, user)  BY <1>1 DEF Reparse
    <2> QED  BY <2>1, ManualParseFits, StaysProceeds
  <1>2. CASE ~p.manual
    <2>1. \E a \in Apply(s, p) : \E b \in Recovered(a, p) : x \in Continued(b, p)
      BY <1>2 DEF Reparse
    <2>2. PICK a \in Apply(s, p) : \E b \in Recovered(a, p) : x \in Continued(b, p)
      BY <2>1
    <2>3. PICK b \in Recovered(a, p) : x \in Continued(b, p)  BY <2>2
    <2>4. Stays(s, a) /\ Ok(a)  BY ApplyFits DEF Stays
    <2>5. Stays(a, b) \/ (a.status = "manual_review" /\ Cleared(b) /\ Ok(b))
      BY <2>4, RecoveredFits
    <2>6. CASE Stays(a, b)
      <3>1. Ok(b)  BY <2>6 DEF Stays
      <3>2. Proceeds(b, x)  BY <2>3, <3>1, ContinuedFits
      <3>3. Stays(s, b)  BY <2>4, <2>6, StaysTwice
      <3> QED  BY <3>2, <3>3, StaysThenProceeds
    <2>7. CASE a.status = "manual_review" /\ Cleared(b) /\ Ok(b)
      <3>1. Proceeds(b, x) /\ (x.status = "manual_review" \/ x.open \subseteq Left(x))
        BY <2>3, <2>7, ContinuedFits
      <3>2. Proceeds(a, x)  BY <2>7, <3>1 DEF Proceeds, Cleared
      <3> QED  BY <2>4, <3>2, StaysThenProceeds
    <2> QED  BY <2>5, <2>6, <2>7
  <1> QED  BY <1>1, <1>2

-----------------------------------------------------------------------------
(* What any step may do to the ticket.                                       *)
Fits(s, x) ==
    /\ Ok(x)
    /\ s.status = "closed" => x.status = "closed"
    /\ x.status = "closed" /\ s.status # "closed" => s.mail = "sent" /\ x.rma = "issued"
    /\ s.status # "ready_for_export" /\ x.status = "ready_for_export" =>
          \/ x.evidence = "current"
          \/ x.evidence = s.evidence /\ s.evidence = "old" /\ "timeout" \in s.open \ x.open
    /\ s.status = "manual_review" /\ x.status # "manual_review" => x.open \subseteq Left(x)

LEMMA ProceedsFits ==
    ASSUME NEW s, NEW x, Proceeds(s, x)
    PROVE  Fits(s, x)
  BY DEF Proceeds, Fits

LEMMA StaysFits ==
    ASSUME NEW s, NEW x, Stays(s, x)
    PROVE  Fits(s, x)
  BY StaysProceeds, ProceedsFits

-----------------------------------------------------------------------------
(* The manual-review tasks.                                                  *)
LEMMA ResolveReadyFits ==
    ASSUME NEW s, Ok(s), NEW task, NEW x \in ResolveReady(s, task)
    PROVE  Proceeds(s, x)
  <1>1. (\E y \in GatePasses(s, {task}) : x = Close(y, {task})) \/ x \in GateFails(s)
    BY DEF ResolveReady
  <1>2. ASSUME NEW y \in GatePasses(s, {task}), x = Close(y, {task})
        PROVE  Proceeds(s, x)
    <2>1. /\ Ok(y) /\ y.status = "ready_for_export" /\ s.status # "closed"
          /\ y.evidence = "current"
          /\ s.status = "manual_review" => y.open \subseteq {task} \cup {"route", "relay"}
      BY GatePassesFits
    <2>2. /\ Ok(x) /\ x.status = y.status /\ x.evidence = y.evidence /\ x.open = y.open \ {task}
      BY <1>2, <2>1, CloseFits DEF Stays
    <2> QED  BY <2>1, <2>2 DEF Proceeds, Left
  <1> QED  BY <1>1, <1>2, GateFailsFits, StaysProceeds

LEMMA WaitCustomerFits ==
    ASSUME NEW s, Ok(s), NEW task, NEW x \in WaitCustomer(s, task)
    PROVE  Proceeds(s, x)
  <1>1. CASE s.status = "manual_review"
    <2>1. PICK y \in Transition(s, "need_customer_info", "manual_resolved", {task}, "other") :
             x = Close(y, {task})
      BY <1>1 DEF WaitCustomer
    <2>2. Ok(y) /\ y.status = "need_customer_info"  BY TransitionFits, TaskNames
    <2>3. y.open \subseteq {task} \cup (IF "need_customer_info" = "ready_for_export"
                                         THEN {"route"} ELSE {})
      BY <1>1, NothingOpen, TaskNames
    <2>4. Ok(x) /\ x.status = y.status /\ x.open = y.open \ {task}
      BY <2>1, <2>2, CloseFits DEF Stays
    <2>5. x.open = {}  BY <2>3, <2>4
    <2> QED  BY <1>1, <2>2, <2>4, <2>5 DEF Proceeds
  <1>2. CASE s.status = "parsed"
    <2>1. PICK y \in Move(s, "need_customer_info", "missing_fields_detected") :
             x = Close(y, {task})
      BY <1>2 DEF WaitCustomer
    <2>2. Stays(s, y) /\ Ok(y)  BY <1>2, MoveStays DEF Stays
    <2>3. Stays(y, x)  BY <2>1, <2>2, CloseFits
    <2> QED  BY <2>2, <2>3, StaysTwice, StaysProceeds
  <1>3. CASE s.status \notin {"manual_review", "parsed"}
    <2>1. x = Close(s, {task})  BY <1>3, Zenon DEF WaitCustomer
    <2> QED  BY <2>1, CloseFits, StaysProceeds
  <1> QED  BY <1>1, <1>2, <1>3

LEMMA ReparseTaskFits ==
    ASSUME NEW s, Ok(s), NEW task \in TaskTypes, NEW p \in Parses, NEW x \in ReparseTask(s, task, p)
    PROVE  Proceeds(s, x)
  <1>1. PICK y \in Reparse(Close(s, {task}), p, TRUE) :
           x = IF y.status = "manual_review" /\ y.open = {} THEN OpenTask(y, task) ELSE y
    BY DEF ReparseTask
  <1>2. Stays(s, Close(s, {task})) /\ Ok(Close(s, {task}))  BY CloseFits DEF Stays
  <1>3. Proceeds(Close(s, {task}), y)  BY <1>2, ReparseFits
  <1>4. Proceeds(s, y) /\ Ok(y)  BY <1>2, <1>3, StaysThenProceeds DEF Proceeds
  <1>5. CASE x = y  BY <1>4, <1>5
  <1>6. CASE x = OpenTask(y, task) /\ y.status = "manual_review"
    <2>1. Ok(x) /\ x.status = y.status  BY <1>4, <1>6, OpenTaskFits DEF Stays
    <2> QED  BY <1>4, <1>6, <2>1 DEF Proceeds
  <1> QED  BY <1>1, <1>5, <1>6

-----------------------------------------------------------------------------
(* SAP and the RMA reply.                                                    *)
LEMMA OpenedToReview ==
    ASSUME NEW s, Ok(s), NEW task \in TaskTypes, NEW x \in ToReview([s EXCEPT !.rma = "open"], task)
    PROVE  Stays(s, x)
  <1> DEFINE o == [s EXCEPT !.rma = "open"]
  <1>1. Stays(s, o) /\ Ok(o)  BY RmaFits DEF Stays
  <1> HIDE DEF o
  <1>2. x \in ToReview(o, task)  BY DEF o
  <1> QED  BY <1>1, <1>2, ToReviewFits, StaysTwice

LEMMA SapFailsFits ==
    ASSUME NEW s, Ok(s), NEW x \in SapFails(s)
    PROVE  Stays(s, x)
  <1>1. PICK task \in {"timeout", "rma"} : x \in ToReview([s EXCEPT !.rma = "open"], task)
    BY DEF SapFails
  <1> QED  BY <1>1, OpenedToReview, TaskNames

LEMMA LateResultFits ==
    ASSUME NEW s, Ok(s), NEW x \in LateResult(s)
    PROVE  Fits(s, x)
  <1> DEFINE y == Close(s, {"timeout"})
  <1>1. /\ s.status = "manual_review" /\ "timeout" \in s.open /\ s.evidence # "none"
        /\ x \in Transition(y, "ready_for_export", "manual_resolved", {}, "other")
    BY DEF LateResult
  <1>2. Ok(y) /\ y.status = s.status /\ y.evidence = s.evidence /\ y.open = s.open \ {"timeout"}
    BY CloseFits DEF Stays
  <1> HIDE DEF y
  <1>3. /\ Ok(x) /\ x.status = "ready_for_export" /\ x.evidence = y.evidence /\ x.open = y.open
    BY <1>1, <1>2, TransitionFits, TaskNames
  <1>4. x.open \subseteq {} \cup (IF "ready_for_export" = "ready_for_export"
                                   THEN {"route"} ELSE {})
    BY <1>1, <1>2, NothingOpen, TaskNames
  <1>5. s.evidence \in {"current", "old"}  BY <1>1 DEF Ok, State
  <1> QED  BY <1>1, <1>2, <1>3, <1>4, <1>5 DEF Fits, Left

LEMMA DeliveredFits ==
    ASSUME NEW s, Ok(s), NEW x \in Delivered(s)
    PROVE  Stays(s, x)
  <1> DEFINE sent == [s EXCEPT !.rma = "sent", !.mail = "sent"]
  <1>1. sent \in State /\ sent.status = s.status /\ sent.alert = s.alert  BY DEF Ok, State
  <1>2. Stays(s, sent) /\ Ok(sent)  BY <1>1, SameStatus DEF Stays
  <1>3. \/ s.status = "ready_for_export" /\ x \in Move(sent, "rma_sent", "rma_reply_sent")
        \/ x = sent
    BY DEF Delivered
  <1> HIDE DEF sent
  <1>4. CASE s.status = "ready_for_export" /\ x \in Move(sent, "rma_sent", "rma_reply_sent")
    <2>1. Stays(sent, x)  BY <1>1, <1>2, <1>4, MoveStays
    <2> QED  BY <1>2, <2>1, StaysTwice
  <1> QED  BY <1>2, <1>3, <1>4

LEMMA PrepareRmaFits ==
    ASSUME NEW s, Ok(s), NEW x \in PrepareRma(s)
    PROVE  Stays(s, x)
  <1> DEFINE ready == [s EXCEPT !.mail = "prepared"]
  <1>1. \/ x \in ToReview([s EXCEPT !.rma = "open"], "rma")
        \/ x \in Delivered(s)
        \/ x = ready
        \/ x = OpenTask(s, "rma")
    BY DEF PrepareRma
  <1>2. Stays(s, ready)
    <2>1. ready \in State /\ ready.status = s.status /\ ready.alert = s.alert  BY DEF Ok, State
    <2> QED  BY <2>1, SameStatus
  <1> HIDE DEF ready
  <1> QED  BY <1>1, <1>2, OpenedToReview, DeliveredFits, OpenTaskFits, TaskNames

LEMMA SendRmaFits ==
    ASSUME NEW s, Ok(s), NEW x \in SendRma(s)
    PROVE  Stays(s, x)
  <1> DEFINE o == [s EXCEPT !.rma = "open"]
  <1>1. \/ \E y \in Delivered(s) : x = Close(y, {"timeout", "rma"})
        \/ x \in ReviewOrTask(o, "rma")
    BY DEF SendRma
  <1>2. ASSUME NEW y \in Delivered(s), x = Close(y, {"timeout", "rma"})  PROVE Stays(s, x)
    <2>1. Stays(s, y) /\ Ok(y)  BY DeliveredFits DEF Stays
    <2> QED  BY <1>2, <2>1, CloseFits, StaysTwice
  <1>3. CASE x \in ReviewOrTask(o, "rma")
    <2>1. Stays(s, o) /\ Ok(o)  BY RmaFits DEF Stays
    <2> HIDE DEF o
    <2> QED  BY <1>3, <2>1, ReviewOrTaskFits, TaskNames, StaysTwice
  <1> QED  BY <1>1, <1>2, <1>3

LEMMA FinalizeFits ==
    ASSUME NEW s, Ok(s), NEW x \in Finalize(s)
    PROVE  Fits(s, x)
  <1> DEFINE i == [s EXCEPT !.rma = "issued"]
  <1>1. /\ s.mail = "sent"
        /\ \/ s.status = "rma_sent" /\ x \in Move(i, "closed", "rma_issued_and_archived")
           \/ x = i
           \/ x \in ReviewOrTask(s, "other")
    BY DEF Finalize, MayFinalize
  <1>2. Stays(s, i) /\ Ok(i) /\ i.status = s.status /\ i.rma = "issued"
    BY RmaFits DEF Stays
  <1> HIDE DEF i
  <1>3. CASE s.status = "rma_sent" /\ x \in Move(i, "closed", "rma_issued_and_archived")
    <2>1. Ok(x) /\ x.status = "closed" /\ x.rma = i.rma
      BY <1>2, <1>3, TransitionFits, TaskNames DEF Move
    <2> QED  BY <1>1, <1>2, <1>3, <2>1 DEF Fits
  <1> QED  BY <1>1, <1>2, <1>3, ReviewOrTaskFits, TaskNames, StaysFits

-----------------------------------------------------------------------------
(* The first mail makes a ticket.                                            *)
LEMMA CreatedFits ==
    ASSUME NEW s \in State, AlertFits(s), s.status = "none", NEW p \in Parses,
           NEW x \in Created(s, p)
    PROVE  Fits(s, x)
  <1> DEFINE review == [s EXCEPT !.status = "manual_review", !.open = {"ai"}]
             new == [s EXCEPT !.status = "new_email"]
  <1>1. x = review \/ x \in Reparse(new, p, FALSE)  BY DEF Created
  <1>2. s.alert = FALSE  BY DEF AlertFits, State
  <1>3. review \in State /\ review.status = "manual_review" /\ review.alert = FALSE
    BY <1>2 DEF State, Statuses, TaskTypes
  <1>4. new \in State /\ new.status = "new_email" /\ new.alert = FALSE
    BY <1>2 DEF State, Statuses
  <1> HIDE DEF review, new
  <1>5. CASE x = review
    <2>1. Ok(x)  BY <1>3, <1>5 DEF Ok, AlertFits
    <2> QED  BY <1>3, <1>5, <2>1 DEF Fits
  <1>6. CASE x \in Reparse(new, p, FALSE)
    <2>1. Ok(new)  BY <1>4 DEF Ok, AlertFits
    <2>2. Proceeds(new, x)  BY <1>6, <2>1, ReparseFits
    <2> QED  BY <1>4, <2>2 DEF Proceeds, Fits
  <1> QED  BY <1>1, <1>5, <1>6

-----------------------------------------------------------------------------
(* The steps.                                                                *)
Inv ==
    /\ stored \in State /\ AlertFits(stored)
    /\ stored.status = "none" => stored.open = {} /\ stored.mail = "none"

LEMMA InitHolds == Init => Inv
  BY DEF Init, Inv, State, AlertFits

LEMMA Committed ==
    ASSUME NEW S, Commit(S)
    PROVE  stored' \in S
  BY DEF Commit

LEMMA StepFits ==
    ASSUME Inv, Next
    PROVE  Fits(stored, stored')
  <1>1. Exists => Ok(stored)  BY DEF Inv, Exists, Ok
  <1>2. ASSUME CreateTicket  PROVE Fits(stored, stored')
    <2>1. PICK p \in Parses : stored' \in Created(stored, p)
      BY <1>2, Committed DEF CreateTicket
    <2>2. stored.status = "none"  BY <2>1 DEF Created
    <2> QED  BY <2>1, <2>2, CreatedFits DEF Inv
  <1>3. ASSUME ParseMail  PROVE Fits(stored, stored')
    <2>1. PICK p \in Parses, user \in BOOLEAN : stored' \in Reparse(stored, p, user)
      BY <1>3, Committed DEF ParseMail
    <2>2. Ok(stored)  BY <1>1, <1>3 DEF ParseMail
    <2> QED  BY <2>1, <2>2, ReparseFits, ProceedsFits
  <1>4. ASSUME ApplyParse  PROVE Fits(stored, stored')
    <2>1. PICK p \in Parses : stored' \in Apply(stored, p)
      BY <1>4, Committed DEF ApplyParse
    <2>2. Ok(stored)  BY <1>1, <1>4 DEF ApplyParse
    <2> QED  BY <2>1, <2>2, ApplyFits, StaysFits
  <1>5. ASSUME EditTicket  PROVE Fits(stored, stored')
    <2>1. stored' \in Edit(stored) /\ Ok(stored)  BY <1>1, <1>5, Committed DEF EditTicket
    <2> QED  BY <2>1, EditFits, StaysFits
  <1>6. ASSUME ChangePolicyOrRoute  PROVE Fits(stored, stored')
    <2>1. stored' \in PolicyOrRoute(stored) /\ Ok(stored)
      BY <1>1, <1>6, Committed DEF ChangePolicyOrRoute
    <2> QED  BY <2>1, PolicyOrRouteFits, StaysFits
  <1>7. ASSUME RevalidateSn  PROVE Fits(stored, stored')
    <2>1. stored' \in ValidateSn(stored) /\ Ok(stored)  BY <1>1, <1>7, Committed DEF RevalidateSn
    <2> QED  BY <2>1, ValidateSnFits, StaysFits
  <1>8. ASSUME ValidateExport  PROVE Fits(stored, stored')
    <2>1. stored' \in GatePasses(stored, {}) \cup GateFails(stored) /\ Ok(stored)
      BY <1>1, <1>8, Committed DEF ValidateExport
    <2> QED  BY <2>1, GatePassesProceeds, ProceedsFits, GateFailsFits, StaysFits
  <1>9. ASSUME RequestTransition  PROVE Fits(stored, stored')
    <2>1. PICK t \in Transitions :
             /\ t[1] = stored.status /\ t[2] \notin {"ready_for_export", "rma_sent", "closed"}
             /\ stored' \in Transition(stored, t[2], t[3], {}, "other")
      BY <1>9, Committed DEF RequestTransition
    <2>2. stored.status # "none"
      <3>1. \A u \in Transitions : u[1] # "none"
        BY DEF Transitions, BaseTransitions, NonTerminal, Statuses
      <3> QED  BY <2>1, <3>1
    <2>3. Ok(stored)  BY <2>2 DEF Inv, Ok
    <2> DEFINE to == t[2]
               event == t[3]
    <2>4. /\ to \notin {"ready_for_export", "closed"}
          /\ stored' \in Transition(stored, to, event, {}, "other")
      BY <2>1
    <2> HIDE DEF to, event
    <2>5. CASE stored.status # "manual_review"
      <3>1. Stays(stored, stored')  BY <2>3, <2>4, <2>5, TransitionStays, TaskNames
      <3> QED  BY <3>1, StaysFits
    <2>6. CASE stored.status = "manual_review"
      <3>1. Ok(stored') /\ stored'.status = to  BY <2>3, <2>4, TransitionFits, TaskNames
      <3>2. stored'.open \subseteq {} \cup (IF to = "ready_for_export" THEN {"route"} ELSE {})
        BY <2>3, <2>4, <2>6, NothingOpen, TaskNames
      <3>3. stored'.open = {}  BY <2>4, <3>2
      <3> QED  BY <2>4, <2>6, <3>1, <3>3 DEF Fits
    <2> QED  BY <2>5, <2>6
  <1>10. ASSUME ResolveTask  PROVE Fits(stored, stored')
    <2>1. PICK task \in stored.open :
             \/ stored' \in ResolveReady(stored, task)
             \/ stored' \in WaitCustomer(stored, task)
             \/ \E p \in Parses : stored' \in ReparseTask(stored, task, p)
             \/ stored' \in JustClose(stored, task)
      BY <1>10, Committed DEF ResolveTask, Followup
    <2>2. Ok(stored) /\ task \in TaskTypes  BY DEF Inv, Ok, State
    <2>3. CASE stored' \in ResolveReady(stored, task)
      BY <2>2, <2>3, ResolveReadyFits, ProceedsFits
    <2>4. CASE stored' \in WaitCustomer(stored, task)
      BY <2>2, <2>4, WaitCustomerFits, ProceedsFits
    <2>5. CASE \E p \in Parses : stored' \in ReparseTask(stored, task, p)
      BY <2>2, <2>5, ReparseTaskFits, ProceedsFits
    <2>6. CASE stored' \in JustClose(stored, task)
      BY <2>2, <2>6, CloseFits, StaysFits DEF JustClose
    <2> QED  BY <2>1, <2>3, <2>4, <2>5, <2>6
  <1>11. ASSUME FollowupSent  PROVE Fits(stored, stored')
    <2>1. /\ stored.status = "need_customer_info"
          /\ stored' \in Move(stored, "auto_replied", "reply_sent")
      BY <1>11, Committed DEF FollowupSent
    <2>2. Ok(stored)  BY <2>1 DEF Inv, Ok
    <2> QED  BY <2>1, <2>2, MoveStays, StaysFits
  <1>12. ASSUME SapProblem  PROVE Fits(stored, stored')
    <2>1. stored' \in SapFails(stored) /\ Ok(stored)  BY <1>1, <1>12, Committed DEF SapProblem
    <2> QED  BY <2>1, SapFailsFits, StaysFits
  <1>13. ASSUME ConfirmLateResult  PROVE Fits(stored, stored')
    <2>1. stored' \in LateResult(stored)  BY <1>13, Committed DEF ConfirmLateResult
    <2>2. Ok(stored)  BY <2>1 DEF LateResult, Inv, Ok
    <2> QED  BY <2>1, <2>2, LateResultFits
  <1>14. ASSUME Authorize  PROVE Fits(stored, stored')
    <2>1. stored' \in PrepareRma(stored) /\ Ok(stored)  BY <1>1, <1>14, Committed DEF Authorize
    <2> QED  BY <2>1, PrepareRmaFits, StaysFits
  <1>15. ASSUME Deliver  PROVE Fits(stored, stored')
    <2>1. stored' \in SendRma(stored)  BY <1>15, Committed DEF Deliver
    <2>2. Ok(stored)  BY <2>1 DEF SendRma, Inv, Ok
    <2> QED  BY <2>1, <2>2, SendRmaFits, StaysFits
  <1>16. ASSUME Archive  PROVE Fits(stored, stored')
    <2>1. stored' \in Finalize(stored)  BY <1>16, Committed DEF Archive
    <2>2. Ok(stored)  BY <2>1 DEF Finalize, MayFinalize, Inv, Ok
    <2> QED  BY <2>1, <2>2, FinalizeFits
  <1> QED
    BY <1>2, <1>3, <1>4, <1>5, <1>6, <1>7, <1>8, <1>9, <1>10, <1>11, <1>12, <1>13, <1>14, <1>15,
       <1>16 DEF Next

LEMMA NextHolds == Inv /\ [Next]_vars => Inv'
  <1> SUFFICES ASSUME Inv, [Next]_vars PROVE Inv'
    OBVIOUS
  <1>1. CASE Next  BY <1>1, StepFits DEF Fits, Ok, Inv
  <1>2. CASE UNCHANGED vars  BY <1>2 DEF Inv, vars
  <1> QED  BY <1>1, <1>2

-----------------------------------------------------------------------------
(* The ticket is well formed, whatever handlers run in whatever order.       *)
THEOREM TicketTyped == Spec => []TypeOK
  <1>1. Inv => TypeOK  BY DEF Inv, TypeOK
  <1> QED  BY <1>1, InitHolds, NextHolds, PTL DEF Spec

(* The notification of a system error asks for attention exactly while the   *)
(* ticket is in error: transition_ticket raises and withdraws it.            *)
THEOREM AlertsWhileError == Spec => []AlertWhileError
  <1>1. Inv => AlertWhileError  BY DEF Inv, AlertFits, AlertWhileError
  <1> QED  BY <1>1, InitHolds, NextHolds, PTL DEF Spec

(* No handler takes a ticket out of the review past an open task.            *)
THEOREM LeavesReviewOnlyClear == Spec => LeavesReviewClear
  <1>1. Inv /\ [Next]_vars =>
          [stored.status = "manual_review" /\ stored'.status # "manual_review" =>
             stored.open \cap stored'.open
               \subseteq {"relay", "reply"}
                           \cup IF stored'.status = "ready_for_export" THEN {"route"} ELSE {}]_vars
    <2> SUFFICES ASSUME Inv, Next, stored.status = "manual_review", stored'.status # "manual_review"
                 PROVE  stored'.open \subseteq Left(stored')
      BY DEF Left
    <2> QED  BY StepFits DEF Fits
  <1> QED  BY <1>1, InitHolds, NextHolds, PTL DEF Spec, LeavesReviewClear

(* A ticket gets ready for the export on evidence of the data it then has,   *)
(* or by the late result of the export that had the evidence.                *)
THEOREM ReadyOnlyOnEvidence == Spec => ReadyOnEvidence
  <1>1. Inv /\ [Next]_vars =>
          [stored.status # "ready_for_export" /\ stored'.status = "ready_for_export" =>
             \/ stored'.evidence = "current"
             \/ stored'.evidence = stored.evidence /\ stored.evidence = "old"
                  /\ "timeout" \in stored.open \ stored'.open]_vars
    BY StepFits DEF Fits
  <1> QED  BY <1>1, InitHolds, NextHolds, PTL DEF Spec, ReadyOnEvidence

(* A ticket is closed after its RMA reply was delivered, as issued, for good.*)
THEOREM ClosesAfterDelivery == Spec => ClosedAfterDelivery
  <1>1. Inv /\ [Next]_vars =>
          [/\ stored.status = "closed" => stored'.status = "closed"
           /\ stored'.status = "closed" /\ stored.status # "closed" =>
                stored.mail = "sent" /\ stored'.rma = "issued"]_vars
    BY StepFits DEF Fits
  <1> QED  BY <1>1, InitHolds, NextHolds, PTL DEF Spec, ClosedAfterDelivery
-----------------------------------------------------------------------------
(***************************************************************************)
(* Who has to work on a task: proofs about ReviewBoard, whose variables    *)
(* are apart from the ticket's, for any operators and administrators.      *)
(* A handler leaves the operators alone and tells a new owner (Handled);   *)
(* a slow transaction that nobody overtook is as if it read now (AsIfNow). *)
(***************************************************************************)
(* Unless two dismissals crossed, the pair is not gone, and a slow           *)
(* dismissal leaves one of it.                                               *)
OneOfPair ==
  raced # "crossed" =>
    /\ PairIsThere
    /\ slow.late # "crossed" => (db.staff \ slow.gone) \cap Pair # {}

TaskColumns == {"status", "owner", "claimer", "keeper", "scope", "corrected", "handed", "took"}

(* What a transaction that has read will write.                              *)
WritesFit == /\ DOMAIN slow.changed \subseteq TaskColumns
             /\ \E b \in BoardRows : \A c \in DOMAIN slow.changed : slow.changed[c] = b[c]

(* Nobody has overtaken it: it is as if it read now.                         *)
AsIfNow ==
  ~Idle /\ slow.late = "no" =>
     \E o \in Choices(db, slow.what) :
        slow.changed = Difference(db, o.rows) /\ slow.quiet = o.quiet /\ slow.tell = o.tell

Told(b, users) == b.status \in Open /\ b.owner # Nobody => b.owner \in users \cup {b.took}

SlowIs == slow = [what |-> slow.what, changed |-> slow.changed, quiet |-> slow.quiet,
                  tell |-> slow.tell, gone |-> slow.gone, late |-> slow.late]

(* Only one transaction is overtaken, and one operator dismissed.            *)
OnlyOne == /\ ~Idle => raced = "no"
           /\ slow.what # "dismissal" => slow.gone = {}
           /\ \E u : slow.gone \subseteq {u}

BInv == /\ BoardTypeOK /\ SlowIs /\ OneOfPair /\ WritesFit
        /\ AsIfNow /\ OnlyOne /\ OwnerIsTold

-----------------------------------------------------------------------------
(* Rows and columns *)

LEMMA RowsHave ==
  ASSUME NEW b \in BoardRows
  PROVE  /\ DOMAIN b = TaskColumns \cup {"kind", "staff"}
         /\ b.status \in Open \cup {"none", "resolved"} /\ b.owner \in Users \cup {Nobody}
         /\ b.claimer \in Users \cup {Nobody} /\ b.keeper \in Users \cup {Nobody}
         /\ b.scope \in Pair /\ b.took \in Users \cup {Nobody}
         /\ b.staff \subseteq Operators
         /\ b.kind \in {"ticket", "mail"} /\ b.corrected \in BOOLEAN /\ b.handed \in BOOLEAN
  BY DEF BoardRows, TaskColumns

\* TaskColumns of q written over b.
LEMMA WrittenIsRow ==
  ASSUME NEW b \in BoardRows, NEW q \in BoardRows, NEW f, DOMAIN f \subseteq TaskColumns,
         \A c \in DOMAIN f : f[c] = q[c]
  PROVE  Written(b, f) \in BoardRows /\ Written(b, f).staff = b.staff
  <1> DEFINE x == Written(b, f)
  <1>1. DOMAIN b = TaskColumns \cup {"kind", "staff"}
    BY RowsHave
  <1>2. x = [c \in TaskColumns \cup {"kind", "staff"} |-> IF c \in DOMAIN f THEN q[c] ELSE b[c]]
    BY <1>1 DEF Written
  <1>3. x = [kind |-> x.kind, status |-> x.status, owner |-> x.owner, claimer |-> x.claimer,
             keeper |-> x.keeper, scope |-> x.scope, corrected |-> x.corrected,
             handed |-> x.handed, took |-> x.took, staff |-> x.staff]
    BY <1>2 DEF TaskColumns
  <1>4. /\ x.kind = b.kind /\ x.staff = b.staff
        /\ x.status \in {b.status, q.status} /\ x.owner \in {b.owner, q.owner}
        /\ x.claimer \in {b.claimer, q.claimer} /\ x.keeper \in {b.keeper, q.keeper}
        /\ x.scope \in {b.scope, q.scope} /\ x.corrected \in {b.corrected, q.corrected}
        /\ x.handed \in {b.handed, q.handed} /\ x.took \in {b.took, q.took}
    BY <1>2 DEF TaskColumns
  <1> HIDE DEF x
  <1>5. /\ x.kind \in {"ticket", "mail"} /\ x.status \in Open \cup {"none", "resolved"}
        /\ x.owner \in Users \cup {Nobody} /\ x.claimer \in Users \cup {Nobody}
        /\ x.keeper \in Users \cup {Nobody} /\ x.scope \in Pair /\ x.corrected \in BOOLEAN
        /\ x.handed \in BOOLEAN /\ x.took \in Users \cup {Nobody}
        /\ x.staff \in SUBSET Operators
    BY <1>4 DEF BoardRows
  <1>6. x \in BoardRows
    BY <1>3, <1>5 DEF BoardRows
  <1> QED  BY <1>4, <1>6 DEF x

\* Writing what was changed makes the rows what they were to be.
LEMMA WrittenIsChanged ==
  ASSUME NEW b \in BoardRows, NEW q \in BoardRows
  PROVE  Written(b, Difference(b, q)) = q
  <1>1. /\ DOMAIN b = TaskColumns \cup {"kind", "staff"}
        /\ DOMAIN q = TaskColumns \cup {"kind", "staff"}
    BY RowsHave
  <1>2. \A c \in DOMAIN b : Written(b, Difference(b, q))[c] = q[c]
    BY DEF Written, Difference
  <1>3. DOMAIN Written(b, Difference(b, q)) = DOMAIN b
    BY DEF Written
  <1> DEFINE x == Written(b, Difference(b, q))
  <1>4. x = [c \in TaskColumns \cup {"kind", "staff"} |-> q[c]]
    BY <1>1 DEF Written, Difference
  <1>5. q = [c \in TaskColumns \cup {"kind", "staff"} |-> q[c]]
    BY <1>1 DEF BoardRows
  <1> QED  BY <1>4, <1>5

-----------------------------------------------------------------------------
(* Whom a task falls to *)

LEMMA SomeOwner ==
  ASSUME NEW b, b.scope \in Pair
  PROVE  /\ ScopeOwner(b) \in b.staff \cup {Nobody}
         /\ b.staff \cap Pair # {} => ScopeOwner(b) \in b.staff
  <1> DEFINE backup == CHOOSE u \in Pair : u # b.scope
  <1>1. backup \in Pair /\ backup # b.scope /\ Pair = {b.scope, backup}
    BY UsersAssumption DEF Pair
  <1>2. ScopeOwner(b) = IF b.scope \in b.staff THEN b.scope
                        ELSE IF backup \in b.staff THEN backup ELSE Nobody
    BY DEF ScopeOwner
  <1> HIDE DEF backup
  <1> QED  BY <1>1, <1>2

LEMMA OwnerOfTask ==
  ASSUME NEW b, b.scope \in Pair, NEW u
  PROVE  /\ TaskOwner(b, u) \in b.staff \cup {Nobody}
         /\ b.staff \cap Pair # {} => TaskOwner(b, u) \in b.staff
  BY SomeOwner DEF TaskOwner

LEMMA PeopleAreUsers == /\ Nobody \notin Users
         /\ Operators \subseteq Users /\ Pair \subseteq Operators
  BY UsersAssumption DEF Users, Operators, Pair

-----------------------------------------------------------------------------
(* What a handler may do *)

Outcomes == [rows : BoardRows, quiet : BOOLEAN, tell : SUBSET Users]

(* It leaves kind and staff alone, and tells the owner if he is new.         *)
Handled(b, o) ==
  /\ o \in Outcomes
  /\ o.rows.kind = b.kind /\ o.rows.staff = b.staff
  /\ o.rows.status \in Open /\ o.rows.owner # Nobody =>
        \/ o.rows.owner \in o.tell \cup {o.rows.took}
        \/ /\ b.status \in Open /\ o.rows.owner = b.owner /\ o.rows.took = b.took /\ ~o.quiet

LEMMA Kinds ==
  ASSUME NEW b \in BoardRows
  PROVE  /\ Quiet(b) \in Outcomes /\ Only(b) \in Outcomes
         /\ \A u \in Users : Tells(b, u) \in Outcomes /\ Renews(b, u) \in Outcomes
  BY DEF Quiet, Only, Tells, Renews, Outcomes

LEMMA QuietOrOnly ==
  ASSUME NEW b
  PROVE  /\ Quiet(b).rows = b /\ Quiet(b).quiet /\ Quiet(b).tell = {}
         /\ Only(b).rows = b /\ ~Only(b).quiet /\ Only(b).tell = {}
  BY DEF Quiet, Only

LEMMA TellsOrRenews ==
  ASSUME NEW b, NEW u
  PROVE  /\ Tells(b, u).rows = b /\ ~Tells(b, u).quiet /\ Tells(b, u).tell = {u}
         /\ Renews(b, u).rows = b /\ Renews(b, u).quiet /\ Renews(b, u).tell = {u}
  BY DEF Tells, Renews

LEMMA CreateHandles ==
  ASSUME NEW b \in BoardRows, NEW o \in Create(b)
  PROVE  Handled(b, o)
  <1> DEFINE owner == TaskOwner(b, IF b.kind = "ticket" THEN b.keeper ELSE Nobody)
             after == [b EXCEPT !.status = "pending", !.owner = owner]
  <1>1. owner # Nobody /\ o = Tells(after, owner)
    BY DEF Create
  <1>2. owner \in Users
    BY <1>1, OwnerOfTask, RowsHave, PeopleAreUsers
  <1> HIDE DEF owner
  <1>3. after \in BoardRows /\ after.kind = b.kind /\ after.staff = b.staff /\ after.owner = owner
    BY <1>2 DEF BoardRows, Open
  <1> HIDE DEF after
  <1> QED  BY <1>1, <1>2, <1>3, Kinds, QuietOrOnly, TellsOrRenews DEF Handled

LEMMA AskAgainHandles ==
  ASSUME NEW b \in BoardRows, NEW o \in AskAgain(b)
  PROVE  Handled(b, o)
  <1> DEFINE owner == TaskOwner(b, First(b.owner, b.keeper))
             after == [b EXCEPT !.status = "pending", !.owner = owner, !.claimer = Nobody]
  <1>1. owner # Nobody /\ o = Renews(after, owner)
    BY DEF AskAgain
  <1>2. owner \in Users
    BY <1>1, OwnerOfTask, RowsHave, PeopleAreUsers
  <1> HIDE DEF owner
  <1>3. after \in BoardRows /\ after.kind = b.kind /\ after.staff = b.staff /\ after.owner = owner
    BY <1>2 DEF BoardRows, Open
  <1> HIDE DEF after
  <1> QED  BY <1>1, <1>2, <1>3, Kinds, QuietOrOnly, TellsOrRenews DEF Handled

LEMMA RouteHandles ==
  ASSUME NEW b \in BoardRows, NEW scope \in Pair, NEW o \in Route(b, scope)
  PROVE  Handled(b, o)
  <1> DEFINE scoped == [b EXCEPT !.scope = scope]
             owner == ScopeOwner(scoped)
             kept == [scoped EXCEPT !.keeper = IF b.corrected THEN @ ELSE owner]
             moved == [kept EXCEPT !.owner = owner, !.status = "pending"]
  <1>1. \/ o = Only(scoped)
        \/ owner # Nobody /\ (o = Renews(moved, owner) \/ o = Only(kept))
    BY DEF Route
  <1>2. /\ scoped \in BoardRows /\ scoped.kind = b.kind /\ scoped.staff = b.staff
        /\ scoped.status = b.status /\ scoped.owner = b.owner /\ scoped.took = b.took
    BY DEF BoardRows
  <1> HIDE DEF scoped
  <1>3. owner \in Users \cup {Nobody}
    BY <1>2, SomeOwner, RowsHave, PeopleAreUsers
  <1> HIDE DEF owner
  <1>4. /\ kept \in BoardRows /\ kept.kind = b.kind /\ kept.staff = b.staff
        /\ kept.status = b.status /\ kept.owner = b.owner /\ kept.took = b.took
    BY <1>2, <1>3 DEF BoardRows
  <1> HIDE DEF kept
  <1>5. moved \in BoardRows /\ moved.kind = b.kind /\ moved.staff = b.staff /\ moved.owner = owner
    BY <1>3, <1>4 DEF BoardRows, Open
  <1> HIDE DEF moved
  <1>6. CASE o = Only(scoped)
    BY <1>2, <1>6, Kinds, QuietOrOnly, TellsOrRenews DEF Handled
  <1>7. CASE owner # Nobody /\ o = Renews(moved, owner)
    BY <1>3, <1>5, <1>7, Kinds, QuietOrOnly, TellsOrRenews DEF Handled
  <1>8. CASE o = Only(kept)
    BY <1>4, <1>8, Kinds, QuietOrOnly, TellsOrRenews DEF Handled
  <1> QED  BY <1>1, <1>6, <1>7, <1>8

LEMMA ClaimHandles ==
  ASSUME NEW b \in BoardRows, NEW u \in Users, NEW o \in Claim(b, u)
  PROVE  Handled(b, o)
  <1> DEFINE after == [b EXCEPT !.status = "claimed", !.claimer = u, !.owner = u,
                                !.took = IF b.owner = Nobody THEN u ELSE @,
                                !.keeper = IF b.kind = "ticket" THEN First(@, u) ELSE @]
  <1>1. b.status \in Open /\ b.owner \in {Nobody, u} /\ o = Only(after)
    BY DEF Claim, Open
  <1>2. /\ after \in BoardRows /\ after.kind = b.kind /\ after.staff = b.staff /\ after.owner = u
        /\ after.took = IF b.owner = Nobody THEN u ELSE b.took
    BY DEF BoardRows, Open, First
  <1> HIDE DEF after
  <1> QED  BY <1>1, <1>2, Kinds, QuietOrOnly, TellsOrRenews DEF Handled

LEMMA AssignHandles ==
  ASSUME NEW b \in BoardRows, NEW u \in Users \cup {Nobody}, NEW o \in Assign(b, u)
  PROVE  Handled(b, o)
  <1> DEFINE freed == IF u = Nobody \/ b.status = "pending" THEN [b EXCEPT !.claimer = Nobody]
                      ELSE b
             state == CASE u = Nobody -> "pending"
                        [] u # Nobody /\ b.status = "pending" -> "assigned"
                        [] OTHER -> b.status
             after == [freed EXCEPT !.owner = u, !.status = state, !.handed = TRUE,
                                    !.keeper = IF b.kind = "ticket" THEN u ELSE @]
  <1>1. /\ b.status \in Open
        /\ \/ u = Nobody /\ o = Only(after)
           \/ u # Nobody /\ o = Tells(after, u)
    BY DEF Assign
  <1>2. state \in Open
    BY <1>1 DEF Open
  <1>3. freed \in BoardRows /\ freed.kind = b.kind /\ freed.staff = b.staff
    BY DEF BoardRows
  <1> HIDE DEF state, freed
  <1>4. after \in BoardRows /\ after.kind = b.kind /\ after.staff = b.staff /\ after.owner = u
    BY <1>2, <1>3 DEF BoardRows
  <1> HIDE DEF after
  <1> QED  BY <1>1, <1>4, Kinds, QuietOrOnly, TellsOrRenews DEF Handled

LEMMA ReleaseHandles ==
  ASSUME NEW b \in BoardRows, NEW u, NEW o \in Release(b, u)
  PROVE  Handled(b, o)
  <1> DEFINE after == [b EXCEPT !.status = "pending", !.claimer = Nobody]
  <1>1. b.status \in Open /\ o = Only(after)
    BY DEF Release, Open
  <1>2. /\ after \in BoardRows /\ after.kind = b.kind /\ after.staff = b.staff
        /\ after.owner = b.owner /\ after.took = b.took
    BY DEF BoardRows, Open
  <1> HIDE DEF after
  <1> QED  BY <1>1, <1>2, Kinds, QuietOrOnly, TellsOrRenews DEF Handled

LEMMA SettleHandles ==
  ASSUME NEW b \in BoardRows, NEW o \in Resolve(b) \cup Settle(b)
  PROVE  Handled(b, o)
  <1> DEFINE after == [b EXCEPT !.status = "resolved"]
  <1>1. o = Quiet(after) \/ o = Only(after)
    BY DEF Resolve, Settle
  <1>2. /\ after \in BoardRows /\ after.kind = b.kind /\ after.staff = b.staff
        /\ after.status = "resolved"
    BY DEF BoardRows
  <1> HIDE DEF after
  <1>3. o.rows = after /\ o.tell = {} /\ o \in Outcomes
    BY <1>1, <1>2, Kinds, QuietOrOnly
  <1> QED  BY <1>2, <1>3 DEF Handled, Open

LEMMA CorrectOwnerHandles ==
  ASSUME NEW b \in BoardRows, NEW u \in Users, NEW o \in CorrectOwner(b, u)
  PROVE  Handled(b, o)
  <1> DEFINE after == [b EXCEPT !.keeper = u, !.corrected = TRUE]
             given == [after EXCEPT !.owner = u, !.claimer = Nobody, !.status = "pending"]
  <1>1. \/ o = Renews(given, u)
        \/ b.status \notin Open /\ o = Only(after)
    BY DEF CorrectOwner
  <1>2. /\ after \in BoardRows /\ after.kind = b.kind /\ after.staff = b.staff
        /\ after.status = b.status
    BY DEF BoardRows
  <1> HIDE DEF after
  <1>3. given \in BoardRows /\ given.kind = b.kind /\ given.staff = b.staff /\ given.owner = u
    BY <1>2 DEF BoardRows, Open
  <1> HIDE DEF given
  <1> QED  BY <1>1, <1>2, <1>3, Kinds, QuietOrOnly, TellsOrRenews DEF Handled

LEMMA HandlersHandle ==
  ASSUME NEW b \in BoardRows, NEW o \in Handlers(b)
  PROVE  Handled(b, o)
  <1>1. Workers(b) \subseteq Users /\ b.staff \subseteq Users
    BY RowsHave, PeopleAreUsers DEF Workers, Users
  <1>2. \/ o \in Create(b) \/ o \in AskAgain(b) \/ o \in Resolve(b) \cup Settle(b)
        \/ \E scope \in Pair : o \in Route(b, scope)
        \/ \E u \in Users :
             o \in Claim(b, u) \/ o \in Release(b, u) \/ o \in CorrectOwner(b, u)
        \/ \E u \in Users \cup {Nobody} : o \in Assign(b, u)
    <2>1. \/ o \in Create(b) \/ o \in AskAgain(b) \/ o \in Resolve(b) \/ o \in Settle(b)
          \/ \E scope \in Pair : o \in Route(b, scope)
          \/ \E u \in Workers(b) : o \in Claim(b, u) \cup Release(b, u)
          \/ \E u \in b.staff \cup {Nobody} : o \in Assign(b, u)
          \/ \E u \in b.staff : o \in CorrectOwner(b, u)
      <3> DEFINE R == UNION {Route(b, scope) : scope \in Pair}
                 C == UNION {Claim(b, u) \cup Release(b, u) : u \in Workers(b)}
                 A == UNION {Assign(b, u) : u \in b.staff \cup {Nobody}}
                 O == UNION {CorrectOwner(b, u) : u \in b.staff}
      <3>1. o \in R => \E scope \in Pair : o \in Route(b, scope)
        OBVIOUS
      <3>2. o \in C => \E u \in Workers(b) : o \in Claim(b, u) \cup Release(b, u)
        OBVIOUS
      <3>3. o \in A => \E u \in b.staff \cup {Nobody} : o \in Assign(b, u)
        OBVIOUS
      <3>4. o \in O => \E u \in b.staff : o \in CorrectOwner(b, u)
        OBVIOUS
      <3>5. Handlers(b) =
              Create(b) \cup AskAgain(b) \cup R \cup C \cup A \cup O
                \cup Resolve(b) \cup Settle(b)
        BY DEF Handlers
      <3> HIDE DEF R, C, A, O
      <3> QED  BY <3>1, <3>2, <3>3, <3>4, <3>5
    <2> QED  BY <1>1, <2>1
  <1> QED  BY <1>2, CreateHandles, AskAgainHandles, RouteHandles, ClaimHandles, AssignHandles,
              ReleaseHandles, SettleHandles, CorrectOwnerHandles

-----------------------------------------------------------------------------
(* The repair *)

LEMMA RepairHandles ==
  ASSUME NEW b \in BoardRows
  PROVE  Handled(b, Repaired(b))
  <1> DEFINE owner == RepairOwner(b)
             state == IF b.status = "assigned" /\ owner # Nobody THEN "assigned" ELSE "pending"
             after == [b EXCEPT !.status = state, !.owner = owner]
             o == Repaired(b)
  <1>1. \/ b.status = "none" /\ o = Only(b)
        \/ b.status = "resolved" /\ o = Quiet(b)
        \/ b.status \in Open /\ o = Only(b)
        \/ b.status \in Open /\ owner # Nobody /\ o = Renews(after, owner)
        \/ b.status \in Open /\ (after = b \/ owner = Nobody) /\ o = Only(after)
    BY RowsHave DEF Repaired
  <1>2. owner \in Users \cup {Nobody}
    BY OwnerOfTask, RowsHave, PeopleAreUsers DEF RepairOwner
  <1>3. state \in Open
    BY DEF Open
  <1> HIDE DEF owner, state
  <1>4. after \in BoardRows /\ after.kind = b.kind /\ after.staff = b.staff /\ after.owner = owner
    BY <1>2, <1>3 DEF BoardRows
  <1>5. after = b => after.took = b.took
    OBVIOUS
  <1> HIDE DEF after, o
  <1>6. \/ o.rows = b /\ b.status \notin Open /\ o.tell = {}
        \/ o.rows = b /\ b.status \in Open /\ ~o.quiet
        \/ o.rows = after /\ owner # Nobody /\ o.tell = {owner}
        \/ o.rows = after /\ owner = Nobody
    BY <1>1, QuietOrOnly, TellsOrRenews DEF Open
  <1>7. o \in Outcomes
    BY <1>1, <1>2, <1>4, Kinds
  <1>8. Handled(b, o)
    BY <1>4, <1>6, <1>7 DEF Handled
  <1> QED  BY <1>8 DEF o

\* While there is an operator whom tasks fall to, an open task gets an active one.
LEMMA RepairFinds ==
  ASSUME NEW b \in BoardRows
  PROVE  LET o == Repaired(b) IN
         /\ b.staff \cap Pair # {} /\ o.rows.status \in Open =>
              {o.rows.owner, o.rows.claimer} \cap o.rows.staff # {}
         /\ o.rows.status = "resolved" => o.quiet /\ o.tell = {}
  <1> DEFINE owner == RepairOwner(b)
             state == IF b.status = "assigned" /\ owner # Nobody THEN "assigned" ELSE "pending"
             after == [b EXCEPT !.status = state, !.owner = owner]
             o == Repaired(b)
  <1>1. \/ b.status = "none" /\ o = Only(b)
        \/ b.status = "resolved" /\ o = Quiet(b)
        \/ b.claimer \in b.staff /\ b.status \in Open /\ o = Only(b)
        \/ o = Renews(after, owner)
        \/ o = Only(after)
    BY RowsHave DEF Repaired
  <1>2. b.staff \cap Pair # {} => owner \in b.staff
    BY OwnerOfTask, RowsHave DEF RepairOwner
  <1>3. state \in Open
    BY DEF Open
  <1> HIDE DEF owner, state
  <1>4. after.status \in Open /\ after.staff = b.staff /\ after.owner = owner
    BY <1>3 DEF BoardRows
  <1> HIDE DEF after, o
  <1>5. /\ b.staff \cap Pair # {} /\ o.rows.status \in Open =>
             {o.rows.owner, o.rows.claimer} \cap o.rows.staff # {}
        /\ o.rows.status = "resolved" => o.quiet /\ o.tell = {}
    BY <1>1, <1>2, <1>4, QuietOrOnly, TellsOrRenews DEF Open
  <1> QED  BY <1>5 DEF o

-----------------------------------------------------------------------------
(* The steps *)

\* What committed after and notifications are like after an outcome.
LEMMA OutcomeTold ==
  ASSUME NEW b, NEW o, Handled(b, o), NEW users, Told(b, users)
  PROVE  Told(o.rows, (IF o.quiet THEN {} ELSE users) \cup o.tell)
  BY DEF Told, Handled

\* Whatever the transaction, it is one of the handlers, the repair, or writes nothing itself.
LEMMA ChoicesHandle ==
  ASSUME NEW b \in BoardRows, NEW what \in {"request", "repair", "dismissal"},
         NEW o \in Choices(b, what)
  PROVE  Handled(b, o)
  <1>1. CASE what = "request"
    BY <1>1, HandlersHandle DEF Choices
  <1>2. CASE what = "repair"
    BY <1>2, RepairHandles DEF Choices
  <1>3. CASE what = "dismissal"
    <2>1. o = Only(b)
      BY <1>3 DEF Choices
    <2> QED  BY <2>1, Kinds, QuietOrOnly DEF Handled
  <1> QED  BY <1>1, <1>2, <1>3

LEMMA GoesFit ==
  ASSUME NEW b \in BoardRows, b.staff \cap Pair # {}, NEW what, NEW gone \in Goes(b, what)
  PROVE  /\ gone \subseteq Operators /\ \E u : gone \subseteq {u}
         /\ what # "dismissal" => gone = {}
         /\ (b.staff \ gone) \cap Pair # {}
  <1>1. CASE gone = {}
    BY <1>1
  <1>2. what # "dismissal" => gone = {}
    BY DEF Goes
  <1>3. ASSUME gone # {} PROVE \E u \in Operators : gone = {u} /\ MayGo(b, u)
    BY <1>3 DEF Goes
  <1>4. CASE gone # {}
    BY <1>2, <1>3, <1>4 DEF MayGo, PairStays
  <1> QED  BY <1>1, <1>4

LEMMA OwnerTold == OwnerIsTold <=> (raced = "no" => Told(db, told))
  BY DEF OwnerIsTold, Told

LEMMA BoardInitKeeps == ASSUME BoardInit PROVE BInv
  <1>1. db \in BoardRows /\ db.staff = Operators /\ db.status = "none"
    BY PeopleAreUsers DEF BoardInit, BoardRows, Pair
  <1>2. slow = None /\ told = {} /\ raced = "no"
    BY DEF BoardInit
  <1>3. DOMAIN slow.changed = {} /\ Idle /\ slow.gone = {} /\ SlowIs
    BY <1>2 DEF None, Idle, SlowIs
  <1>4. BoardTypeOK
    BY <1>1, <1>2, <1>3 DEF BoardTypeOK, None, Race
  <1>5. OneOfPair
    BY <1>1, <1>3, PeopleAreUsers DEF OneOfPair, PairIsThere, Pair
  <1>6. WritesFit
    BY <1>1, <1>3 DEF WritesFit
  <1>7. AsIfNow /\ OnlyOne
    BY <1>3 DEF AsIfNow, OnlyOne
  <1>8. OwnerIsTold
    BY <1>1 DEF OwnerIsTold, Open
  <1> QED  BY <1>3, <1>4, <1>5, <1>6, <1>7, <1>8 DEF BInv

\* Another transaction commits while the slow one waits: that one is late from then on.
LEMMA Overtakes ==
  ASSUME BInv, NEW how \in {"overtaken", "crossed"}, Overtake(how)
  PROVE  /\ UNCHANGED <<slow.what, slow.changed, slow.quiet, slow.tell, slow.gone, raced>>
         /\ SlowIs' /\ WritesFit' /\ AsIfNow' /\ OnlyOne' /\ Idle' = Idle
         /\ slow.late = "no" /\ slow'.late = (IF Idle THEN "no" ELSE how)
  <1> DEFINE late == IF Idle THEN "no" ELSE how
  <1>1. slow' = [slow EXCEPT !.late = late] /\ slow.late = "no" /\ raced' = raced
    BY DEF Overtake
  <1>2. ~Idle => late # "no"
    OBVIOUS
  <1> HIDE DEF late
  <1>3. slow' = [what |-> slow.what, changed |-> slow.changed, quiet |-> slow.quiet,
                 tell |-> slow.tell, gone |-> slow.gone, late |-> late]
    BY <1>1 DEF BInv, SlowIs
  <1>4. /\ UNCHANGED <<slow.what, slow.changed, slow.quiet, slow.tell, slow.gone, raced>>
        /\ slow'.late = late
    BY <1>1, <1>3
  <1>5. SlowIs' /\ WritesFit' /\ Idle' = Idle
    BY <1>3, <1>4 DEF SlowIs, WritesFit, Idle, BInv
  <1>6. AsIfNow'
    BY <1>2, <1>4, <1>5 DEF AsIfNow
  <1>7. OnlyOne'
    BY <1>4, <1>5 DEF OnlyOne, BInv
  <1> QED  BY <1>1, <1>4, <1>5, <1>6, <1>7 DEF late

\* A transaction on the task that nobody overtakes, the repair among them.
LEMMA OutcomeKeeps ==
  ASSUME BInv, NEW o, Handled(db, o), db' = o.rows, told' = Recipients(o.quiet, o.tell),
         Overtake("overtaken")
  PROVE  BInv'
  <1>1. o \in Outcomes /\ db' \in BoardRows /\ db'.staff = db.staff
    BY DEF Handled, Outcomes
  <1>2. told' \subseteq Users
    BY <1>1 DEF Outcomes, Recipients, BInv, BoardTypeOK
  <1>3. /\ UNCHANGED <<slow.what, slow.changed, slow.quiet, slow.tell, slow.gone, raced>>
        /\ SlowIs' /\ WritesFit' /\ AsIfNow' /\ OnlyOne'
        /\ slow.late = "no" /\ slow'.late \in {"no", "overtaken"}
    BY Overtakes
  <1>4. BoardTypeOK'
    BY <1>1, <1>2, <1>3 DEF BInv, BoardTypeOK, Race
  <1>5. OneOfPair'
    BY <1>1, <1>3 DEF BInv, OneOfPair, PairIsThere
  <1>6. OwnerIsTold'
    <2>1. SUFFICES ASSUME raced = "no" PROVE Told(db, told)'
      BY <1>3, OwnerTold DEF OwnerIsTold, Told
    <2>2. Told(db, told)
      BY <2>1, OwnerTold DEF BInv
    <2>3. Told(o.rows, (IF o.quiet THEN {} ELSE told) \cup o.tell)
      BY <2>2, OutcomeTold
    <2> QED  BY <2>3 DEF Recipients, Told
  <1> QED  BY <1>3, <1>4, <1>5, <1>6 DEF BInv

LEMMA RequestKeeps == ASSUME BInv, Request PROVE BInv'
  <1>1. PICK o \in Handlers(db) : db' = o.rows /\ told' = Recipients(o.quiet, o.tell)
    BY DEF Request
  <1>2. Handled(db, o)
    BY HandlersHandle DEF BInv, BoardTypeOK
  <1> QED  BY <1>1, <1>2, OutcomeKeeps DEF Request

LEMMA RepairKeeps == ASSUME BInv, Repair PROVE BInv'
  <1>1. Handled(db, Repaired(db))
    BY RepairHandles DEF BInv, BoardTypeOK
  <1> QED  BY <1>1, OutcomeKeeps DEF Repair

LEMMA ReadKeeps == ASSUME BInv, Read PROVE BInv'
  <1>0. PICK what \in {"request", "repair", "dismissal"} :
          \E o \in Choices(db, what), gone \in Goes(db, what) :
             slow' = [what |-> what, changed |-> Difference(db, o.rows), quiet |-> o.quiet,
                      tell |-> o.tell, gone |-> gone, late |-> "no"]
    BY DEF Read
  <1>1. PICK o \in Choices(db, what), gone \in Goes(db, what) :
          slow' = [what |-> what, changed |-> Difference(db, o.rows), quiet |-> o.quiet,
                   tell |-> o.tell, gone |-> gone, late |-> "no"]
    BY <1>0
  <1>2. db \in BoardRows /\ Handled(db, o)
    BY ChoicesHandle DEF BInv, BoardTypeOK
  <1>3. o.rows \in BoardRows /\ o.quiet \in BOOLEAN /\ o.tell \subseteq Users
    BY <1>2 DEF Handled, Outcomes
  <1>4. /\ slow'.what = what /\ slow'.changed = Difference(db, o.rows) /\ slow'.quiet = o.quiet
        /\ slow'.tell = o.tell /\ slow'.gone = gone /\ slow'.late = "no" /\ SlowIs'
    BY <1>1 DEF SlowIs
  <1>5. DOMAIN Difference(db, o.rows) \subseteq TaskColumns
    <2>1. DOMAIN Difference(db, o.rows) = {c \in DOMAIN db : o.rows[c] # db[c]}
      BY DEF Difference
    <2>2. o.rows["kind"] = db["kind"] /\ o.rows["staff"] = db["staff"]
      BY <1>2 DEF Handled
    <2> QED  BY <1>2, <2>1, <2>2, RowsHave
  <1>6. WritesFit'
    <2>1. \A c \in DOMAIN Difference(db, o.rows) : Difference(db, o.rows)[c] = o.rows[c]
      BY DEF Difference
    <2> QED  BY <1>3, <1>4, <1>5, <2>1 DEF WritesFit
  <1>7. db' = db /\ told' = told /\ raced' = raced /\ raced = "no" /\ ~Idle'
    BY <1>4 DEF Read, Idle
  <1>8. AsIfNow'
    <2>1. Choices(db, what)' = Choices(db, what)
      BY <1>7
    <2>2. o \in Choices(db', slow'.what)
      BY <1>4, <1>7
    <2> QED  BY <1>4, <1>7, <2>2 DEF AsIfNow
  <1>9. /\ gone \subseteq Operators /\ \E u : gone \subseteq {u}
        /\ what # "dismissal" => gone = {}
        /\ (db.staff \ gone) \cap Pair # {}
    BY <1>2, <1>7, GoesFit DEF BInv, OneOfPair, PairIsThere
  <1>10. OneOfPair' /\ OnlyOne'
    BY <1>4, <1>7, <1>9 DEF BInv, OneOfPair, PairIsThere, OnlyOne
  <1>11. BoardTypeOK' /\ OwnerIsTold'
    BY <1>3, <1>4, <1>5, <1>7, <1>9 DEF BInv, BoardTypeOK, OwnerIsTold, TaskColumns, Race
  <1> QED  BY <1>4, <1>6, <1>8, <1>10, <1>11 DEF BInv

\* What a slow transaction that nobody overtook leaves: what its handler decides now.
LEMMA CommitsNow ==
  ASSUME BInv, CommitRequest, slow.late = "no"
  PROVE  \E o \in Choices(db, slow.what) :
           /\ Handled(db, o) /\ told' = Recipients(o.quiet, o.tell)
           /\ db' = [o.rows EXCEPT !.staff = @ \ slow.gone]
  <1>1. db \in BoardRows /\ ~Idle /\ slow.what \in {"request", "repair", "dismissal"}
    BY DEF BInv, BoardTypeOK, CommitRequest, Idle
  <1>2. PICK o \in Choices(db, slow.what) :
          slow.changed = Difference(db, o.rows) /\ slow.quiet = o.quiet /\ slow.tell = o.tell
    BY <1>1 DEF BInv, AsIfNow
  <1>3. Handled(db, o)
    BY <1>1, ChoicesHandle
  <1>4. Written(db, slow.changed) = o.rows
    BY <1>1, <1>2, <1>3, WrittenIsChanged DEF Handled, Outcomes
  <1> QED  BY <1>2, <1>3, <1>4 DEF CommitRequest

LEMMA CommitKeeps == ASSUME BInv, CommitRequest PROVE BInv'
  <1>1. db \in BoardRows  BY DEF BInv, BoardTypeOK
  <1>2. /\ db' = [Written(db, slow.changed) EXCEPT !.staff = @ \ slow.gone]
        /\ told' = Recipients(slow.quiet, slow.tell) /\ raced' = slow.late /\ slow' = None
    BY DEF CommitRequest
  <1>3. PICK q \in BoardRows : \A c \in DOMAIN slow.changed : slow.changed[c] = q[c]
    BY DEF BInv, WritesFit
  <1> DEFINE w == Written(db, slow.changed)
  <1>4. w \in BoardRows /\ w.staff = db.staff
    BY <1>1, <1>3, WrittenIsRow DEF BInv, WritesFit
  <1>5. db' = [w EXCEPT !.staff = @ \ slow.gone]
    BY <1>2
  <1> HIDE DEF w
  <1>6. db' \in BoardRows /\ db'.staff = db.staff \ slow.gone
    BY <1>4, <1>5 DEF BoardRows
  <1>7. /\ slow'.what = "nothing" /\ slow'.quiet = FALSE /\ slow'.tell = {} /\ slow'.gone = {}
        /\ slow'.late = "no" /\ DOMAIN slow'.changed = {} /\ SlowIs' /\ Idle'
    BY <1>2 DEF None, SlowIs, Idle
  <1>8. told' \subseteq Users
    BY <1>2 DEF Recipients, BInv, BoardTypeOK
  <1>9. BoardTypeOK'
    BY <1>2, <1>6, <1>7, <1>8 DEF BInv, BoardTypeOK, Race
  <1>10. WritesFit' /\ AsIfNow'
    BY <1>6, <1>7 DEF WritesFit, AsIfNow
  <1>11. ~Idle /\ raced = "no"
    BY DEF CommitRequest, BInv, OnlyOne
  <1>12. OneOfPair'
    BY <1>2, <1>6, <1>7, <1>11 DEF BInv, OneOfPair, PairIsThere
  <1>13. OnlyOne'
    BY <1>7 DEF OnlyOne
  <1>14. OwnerIsTold'
    <2>1. SUFFICES ASSUME slow.late = "no" PROVE Told(db, told)'
      BY <1>2 DEF OwnerIsTold, Told
    <2>2. PICK o \in Choices(db, slow.what) :
            /\ Handled(db, o) /\ told' = Recipients(o.quiet, o.tell)
            /\ db' = [o.rows EXCEPT !.staff = @ \ slow.gone]
      BY <2>1, CommitsNow
    <2>3. /\ db'.status = o.rows.status /\ db'.owner = o.rows.owner
          /\ db'.took = o.rows.took
      BY <2>2 DEF Handled, Outcomes, BoardRows
    <2>4. Told(db, told)
      BY <1>11, OwnerTold DEF BInv
    <2>5. Told(o.rows, (IF o.quiet THEN {} ELSE told) \cup o.tell)
      BY <2>2, <2>4, OutcomeTold
    <2> QED  BY <2>2, <2>3, <2>5 DEF Recipients, Told
  <1> QED  BY <1>7, <1>9, <1>10, <1>12, <1>13, <1>14 DEF BInv

\* An operator comes, or goes because the other of the pair is there.
LEMMA StaffKeeps ==
  ASSUME BInv, NEW staff \in SUBSET Operators, NEW how \in {"overtaken", "crossed"},
         db' = [db EXCEPT !.staff = staff], told' = told, Overtake(how),
         raced # "crossed" =>
           /\ staff \cap Pair # {}
           /\ Idle \/ how # "crossed" => (staff \ slow.gone) \cap Pair # {}
  PROVE  BInv'
  <1>1. db \in BoardRows
    BY DEF BInv, BoardTypeOK
  <1>2. db' \in BoardRows /\ db'.staff = staff /\ db'.status = db.status /\ db'.owner = db.owner
        /\ db'.took = db.took
    BY <1>1 DEF BoardRows
  <1>3. /\ UNCHANGED <<slow.what, slow.changed, slow.quiet, slow.tell, slow.gone, raced>>
        /\ SlowIs' /\ WritesFit' /\ AsIfNow' /\ OnlyOne'
        /\ slow'.late = (IF Idle THEN "no" ELSE how)
    BY Overtakes
  <1>4. BoardTypeOK'
    BY <1>2, <1>3 DEF BInv, BoardTypeOK, Race
  <1>5. OneOfPair'
    BY <1>2, <1>3 DEF OneOfPair, PairIsThere
  <1>6. OwnerIsTold'
    BY <1>2, <1>3 DEF BInv, OwnerIsTold
  <1> QED  BY <1>3, <1>4, <1>5, <1>6 DEF BInv

LEMMA ChangeStaffKeeps == ASSUME BInv, ChangeStaff PROVE BInv'
  <1>1. db \in BoardRows /\ db.staff \subseteq Operators
    BY RowsHave DEF BInv, BoardTypeOK
  <1>2. told' = told /\ slow.late = "no"
    BY DEF ChangeStaff, Overtake
  <1>3. PICK u \in Operators :
          \/ /\ MayGo(db, u) /\ db' = [db EXCEPT !.staff = @ \ {u}]
             /\ Overtake(IF slow.gone \cup {u} = Pair THEN "crossed" ELSE "overtaken")
          \/ db' = [db EXCEPT !.staff = @ \cup {u}] /\ Overtake("overtaken")
    BY DEF ChangeStaff
  <1>4. CASE db' = [db EXCEPT !.staff = @ \cup {u}] /\ Overtake("overtaken")
    <2> DEFINE staff == db.staff \cup {u}
    <2>1. db' = [db EXCEPT !.staff = staff] /\ staff \in SUBSET Operators
      BY <1>1, <1>4
    <2>2. raced # "crossed" => (staff \ slow.gone) \cap Pair # {}
      BY <1>2 DEF BInv, OneOfPair
    <2> HIDE DEF staff
    <2> QED  BY <1>2, <1>4, <2>1, <2>2, StaffKeeps
  <1>5. ASSUME MayGo(db, u), db' = [db EXCEPT !.staff = @ \ {u}],
               Overtake(IF slow.gone \cup {u} = Pair THEN "crossed" ELSE "overtaken")
        PROVE  BInv'
    <2> DEFINE staff == db.staff \ {u}
               how == IF slow.gone \cup {u} = Pair THEN "crossed" ELSE "overtaken"
    <2>1. db' = [db EXCEPT !.staff = staff] /\ staff \in SUBSET Operators
      BY <1>1, <1>5
    <2>2. how \in {"overtaken", "crossed"} /\ Overtake(how)
      BY <1>5
    <2>3. ASSUME raced # "crossed" PROVE staff \cap Pair # {}
      BY <1>5, <2>3 DEF MayGo, PairStays, BInv, OneOfPair, PairIsThere
    <2>4. ASSUME raced # "crossed", Idle \/ how # "crossed"
          PROVE  (staff \ slow.gone) \cap Pair # {}
      <3>1. PICK v : slow.gone \subseteq {v}
        BY DEF BInv, OnlyOne
      <3>2. CASE slow.gone = {}
        BY <2>3, <2>4, <3>2
      <3>3. CASE slow.gone = {v} /\ u \notin Pair
        BY <1>2, <2>4, <3>3 DEF BInv, OneOfPair
      <3>4. CASE slow.gone = {v} /\ u \in Pair
        <4>0. ~Idle
          BY <3>4 DEF BInv, OnlyOne, Idle
        <4>1. slow.gone \cup {u} # Pair
          BY <2>4, <4>0
        <4>2. PICK w \in Pair \ {u} : w \in db.staff
          BY <1>5, <3>4 DEF MayGo, PairStays
        <4>3. w # v
          BY <3>4, <4>1, <4>2, UsersAssumption DEF Pair
        <4> QED  BY <3>4, <4>2, <4>3
      <3> QED  BY <3>1, <3>2, <3>3, <3>4
    <2> HIDE DEF staff, how
    <2> QED  BY <1>2, <2>1, <2>2, <2>3, <2>4, StaffKeeps
  <1> QED  BY <1>3, <1>4, <1>5

LEMMA BoardNextKeeps == BInv /\ [BoardNext]_boardVars => BInv'
  <1> SUFFICES ASSUME BInv, [BoardNext]_boardVars PROVE BInv'
    OBVIOUS
  <1>1. CASE UNCHANGED boardVars
    <2>1. UNCHANGED <<db, told, slow, raced>>
      BY <1>1 DEF boardVars
    <2>2. Choices(db, slow.what)' = Choices(db, slow.what) /\ Idle' = Idle
      BY <2>1 DEF Idle
    <2>3. AsIfNow' /\ OnlyOne'
      BY <2>1, <2>2 DEF BInv, AsIfNow, OnlyOne
    <2> QED  BY <2>1, <2>3
             DEF BInv, BoardTypeOK, SlowIs, OneOfPair, PairIsThere, WritesFit, OwnerIsTold
  <1>2. CASE BoardNext
    BY <1>2, RequestKeeps, ReadKeeps, CommitKeeps, RepairKeeps, ChangeStaffKeeps DEF BoardNext
  <1> QED  BY <1>1, <1>2

\* The task, its ticket and the slow request keep their shape, and only users are owners, are
\* told or are operators, whatever handlers run and whichever request is overtaken.
THEOREM BoardTyped == BoardSpec => []BoardTypeOK
  <1>1. BInv => BoardTypeOK
    BY DEF BInv
  <1> QED  BY <1>1, BoardInitKeeps, BoardNextKeeps, PTL DEF BoardSpec

\* However the operators come and go, in whatever order with slow transactions, one of the two
\* that tasks fall to is active, so resolving the owner of a new task never fails, unless two
\* administrators dismissed one each while both still counted the other:
\* _ensure_task_owner_pair_available has no other hole.
THEOREM SomebodyAlways == BoardSpec => []SomebodyIsThere
  <1>1. BInv => SomebodyIsThere
    <2> SUFFICES ASSUME BInv, raced # "crossed", NEW scope \in Pair
                 PROVE  ScopeOwner([db EXCEPT !.scope = scope]) # Nobody
      BY DEF SomebodyIsThere
    <2> DEFINE b == [db EXCEPT !.scope = scope]
    <2>1. b.scope = scope /\ b.staff = db.staff
      BY DEF BInv, BoardTypeOK, BoardRows
    <2> HIDE DEF b
    <2>2. ScopeOwner(b) \in db.staff
      BY <2>1, SomeOwner DEF BInv, OneOfPair, PairIsThere
    <2>3. db.staff \subseteq Users
      BY RowsHave, PeopleAreUsers DEF BInv, BoardTypeOK
    <2> QED  BY <2>2, <2>3, PeopleAreUsers DEF b, BInv
  <1> QED  BY <1>1, BoardInitKeeps, BoardNextKeeps, PTL DEF BoardSpec

\* As long as no transaction overtook another, every handler that gives an open task an owner,
\* the repair among them, leaves him an unresolved notification of it
\* (notify_manual_task_created and its callers), unless he claimed the task himself.
THEOREM OwnersAreTold == BoardSpec => []OwnerIsTold
  <1>1. BInv => OwnerIsTold  BY DEF BInv
  <1> QED  BY <1>1, BoardInitKeeps, BoardNextKeeps, PTL DEF BoardSpec

\* repair_notification_and_task_data leaves an open task with an active operator, as long as one
\* of the pair is there, and a resolved one without notifications, whatever requests that
\* overtook each other had written before, and beside whatever request it runs, if none commits
\* between its read and its commit.
THEOREM RepairsRestore == BoardSpec => RepairRestores
  <1>1. BInv /\ [BoardNext]_boardVars =>
          [RepairEnds =>
             /\ PairIsThere /\ db'.status \in Open => {db'.owner, db'.claimer} \cap db'.staff # {}
             /\ db'.status = "resolved" => told' = {}]_boardVars
    <2> SUFFICES ASSUME BInv, RepairEnds
                 PROVE  /\ PairIsThere /\ db'.status \in Open =>
                             {db'.owner, db'.claimer} \cap db'.staff # {}
                        /\ db'.status = "resolved" => told' = {}
      OBVIOUS
    <2>1. db \in BoardRows
      BY DEF BInv, BoardTypeOK
    <2>2. /\ db' = Repaired(db).rows
          /\ told' = Recipients(Repaired(db).quiet, Repaired(db).tell)
      <3>1. CASE Repair
        BY <3>1 DEF Repair
      <3>2. CASE CommitRequest /\ slow.what = "repair" /\ slow.late = "no"
        <4>1. slow.gone = {} /\ Choices(db, slow.what) = {Repaired(db)}
          BY <3>2 DEF BInv, OnlyOne, Choices
        <4> DEFINE o == Repaired(db)
        <4>2. /\ Handled(db, o) /\ told' = Recipients(o.quiet, o.tell)
              /\ db' = [o.rows EXCEPT !.staff = @ \ slow.gone]
          BY <3>2, <4>1, CommitsNow
        <4>3. o.rows \in BoardRows
          BY <4>2 DEF Handled, Outcomes
        <4> HIDE DEF o
        <4>4. o.rows.staff \ slow.gone = o.rows.staff
          BY <4>1
        <4>5. [o.rows EXCEPT !.staff = o.rows.staff] = o.rows
          BY <4>3 DEF BoardRows
        <4> QED  BY <4>2, <4>4, <4>5 DEF o
      <3> QED  BY <3>1, <3>2 DEF RepairEnds
    <2> QED  BY <2>1, <2>2, RepairFinds DEF PairIsThere, Recipients
  <1> QED  BY <1>1, BoardInitKeeps, BoardNextKeeps, PTL DEF BoardSpec, RepairRestores
-----------------------------------------------------------------------------
(***************************************************************************)
(* What the safety gate decides from the master data: proofs about         *)
(* RepairRules, for any tables, their changes and choices of operators.    *)
(***************************************************************************)
LEMMA RulesConstants ==
  /\ AssetData \subseteq AssetType /\ PolicyData \subseteq PolicyType /\ CardData \subseteq CardType
  /\ Holds \in [Rows -> Items] /\ MaxChanges \in Nat
  /\ DefaultOf \in [DOMAIN DefaultOf -> Policies] /\ DOMAIN DefaultOf \subseteq STRING
  /\ IsFiniteSet(Items) /\ IsFiniteSet(Rows) /\ IsFiniteSet(Policies) /\ IsFiniteSet(Cards)
  /\ FirstRows \subseteq [Rows -> AssetData \cup {Nothing}]
  /\ FirstPolicies \in [Policies -> PolicyData \cup {Nothing}]
  /\ FirstCards \in [Cards -> CardData \cup {Nothing}]
  BY DataAssumption, ItemsAssumption, TablesAssumption

RulesInv == RulesTypeOK /\ QuoteFitsItems

-----------------------------------------------------------------------------
(* Tables and records *)

LEMMA SingleElement ==
  ASSUME NEW S, IsFiniteSet(S), Cardinality(S) = 1
  PROVE  \E x \in S : S = {x} /\ (CHOOSE y \in S : TRUE) = x
  <1>1. PICK x : S = {x}
    BY FS_Singleton
  <1>2. (CHOOSE y \in S : TRUE) \in S
    BY <1>1
  <1> QED  BY <1>1, <1>2

LEMMA OnlyElement ==
  ASSUME NEW S, IsFiniteSet(S), Cardinality(S) = 1, NEW x \in S
  PROVE  S = {x}
  BY SingleElement

LEMMA ValuesAreFinite ==
  ASSUME NEW S, IsFiniteSet(S), NEW F, F = [x \in S |-> F[x]]
  PROVE  IsFiniteSet({F[x] : x \in S})
  <1> DEFINE T == {F[x] : x \in S}
  <1>1. F \in [S -> T]
    OBVIOUS
  <1>2. \A t \in T : \E x \in S : F[x] = t
    OBVIOUS
  <1> HIDE DEF T
  <1>3. F \in Surjection(S, T)
    BY <1>1, <1>2 DEF Surjection
  <1>4. IsFiniteSet(T)
    BY <1>3, FS_Surjection
  <1> QED  BY <1>4 DEF T

LEMMA RowIsAsset ==
  ASSUME RulesTypeOK, NEW r \in Rows, rows[r] # Nothing
  PROVE  /\ rows[r] \in AssetData /\ rows[r].valid \in BOOLEAN /\ rows[r].ends \in 0..2
         /\ rows[r].kind \in {"semi", "a", "other"} /\ rows[r].customer \in STRING
  BY RulesConstants DEF RulesTypeOK, AssetType

\* What a candidate of an item is like.
LEMMA FavouriteIs ==
  ASSUME RulesTypeOK, NEW i \in Items, NEW r \in Favourite(i)
  PROVE  /\ r \in Rows /\ Holds[r] = i /\ rows[r] # Nothing /\ rows[r].valid
         /\ rows[r].ends # 0 /\ rows[r].kind # "semi"
         /\ \A q \in Rows : Holds[q] = i /\ rows[q] # Nothing /\ rows[q].valid
                              => rows[q].ends <= rows[r].ends
  BY DEF Favourite, ABoards, Finished, Latest, LatestOf, Usable

LEMMA FavouriteFinite ==
  ASSUME RulesTypeOK, NEW i \in Items
  PROVE  IsFiniteSet(Favourite(i)) /\ Favourite(i) \subseteq Rows
  <1>1. Favourite(i) \subseteq Rows
    BY DEF Favourite, ABoards, Finished, Latest, LatestOf, Usable
  <1> QED  BY <1>1, FS_Subset, RulesConstants

-----------------------------------------------------------------------------
(* Which record *)

\* A decided item: its record is a candidate, and one that a person chose or the only one.
Chosen(item, i) ==
  item.status = "resolved" =>
    /\ item.row \in Favourite(i) /\ item.data = rows[item.row]
    /\ item.manual \/ Favourite(i) = {item.row}

ItemFits(item) == item \in ItemType /\ (item.status = "resolved" <=> item.data # Nothing)

LEMMA TakeFits ==
  ASSUME RulesTypeOK, NEW i \in Items, NEW item \in ItemType, NEW r \in Favourite(i),
         NEW manual \in BOOLEAN, manual \/ Favourite(i) = {r}
  PROVE  /\ ItemFits(Take(item, r, manual)) /\ Chosen(Take(item, r, manual), i)
         /\ Take(item, r, manual).route = item.route
  <1>1. r \in Rows /\ rows[r] # Nothing
    BY FavouriteIs
  <1>2. rows[r] \in AssetData
    BY <1>1, RowIsAsset
  <1> DEFINE x == Take(item, r, manual)
  <1>3. /\ x \in ItemType /\ x.status = "resolved" /\ x.manual = manual /\ x.row = r
        /\ x.data = rows[r] /\ x.route = item.route
    BY <1>1, <1>2 DEF Take, ItemType
  <1> QED  BY <1>1, <1>3 DEF ItemFits, Chosen

LEMMA LeaveFits ==
  ASSUME NEW i, NEW item \in ItemType, NEW status \in {"pending", "unresolved", "ambiguous"},
         NEW among \in SUBSET Rows
  PROVE  /\ ItemFits(Leave(item, status, among)) /\ Chosen(Leave(item, status, among), i)
         /\ Leave(item, status, among).route = item.route
  <1> DEFINE x == Leave(item, status, among)
  <1>1. /\ x \in ItemType /\ x.status = status /\ x.data = Nothing /\ x.route = item.route
    BY DEF Leave, ItemType
  <1> QED  BY <1>1 DEF ItemFits, Chosen

LEMMA DecideFits ==
  ASSUME RulesTypeOK, NEW i \in Items, NEW item \in ItemType
  PROVE  /\ ItemFits(Decide(item, i)) /\ Chosen(Decide(item, i), i)
         /\ Decide(item, i).route = item.route
  <1> DEFINE candidates == Favourite(i)
             among == [item EXCEPT !.among = candidates]
             only == CHOOSE r \in candidates : TRUE
  <1>1. IsFiniteSet(candidates) /\ candidates \in SUBSET Rows
    BY FavouriteFinite
  <1>2. among \in ItemType /\ among.route = item.route
    BY <1>1 DEF ItemType
  <1>3. \/ Decide(item, i) = Leave(item, "pending", {})
        \/ Decide(item, i) = Leave(item, "unresolved", {})
        \/ Cardinality(candidates) = 1 /\ Decide(item, i) = Take(among, only, FALSE)
        \/ item.row \in candidates /\ Decide(item, i) = Take(among, item.row, TRUE)
        \/ Decide(item, i) = Leave(item, "ambiguous", candidates)
    BY DEF Decide
  <1>4. Cardinality(candidates) = 1 => only \in candidates /\ candidates = {only}
    BY <1>1, SingleElement
  <1> HIDE DEF candidates, among, only
  <1>5. CASE Decide(item, i) = Leave(item, "pending", {})
    BY <1>5, LeaveFits
  <1>6. CASE Decide(item, i) = Leave(item, "unresolved", {})
    BY <1>6, LeaveFits
  <1>7. CASE Decide(item, i) = Leave(item, "ambiguous", candidates)
    BY <1>1, <1>7, LeaveFits
  <1>8. CASE Cardinality(candidates) = 1 /\ Decide(item, i) = Take(among, only, FALSE)
    BY <1>2, <1>4, <1>8, TakeFits DEF candidates
  <1>9. CASE item.row \in candidates /\ Decide(item, i) = Take(among, item.row, TRUE)
    BY <1>2, <1>9, TakeFits DEF candidates
  <1> QED  BY <1>3, <1>5, <1>6, <1>7, <1>8, <1>9

LEMMA ReportFits ==
  ASSUME RulesTypeOK, NEW its \in [Items -> ItemType]
  PROVE  /\ Report(its) \in [Items -> ItemType]
         /\ \A i \in Items : ItemFits(Report(its)[i]) /\ Chosen(Report(its)[i], i)
  BY DecideFits DEF Report, ItemFits

\* A record that was chosen has no rival but those that a person chose among.
LEMMA ChosenIsUnrivalled ==
  ASSUME RulesTypeOK, NEW i \in Items, NEW item, item.status = "resolved", Chosen(item, i),
         NEW q \in Rows \ {item.row}, Holds[q] = i, rows[q] # Nothing, rows[q].valid
  PROVE  \/ rows[q].ends < rows[item.row].ends
         \/ rows[q].kind = "semi"
         \/ rows[item.row].kind = "a" /\ rows[q].kind # "a"
         \/ item.manual
  <1> DEFINE r == item.row
  <1>1. r \in Favourite(i) /\ (item.manual \/ Favourite(i) = {r})
    BY DEF Chosen
  <1> SUFFICES ASSUME Favourite(i) = {r}, rows[q].kind # "semi",
                      ~(rows[q].ends < rows[r].ends)
               PROVE  rows[r].kind = "a" /\ rows[q].kind # "a"
    BY <1>1
  <1>2. r \in Rows /\ rows[r] # Nothing /\ rows[q].ends <= rows[r].ends /\ rows[r].ends # 0
    BY <1>1, FavouriteIs
  <1>3. rows[q].ends \in 0..2 /\ rows[r].ends \in 0..2
    BY <1>2, RowIsAsset
  <1>4. rows[q].ends = rows[r].ends
    BY <1>2, <1>3
  <1>5. q \in Finished(i)
    <2>1. \A s \in Usable(i) : rows[s].ends <= rows[q].ends
      BY <1>1, <1>4, FavouriteIs DEF Usable
    <2>2. q \in Usable(i)
      BY DEF Usable
    <2> QED  BY <1>2, <1>4, <2>1, <2>2 DEF Finished, Latest, LatestOf
  <1>6. q \notin Favourite(i)
    OBVIOUS
  <1>7. ABoards(Finished(i)) # {} /\ Favourite(i) = ABoards(Finished(i))
    BY <1>5, <1>6 DEF Favourite
  <1> QED  BY <1>1, <1>5, <1>6, <1>7 DEF ABoards

-----------------------------------------------------------------------------
(* Who pays *)

\* A quote of the only policy of the one customer whose records the items stand for.
Priced(quote, its) ==
  quote.policy = "resolved" =>
    /\ \A i \in Items : /\ its[i].status = "resolved" /\ its[i].data.customer = quote.of
                        /\ InWarranty(its[i].data) = quote.warranty
    /\ Items # {}
    /\ \A p \in Policies :
          policies[p] # Nothing /\ policies[p].active /\ policies[p].customer = quote.of
            => p = quote.by /\ ~policies[p].forced

LEMMA NoQuoteIs ==
  /\ NoQuote \in QuoteType
  /\ NeedsManual \in QuoteType /\ NeedsManual.policy = "needs_manual"
  /\ NoQuote.policy = "pending" /\ ~NoQuote.exportable /\ ~NeedsManual.exportable
  <1>1. NoQuote \in QuoteType
    BY DEF NoQuote, QuoteType, Charges, Text
  <1>3. NoQuote.policy = "pending" /\ NoQuote.exportable = FALSE
    BY DEF NoQuote
  <1>2. /\ NeedsManual \in QuoteType /\ NeedsManual.policy = "needs_manual"
        /\ NeedsManual.exportable = NoQuote.exportable
    BY <1>1 DEF NeedsManual, QuoteType
  <1> QED  BY <1>1, <1>2, <1>3

LEMMA QuoteIs ==
  ASSUME RulesTypeOK, NEW p \in Policies, policies[p] # Nothing, NEW warranty \in BOOLEAN
  PROVE  LET quote == Quote(p, warranty) IN
         /\ quote \in QuoteType /\ ~quote.exportable
         /\ quote.policy = "resolved" =>
              /\ ~policies[p].forced /\ quote.by = p /\ quote.of = policies[p].customer
              /\ quote.warranty = warranty
  <1> DEFINE charge == Charge(p, warranty)
             made == [NoQuote EXCEPT !.policy = "resolved", !.charge = charge,
                                     !.scope = policies[p].scope, !.by = p,
                                     !.of = policies[p].customer, !.warranty = warranty]
  <1>1. policies[p] \in PolicyType
    BY DEF RulesTypeOK
  <1>2. /\ policies[p].scope \in Scopes \cup {"none"} /\ policies[p].customer \in STRING
        /\ policies[p].charge \in Charges
    BY <1>1 DEF PolicyType
  <1>3. charge \in Charges
    BY <1>2 DEF Charge, Charges
  <1>4. \/ Quote(p, warranty) = NeedsManual
        \/ ~policies[p].forced /\ Quote(p, warranty) = made
    BY DEF Quote
  <1> HIDE DEF charge
  <1>5. /\ made \in QuoteType /\ ~made.exportable /\ made.by = p
        /\ made.of = policies[p].customer /\ made.warranty = warranty
    BY <1>2, <1>3 DEF NoQuote, QuoteType, Text
  <1> HIDE DEF made
  <1> QED  BY <1>4, <1>5, NoQuoteIs

LEMMA PricingFits ==
  ASSUME RulesTypeOK, NEW its \in [Items -> ItemType], \A i \in Items : ItemFits(its[i])
  PROVE  /\ Pricing(its) \in QuoteType /\ ~Pricing(its).exportable
         /\ Priced(Pricing(its), its)
  <1> DEFINE owners == {its[i].data.customer : i \in Resolved(its)}
             flags == {InWarranty(its[i].data) : i \in Resolved(its)}
             found == UNION {Candidates(c) : c \in owners}
             only == CHOOSE p \in found : TRUE
  <1>1. \/ Pricing(its) = NeedsManual
        \/ /\ Resolved(its) = Items /\ Cardinality(owners) = 1 /\ Cardinality(flags) = 1
           /\ Cardinality(found) = 1 /\ Pricing(its) = Quote(only, TRUE \in flags)
    BY DEF Pricing
  <1>2. CASE Pricing(its) = NeedsManual
    BY <1>2, NoQuoteIs DEF Priced
  <1>3. CASE /\ Resolved(its) = Items /\ Cardinality(owners) = 1 /\ Cardinality(flags) = 1
             /\ Cardinality(found) = 1 /\ Pricing(its) = Quote(only, TRUE \in flags)
    <2>1. IsFiniteSet(owners) /\ IsFiniteSet(flags)
      <3>1. IsFiniteSet(Items)
        BY RulesConstants
      <3>2. owners = {its[i].data.customer : i \in Items}
        BY <1>3
      <3>3. flags = {InWarranty(its[i].data) : i \in Items}
        BY <1>3
      <3> HIDE DEF owners, flags
      <3>4. IsFiniteSet({its[i].data.customer : i \in Items})
        <4> DEFINE F == [i \in Items |-> its[i].data.customer]
                   T == {its[i].data.customer : i \in Items}
        <4>1. {F[i] : i \in Items} = T
          OBVIOUS
        <4>2. F = [i \in Items |-> F[i]]
          OBVIOUS
        <4> HIDE DEF F, T
        <4>3. IsFiniteSet(T)
          BY <3>1, <4>1, <4>2, ValuesAreFinite
        <4> QED  BY <4>3 DEF T
      <3>5. IsFiniteSet({InWarranty(its[i].data) : i \in Items})
        <4> DEFINE F == [i \in Items |-> InWarranty(its[i].data)]
                   T == {InWarranty(its[i].data) : i \in Items}
        <4>1. {F[i] : i \in Items} = T
          OBVIOUS
        <4>2. F = [i \in Items |-> F[i]]
          OBVIOUS
        <4> HIDE DEF F, T
        <4>3. IsFiniteSet(T)
          BY <3>1, <4>1, <4>2, ValuesAreFinite
        <4> QED  BY <4>3 DEF T
      <3> QED  BY <3>2, <3>3, <3>4, <3>5
    <2>2. found \subseteq Policies /\ IsFiniteSet(found)
      <3>1. found \subseteq Policies
        BY DEF Candidates
      <3> HIDE DEF found
      <3> QED  BY <3>1, FS_Subset, RulesConstants
    <2>3. PICK c \in owners : owners = {c}
      BY <1>3, <2>1, SingleElement
    <2>4. PICK f \in flags : flags = {f}
      BY <1>3, <2>1, SingleElement
    <2>5. PICK p \in found : found = {p} /\ only = p
      BY <1>3, <2>2, SingleElement
    <2>6. found = Candidates(c)
      BY <2>3
    <2>7. /\ policies[p] # Nothing /\ policies[p].active /\ policies[p].customer = c
          /\ p \in Policies
      BY <2>5, <2>6 DEF Candidates
    <2>8. \A q \in Policies : policies[q] # Nothing /\ policies[q].active
                                /\ policies[q].customer = c => q = p
      BY <2>5, <2>6 DEF Candidates
    <2>9. \A i \in Items : /\ its[i].status = "resolved" /\ its[i].data.customer = c
                           /\ InWarranty(its[i].data) = f
      <3> SUFFICES ASSUME NEW i \in Items
                   PROVE  /\ its[i].status = "resolved" /\ its[i].data.customer = c
                          /\ InWarranty(its[i].data) = f
        OBVIOUS
      <3>1. i \in Resolved(its)
        BY <1>3
      <3>2. its[i].data.customer \in owners /\ InWarranty(its[i].data) \in flags
        BY <3>1
      <3> QED  BY <2>3, <2>4, <3>1, <3>2 DEF Resolved
    <2>10. f \in BOOLEAN /\ (TRUE \in flags) = f /\ Items # {}
      <3>1. PICK i \in Resolved(its) : f = InWarranty(its[i].data)
        BY <2>4
      <3>2. InWarranty(its[i].data) \in BOOLEAN
        BY DEF InWarranty
      <3>3. Items # {} /\ f \in BOOLEAN
        BY <1>3, <3>1, <3>2
      <3> HIDE DEF flags
      <3>4. (TRUE \in flags) <=> f
        BY <2>4, <3>3
      <3>5. (TRUE \in flags) \in BOOLEAN
        OBVIOUS
      <3> HIDE DEF flags
      <3>6. (TRUE \in flags) = f
        BY <3>3, <3>4, <3>5
      <3> QED  BY <3>3, <3>6
    <2>11. Pricing(its) = Quote(p, f)
      BY <1>3, <2>5, <2>10
    <2> HIDE DEF owners, flags, found, only
    <2> QED  BY <2>7, <2>8, <2>9, <2>10, <2>11, QuoteIs DEF Priced
  <1> QED  BY <1>1, <1>2, <1>3

-----------------------------------------------------------------------------
(* Where to *)

\* Every card that would serve the item as well sends the board to the same address.
Served(route, i, scope) ==
  route.card # Nothing /\ ~route.manual =>
    \A k \in Cards :
      (/\ Active(k) /\ cards[k].scope = scope /\ cards[k].kind = cards[route.card].kind
       /\ scope = "domestic" =>
            /\ cards[k].code = cards[route.card].code
            /\ cards[route.card].name = Board[i].name => cards[k].name = cards[route.card].name)
      => cards[k].location = route.location /\ cards[k].address = route.address

LEMMA RouteOfIs ==
  ASSUME RulesTypeOK, NEW k \in Cards, Active(k), NEW manual \in BOOLEAN
  PROVE  LET route == RouteOf(k, manual) IN
         /\ route \in RouteType /\ route.card = k /\ route.manual = manual
         /\ route.location = cards[k].location /\ route.address = cards[k].address
  <1>1. cards[k] \in CardType
    BY DEF RulesTypeOK, Active
  <1>2. cards[k].location \in {"none", "beijing", "tianjin"} /\ cards[k].address \in Text
    BY <1>1 DEF CardType, Text
  <1> QED  BY <1>2 DEF RouteOf, RouteType

LEMMA NoRouteIs == NoRoute \in RouteType /\ NoRoute.card = Nothing
  BY DEF NoRoute, RouteType, Text

\* A card that is offered is the only one, or all that match give one address.
LEMMA OfferedServes ==
  ASSUME RulesTypeOK, NEW i \in Items, NEW scope, NEW c \in Offered(i, scope)
  PROVE  /\ c \in Cards /\ Active(c)
         /\ Served(RouteOf(c, FALSE), i, scope)
  <1> DEFINE exact == IF Exact(i) # {}
                      THEN IF Cardinality(Exact(i)) = 1 THEN Exact(i) ELSE {}
                      ELSE IF OneWay(Matches(i)) THEN Matches(i) ELSE {}
  <1>1. \/ scope = "overseas" /\ Cardinality(Defaults) = 1 /\ c \in Defaults
        \/ scope = "domestic" /\ c \in exact
    BY DEF Offered
  <1>2. \/ scope = "overseas" /\ Cardinality(Defaults) = 1 /\ c \in Defaults
        \/ scope = "domestic" /\ Cardinality(Exact(i)) = 1 /\ c \in Exact(i)
        \/ scope = "domestic" /\ Exact(i) = {} /\ OneWay(Matches(i)) /\ c \in Matches(i)
    BY <1>1
  <1> HIDE DEF exact
  <1>3. c \in Cards /\ Active(c)
    BY <1>2 DEF Defaults, Exact, Matches
  <1>4. /\ RouteOf(c, FALSE).card = c
        /\ RouteOf(c, FALSE).location = cards[c].location
        /\ RouteOf(c, FALSE).address = cards[c].address
    BY <1>3, RouteOfIs
  <1> DEFINE Like(k) ==
        /\ Active(k) /\ cards[k].scope = scope /\ cards[k].kind = cards[c].kind
        /\ scope = "domestic" =>
             /\ cards[k].code = cards[c].code
             /\ cards[c].name = Board[i].name => cards[k].name = cards[c].name
  <1>5. SUFFICES ASSUME NEW k \in Cards, Like(k)
                 PROVE  /\ cards[k].location = cards[c].location
                        /\ cards[k].address = cards[c].address
    BY <1>3, <1>4 DEF Served
  <1>6. CASE scope = "overseas" /\ Cardinality(Defaults) = 1 /\ c \in Defaults
    <2>1. IsFiniteSet(Defaults)
      <3>1. Defaults \subseteq Cards  BY DEF Defaults
      <3> QED  BY <3>1, FS_Subset, RulesConstants
    <2>2. k \in Defaults
      BY <1>5, <1>6 DEF Defaults
    <2>3. Defaults = {c}
      BY <1>6, <2>1, OnlyElement
    <2> QED  BY <2>2, <2>3
  <1>7. CASE scope = "domestic" /\ Cardinality(Exact(i)) = 1 /\ c \in Exact(i)
    <2>1. IsFiniteSet(Exact(i))
      <3>1. Exact(i) \subseteq Cards  BY DEF Exact, Matches
      <3> QED  BY <3>1, FS_Subset, RulesConstants
    <2>2. k \in Exact(i)
      BY <1>5, <1>7 DEF Exact, Matches
    <2>3. Exact(i) = {c}
      BY <1>7, <2>1, OnlyElement
    <2> QED  BY <2>2, <2>3
  <1>8. CASE scope = "domestic" /\ OneWay(Matches(i)) /\ c \in Matches(i)
    <2>1. k \in Matches(i)
      BY <1>5, <1>8 DEF Matches
    <2>2. IsFiniteSet(Where(Matches(i)))
      <3> DEFINE S == Matches(i)
                 F == [x \in S |-> <<cards[x].location, cards[x].address>>]
      <3>1. S \subseteq Cards /\ IsFiniteSet(Cards)
        BY RulesConstants DEF Matches
      <3>2. Where(S) = {F[x] : x \in S}
        BY DEF Where
      <3>3. F = [x \in S |-> F[x]]
        OBVIOUS
      <3> HIDE DEF S, F
      <3>4. IsFiniteSet(S)
        BY <3>1, FS_Subset
      <3>5. IsFiniteSet({F[x] : x \in S})
        BY <3>3, <3>4, ValuesAreFinite
      <3> QED  BY <3>2, <3>5 DEF S
    <2>3. <<cards[k].location, cards[k].address>> \in Where(Matches(i))
      BY <2>1 DEF Where
    <2>4. <<cards[c].location, cards[c].address>> \in Where(Matches(i))
      BY <1>8 DEF Where
    <2>5. <<cards[k].location, cards[k].address>> = <<cards[c].location, cards[c].address>>
      BY <1>8, <2>2, <2>3, <2>4, SingleElement DEF OneWay
    <2> QED  BY <2>5
  <1> QED  BY <1>2, <1>6, <1>7, <1>8

LEMMA RoutesServe ==
  ASSUME RulesTypeOK, NEW i \in Items, NEW item \in ItemType, NEW scope,
         NEW route \in Routes(item, i, scope)
  PROVE  route \in RouteType /\ Served(route, i, scope)
  <1>1. \/ Stands(item.route) /\ route = item.route
        \/ route = NoRoute
        \/ \E k \in Offered(i, scope) : route = RouteOf(k, FALSE)
    BY DEF Routes
  <1>2. CASE Stands(item.route) /\ route = item.route
    BY <1>2 DEF Stands, Served, ItemType
  <1>3. CASE route = NoRoute
    BY <1>3, NoRouteIs DEF Served
  <1>4. CASE \E k \in Offered(i, scope) : route = RouteOf(k, FALSE)
    BY <1>4, OfferedServes, RouteOfIs
  <1> QED  BY <1>1, <1>2, <1>3, <1>4

\* Finding routes changes nothing else of the items.
LEMMA RoutedFits ==
  ASSUME RulesTypeOK, NEW its \in [Items -> ItemType], \A i \in Items : ItemFits(its[i]),
         NEW scope,
         NEW new \in Routed(its, scope)
  PROVE  /\ new \in [Items -> ItemType]
         /\ \A i \in Items : /\ ItemFits(new[i]) /\ Served(new[i].route, i, scope)
                             /\ new[i].status = its[i].status /\ new[i].data = its[i].data
                             /\ new[i].row = its[i].row /\ new[i].manual = its[i].manual
  <1>1. PICK pick : /\ new = [i \in Items |-> [its[i] EXCEPT !.route = pick[i]]]
                    /\ \A i \in Items : pick[i] \in Routes(its[i], i, scope)
    BY DEF Routed
  <1>2. ASSUME NEW i \in Items
        PROVE  /\ new[i] \in ItemType /\ ItemFits(new[i]) /\ Served(new[i].route, i, scope)
               /\ new[i].status = its[i].status /\ new[i].data = its[i].data
               /\ new[i].row = its[i].row /\ new[i].manual = its[i].manual
    <2>1. pick[i] \in RouteType /\ Served(pick[i], i, scope)
      BY <1>1, RoutesServe
    <2>2. new[i] = [its[i] EXCEPT !.route = pick[i]]
      BY <1>1
    <2>3. its[i] \in ItemType
      OBVIOUS
    <2>4. /\ new[i] \in ItemType /\ new[i].route = pick[i]
          /\ new[i].status = its[i].status /\ new[i].data = its[i].data
          /\ new[i].row = its[i].row /\ new[i].manual = its[i].manual
      BY <2>1, <2>2, <2>3 DEF ItemType
    <2> QED  BY <2>1, <2>4 DEF ItemFits
  <1> QED  BY <1>1, <1>2

-----------------------------------------------------------------------------
(* The steps *)

LEMMA LockedIs ==
  ASSUME RulesTypeOK
  PROVE  Locked \in QuoteType /\ Locked.exportable = FALSE
  BY DEF RulesTypeOK, Locked, QuoteType

\* What a validation leaves: types, and an exportable ticket only with decisions without choice.
Validated(its, quote) ==
  /\ its \in [Items -> ItemType] /\ \A i \in Items : ItemFits(its[i])
  /\ quote \in QuoteType
  /\ quote.exportable => /\ Priced(quote, its) /\ quote.policy = "resolved"
                         /\ \A i \in Items : /\ Chosen(its[i], i)
                                             /\ Served(its[i].route, i, quote.scope)

LEMMA ValidateGives ==
  ASSUME RulesTypeOK, NEW its \in [Items -> ItemType], Validate(its)
  PROVE  Validated(items', ticket')
  <1> DEFINE decided == Report(its)
             quote == Pricing(decided)
  <1>1. /\ decided \in [Items -> ItemType]
        /\ \A i \in Items : ItemFits(decided[i]) /\ Chosen(decided[i], i)
    BY ReportFits
  <1>2. quote \in QuoteType /\ ~quote.exportable /\ Priced(quote, decided)
    BY <1>1, PricingFits
  <1>3. \/ items' = decided /\ ticket' = Locked
        \/ /\ items' \in Routed(decided, quote.scope)
           /\ \E rest \in BOOLEAN :
                ticket' = [quote EXCEPT !.exportable = rest /\ Safe(decided, quote)]
    BY DEF Validate
  <1> HIDE DEF decided, quote
  <1>4. CASE items' = decided /\ ticket' = Locked
    <2>1. ticket' \in QuoteType /\ ticket'.exportable = FALSE
      BY <1>4, LockedIs
    <2> QED  BY <1>1, <1>4, <2>1 DEF Validated
  <1>5. ASSUME NEW rest \in BOOLEAN, items' \in Routed(decided, quote.scope),
               ticket' = [quote EXCEPT !.exportable = rest /\ Safe(decided, quote)]
        PROVE  Validated(items', ticket')
    <2> DEFINE may == rest /\ Safe(decided, quote)
    <2>1. may \in BOOLEAN
      OBVIOUS
    <2>2. may => quote.policy = "resolved"
      BY DEF Safe
    <2>3. ticket' = [quote EXCEPT !.exportable = may]
      BY <1>5
    <2> HIDE DEF may
    <2>4. /\ ticket' \in QuoteType /\ ticket'.exportable = may
          /\ ticket'.policy = quote.policy
          /\ ticket'.of = quote.of /\ ticket'.by = quote.by /\ ticket'.scope = quote.scope
          /\ ticket'.warranty = quote.warranty
      BY <1>2, <2>1, <2>3 DEF QuoteType
    <2>5. /\ items' \in [Items -> ItemType]
          /\ \A i \in Items : /\ ItemFits(items'[i]) /\ Served(items'[i].route, i, quote.scope)
                              /\ items'[i].status = decided[i].status
                              /\ items'[i].data = decided[i].data
                              /\ items'[i].row = decided[i].row
                              /\ items'[i].manual = decided[i].manual
      BY <1>1, <1>5, RoutedFits
    <2>6. \A i \in Items : Chosen(items'[i], i)
      BY <1>1, <2>5 DEF Chosen
    <2>7. Priced(ticket', items')
      BY <1>2, <2>4, <2>5 DEF Priced
    <2> QED  BY <2>2, <2>4, <2>5, <2>6, <2>7 DEF Validated
  <1> QED  BY <1>3, <1>4, <1>5

\* Every step that looks for a decision ends in a validation or leaves the ticket locked.
Decided ==
  /\ items' \in [Items -> ItemType] /\ \A i \in Items : ItemFits(items'[i])
  /\ ticket' \in QuoteType
  /\ Validated(items', ticket') \/ ~ticket'.exportable

LEMMA ItemsFit ==
  ASSUME RulesTypeOK
  PROVE  items \in [Items -> ItemType] /\ \A i \in Items : ItemFits(items[i])
  BY DEF RulesTypeOK, ItemFits

LEMMA SelectGives == ASSUME RulesTypeOK, SelectRecords PROVE Validated(items', ticket')
  <1>1. PICK chosen \in [{i \in Items : items[i].status = "ambiguous"} -> Rows] :
          /\ \A i \in DOMAIN chosen : chosen[i] \in Favourite(i)
          /\ Validate([i \in Items |-> IF i \in DOMAIN chosen
                                       THEN Take(items[i], chosen[i], TRUE) ELSE items[i]])
    BY DEF SelectRecords
  <1> DEFINE its == [i \in Items |-> IF i \in DOMAIN chosen
                                     THEN Take(items[i], chosen[i], TRUE) ELSE items[i]]
  <1>2. ASSUME NEW i \in Items PROVE its[i] \in ItemType
    <2>1. CASE i \in DOMAIN chosen
      <3>1. items[i] \in ItemType /\ chosen[i] \in Favourite(i)
        BY <1>1, <2>1, ItemsFit
      <3>2. ItemFits(Take(items[i], chosen[i], TRUE))
        BY <3>1, TakeFits
      <3> QED  BY <2>1, <3>2 DEF ItemFits
    <2>2. CASE i \notin DOMAIN chosen
      BY <2>2, ItemsFit
    <2> QED  BY <2>1, <2>2
  <1>3. its \in [Items -> ItemType] /\ Validate(its)
    BY <1>1, <1>2
  <1> HIDE DEF its
  <1> QED  BY <1>3, ValidateGives

LEMMA SelectRouteGives ==
  ASSUME RulesTypeOK, NEW i \in Items, SelectRoute(i)
  PROVE  Decided
  <1>1. PICK k \in Cards :
          Active(k) /\ items' = [items EXCEPT ![i].route = RouteOf(k, TRUE)]
    BY DEF SelectRoute
  <1>2. ticket' \in QuoteType /\ ticket'.exportable = FALSE
    BY LockedIs DEF SelectRoute
  <1> DEFINE route == RouteOf(k, TRUE)
  <1>3. route \in RouteType
    BY <1>1, RouteOfIs
  <1> HIDE DEF route
  <1>4. items' = [items EXCEPT ![i] = [items[i] EXCEPT !.route = route]]
    BY <1>1 DEF route
  <1>5. /\ [items[i] EXCEPT !.route = route] \in ItemType
        /\ [items[i] EXCEPT !.route = route].status = items[i].status
        /\ [items[i] EXCEPT !.route = route].data = items[i].data
    BY <1>3, ItemsFit DEF ItemType
  <1>6. ItemFits([items[i] EXCEPT !.route = route])
    BY <1>5, ItemsFit DEF ItemFits
  <1>7. items' \in [Items -> ItemType] /\ \A j \in Items : ItemFits(items'[j])
    BY <1>4, <1>5, <1>6, ItemsFit
  <1> QED  BY <1>2, <1>7 DEF Decided

LEMMA OverrideGives == ASSUME RulesTypeOK, Override PROVE Decided
  <1>1. PICK charge \in Charges, scope \in Scopes \cup {ticket.scope} :
          ticket' = [Locked EXCEPT !.charge = charge, !.scope = scope, !.confirmed = TRUE,
                                   !.policy = IF charge = "manual_confirmation"
                                              THEN "needs_manual" ELSE "resolved"]
    BY DEF Override
  <1>2. scope \in Scopes \cup {"none"}
    BY DEF RulesTypeOK, QuoteType
  <1> DEFINE policy == IF charge = "manual_confirmation" THEN "needs_manual" ELSE "resolved"
  <1>3. policy \in {"pending", "needs_manual", "resolved"}
    OBVIOUS
  <1>4. ticket' = [Locked EXCEPT !.charge = charge, !.scope = scope, !.confirmed = TRUE,
                                 !.policy = policy]
    BY <1>1
  <1> HIDE DEF policy
  <1>5. ticket' \in QuoteType /\ ticket'.exportable = FALSE
    BY <1>2, <1>3, <1>4, LockedIs DEF QuoteType
  <1> QED  BY <1>5, ItemsFit DEF Decided, Override

LEMMA DecisionsDecide == ASSUME RulesTypeOK, Decisions PROVE Decided /\ UNCHANGED tables
  <1>1. CASE MarkReadyForExport
    BY <1>1, ValidateGives, ItemsFit DEF MarkReadyForExport, Decided, Validated
  <1>2. CASE ValidateTicketSn
    BY <1>2, ReportFits, LockedIs, ItemsFit DEF ValidateTicketSn, Decided
  <1>3. CASE SelectRecords
    BY <1>3, SelectGives DEF SelectRecords, Decided, Validated
  <1>4. CASE ResolvePolicy
    BY <1>4, PricingFits, ItemsFit DEF ResolvePolicy, Decided
  <1>5. CASE ResolveTicketRoutes
    BY <1>5, RoutedFits, LockedIs, ItemsFit DEF ResolveTicketRoutes, Decided
  <1>6. CASE Override
    BY <1>6, OverrideGives DEF Override
  <1>7. ASSUME NEW i \in Items, SelectRoute(i) PROVE Decided /\ UNCHANGED tables
    BY <1>7, SelectRouteGives DEF SelectRoute
  <1> QED  BY <1>1, <1>2, <1>3, <1>4, <1>5, <1>6, <1>7 DEF Decisions

LEMMA ChangesCounted ==
  ASSUME RulesTypeOK, Decisions \/ Maintenance
  PROVE  changes' \in 0..MaxChanges
  <1>1. changes \in 0..MaxChanges /\ MaxChanges \in Nat
    BY RulesConstants DEF RulesTypeOK
  <1>2. Changed => changes' \in 0..MaxChanges
    BY <1>1 DEF Changed
  <1>3. changes' = changes \/ Changed
    BY DEF Decisions, Maintenance, MarkReadyForExport, ValidateTicketSn, SelectRecords,
       ResolvePolicy, ResolveTicketRoutes, Override, SelectRoute, ChangeRow, SavePolicy,
       DeletePolicy, UpdateCard, DeleteCard, ImportCard, AlignCards,
       ImportPolicies
  <1> QED  BY <1>1, <1>2, <1>3

-----------------------------------------------------------------------------
(* The tables *)

CardTables == [Cards -> CardType \cup {Nothing}]

LEMMA ImportedFits ==
  ASSUME NEW table \in CardTables, NEW data \in CardType, NEW new \in Imported(table, data)
  PROVE  new \in CardTables
  <1>1. PICK k \in Cards : new = [table EXCEPT ![k] = data]
    BY DEF Imported
  <1> QED  BY <1>1 DEF CardTables

LEMMA OverseasIs == ASSUME NEW data \in CardType PROVE Overseas(data) \in CardType
  BY DEF Overseas, CardType, Text, Scopes

LEMMA PlannedFits ==
  ASSUME RulesTypeOK, NEW list \in Lists, NEW p \in Policies
  PROVE  Planned(list, p) \in PolicyType \cup {Nothing}
  <1>1. PICK S \in SUBSET DOMAIN DefaultOf : list \in [S -> Scopes]
    BY DEF Lists
  <1> DEFINE row == policies[p]
             c == CHOOSE o \in DOMAIN list : DefaultOf[o] = p
             scoped == [row EXCEPT !.scope = list[row.customer]]
  <1>2. \/ c \in DOMAIN list /\ Planned(list, p) = DefaultPolicy(c, list[c])
        \/ row # Nothing /\ row.customer \in DOMAIN list /\ Planned(list, p) = scoped
        \/ Planned(list, p) = row
    BY DEF Planned
  <1>3. row \in PolicyType \cup {Nothing}
    BY DEF RulesTypeOK
  <1> HIDE DEF row, c
  <1>4. c \in DOMAIN list => DefaultPolicy(c, list[c]) \in PolicyType
    <2> SUFFICES ASSUME c \in DOMAIN list PROVE DefaultPolicy(c, list[c]) \in PolicyType
      OBVIOUS
    <2>1. c \in STRING /\ list[c] \in Scopes
      BY <1>1, RulesConstants
    <2> QED  BY <2>1 DEF DefaultPolicy, PolicyType, Charges
  <1>5. row # Nothing /\ row.customer \in DOMAIN list => scoped \in PolicyType
    BY <1>1, <1>3 DEF PolicyType
  <1> QED  BY <1>2, <1>3, <1>4, <1>5

LEMMA MaintenanceKeeps ==
  ASSUME RulesTypeOK, Maintenance
  PROVE  /\ rows' \in [Rows -> AssetData \cup {Nothing}]
         /\ policies' \in [Policies -> PolicyType \cup {Nothing}]
         /\ cards' \in CardTables
         /\ UNCHANGED <<items, ticket>>
  <1>1. /\ rows \in [Rows -> AssetData \cup {Nothing}]
        /\ policies \in [Policies -> PolicyType \cup {Nothing}]
        /\ cards \in CardTables
    BY DEF RulesTypeOK, CardTables
  <1>2. ASSUME NEW r \in Rows, ChangeRow(r)
        PROVE  /\ rows' \in [Rows -> AssetData \cup {Nothing}]
               /\ UNCHANGED <<policies, cards, items, ticket>>
    BY <1>1, <1>2 DEF ChangeRow
  <1>3. ASSUME NEW p \in Policies, SavePolicy(p) \/ DeletePolicy(p)
        PROVE  /\ policies' \in [Policies -> PolicyType \cup {Nothing}]
               /\ UNCHANGED <<rows, cards, items, ticket>>
    BY <1>1, <1>3, RulesConstants DEF SavePolicy, DeletePolicy
  <1>4. ASSUME NEW k \in Cards, UpdateCard(k) \/ DeleteCard(k)
        PROVE  cards' \in CardTables /\ UNCHANGED <<rows, policies, items, ticket>>
    BY <1>1, <1>4, RulesConstants DEF UpdateCard, DeleteCard, CardTables
  <1>5. ASSUME NEW data \in CardData, ImportCard(data) \/ AlignCards(data)
        PROVE  cards' \in CardTables /\ UNCHANGED <<rows, policies, items, ticket>>
    <2>1. data \in CardType /\ Overseas(data) \in CardType
      BY OverseasIs, RulesConstants
    <2> QED  BY <1>1, <1>5, <2>1, ImportedFits DEF ImportCard, AlignCards
  <1>6. ASSUME NEW list \in Lists, ImportPolicies(list)
        PROVE  /\ policies' \in [Policies -> PolicyType \cup {Nothing}]
               /\ UNCHANGED <<rows, cards, items, ticket>>
    BY <1>6, PlannedFits DEF ImportPolicies
  <1> QED  BY <1>1, <1>2, <1>3, <1>4, <1>5, <1>6 DEF Maintenance

-----------------------------------------------------------------------------
LEMMA RulesInitKeeps == ASSUME RulesInit PROVE RulesInv
  <1>1. /\ Undecided \in ItemType
        /\ Undecided.status = "pending" /\ Undecided.data = Nothing
    BY NoRouteIs DEF Undecided, ItemType
  <1>2. items \in [Items -> ItemType] /\ \A i \in Items : items[i] = Undecided
    BY <1>1 DEF RulesInit
  <1>3. 0 \in 0..MaxChanges
    BY RulesConstants
  <1>4. /\ rows \in [Rows -> AssetData \cup {Nothing}]
        /\ policies \in [Policies -> PolicyType \cup {Nothing}]
        /\ cards \in [Cards -> CardType \cup {Nothing}]
    BY RulesConstants DEF RulesInit
  <1>5. RulesTypeOK
    BY <1>1, <1>2, <1>3, <1>4, NoQuoteIs DEF RulesTypeOK, RulesInit
  <1> QED  BY <1>5, NoQuoteIs DEF RulesInv, QuoteFitsItems, RulesInit

LEMMA RulesNextKeeps == RulesInv /\ [RulesNext]_rulesVars => RulesInv'
  <1> SUFFICES ASSUME RulesInv, [RulesNext]_rulesVars PROVE RulesInv'
    OBVIOUS
  <1>1. CASE Decisions
    <2>1. Decided /\ UNCHANGED <<rows, policies, cards>>
      BY <1>1, DecisionsDecide DEF RulesInv, tables
    <2>2. RulesTypeOK'
      <3>1. changes' \in 0..MaxChanges
        BY <1>1, ChangesCounted DEF RulesInv
      <3> QED  BY <2>1, <3>1 DEF Decided, ItemFits, RulesInv, RulesTypeOK
    <2>3. QuoteFitsItems'
      BY <2>1 DEF Decided, Validated, Priced, QuoteFitsItems
    <2> QED  BY <2>2, <2>3 DEF RulesInv
  <1>2. CASE Maintenance
    <2>1. /\ rows' \in [Rows -> AssetData \cup {Nothing}]
          /\ policies' \in [Policies -> PolicyType \cup {Nothing}]
          /\ cards' \in CardTables /\ changes' \in 0..MaxChanges
          /\ items' = items /\ ticket' = ticket
      BY <1>2, MaintenanceKeeps, ChangesCounted DEF RulesInv
    <2>2. RulesTypeOK'
      BY <2>1 DEF RulesInv, RulesTypeOK, CardTables
    <2> QED  BY <2>1, <2>2 DEF RulesInv, QuoteFitsItems
  <1>3. CASE UNCHANGED rulesVars
    BY <1>3 DEF rulesVars, RulesInv, RulesTypeOK, QuoteFitsItems
  <1> QED  BY <1>1, <1>2, <1>3 DEF RulesNext

\* Tables, items and quote keep their shape.
THEOREM RulesTyped == RulesSpec => []RulesTypeOK
  <1>1. RulesInv => RulesTypeOK  BY DEF RulesInv
  <1> QED  BY <1>1, RulesInitKeeps, RulesNextKeeps, PTL DEF RulesSpec

\* While safety_check_hash allows an export, the quote is that of the customer who owns every
\* item's SAP record, with the warranty these records give (resolve_and_snapshot_ticket_policy),
\* for any tables, edits and choices of operators.
THEOREM QuotesFit == RulesSpec => []QuoteFitsItems
  <1>1. RulesInv => QuoteFitsItems  BY DEF RulesInv
  <1> QED  BY <1>1, RulesInitKeeps, RulesNextKeeps, PTL DEF RulesSpec

\* The gate lets a ticket pass only with records, a policy and routes that had no rival when it
\* decided, but for what a person chose: no first match of a query decides.
THEOREM GuessesNever == RulesSpec => NeverGuesses
  <1>1. RulesInv /\ [RulesNext]_rulesVars =>
          [ticket'.exportable /\ UNCHANGED tables
             => (OnlyPolicy /\ \A i \in Items : Unrivalled(i) /\ OneAddress(i))']_rulesVars
    <2> SUFFICES ASSUME RulesInv, RulesNext, ticket'.exportable, UNCHANGED tables
                 PROVE  (OnlyPolicy /\ \A i \in Items : Unrivalled(i) /\ OneAddress(i))'
      OBVIOUS
    <2>1. RulesTypeOK /\ rows' = rows /\ policies' = policies /\ cards' = cards
      BY DEF RulesInv, tables
    <2>2. Decisions
      BY DEF RulesNext
    <2>3. Validated(items', ticket') /\ ticket'.exportable
      BY <2>1, <2>2, DecisionsDecide DEF Decided
    <2>4. /\ ticket'.policy = "resolved" /\ Priced(ticket', items')
          /\ \A i \in Items : Chosen(items'[i], i) /\ Served(items'[i].route, i, ticket'.scope)
      BY <2>3 DEF Validated
    <2>5. OnlyPolicy'
      BY <2>1, <2>4 DEF Priced, OnlyPolicy
    <2>6. ASSUME NEW i \in Items PROVE Unrivalled(i)'
      <3>1. items'[i].status = "resolved" /\ Chosen(items'[i], i)
        BY <2>4 DEF Priced
      <3>2. /\ rows[items'[i].row].valid /\ rows[items'[i].row].ends # 0
            /\ rows[items'[i].row].kind # "semi"
        BY <2>1, <3>1, FavouriteIs DEF Chosen
      <3>3. \A q \in Rows \ {items'[i].row} :
              Holds[q] = i /\ rows[q] # Nothing /\ rows[q].valid =>
                 \/ rows[q].ends < rows[items'[i].row].ends
                 \/ rows[q].kind = "semi"
                 \/ rows[items'[i].row].kind = "a" /\ rows[q].kind # "a"
                 \/ items'[i].manual
        BY <2>1, <3>1, ChosenIsUnrivalled
      <3> QED  BY <2>1, <3>2, <3>3 DEF Unrivalled
    <2>7. ASSUME NEW i \in Items PROVE OneAddress(i)'
      BY <2>1, <2>4 DEF Served, OneAddress, Active
    <2> QED  BY <2>5, <2>6, <2>7
  <1> QED  BY <1>1, RulesInitKeeps, RulesNextKeeps, PTL DEF RulesSpec, NeverGuesses
-----------------------------------------------------------------------------
(***************************************************************************)
(* The copy of the SAP records that the rules read: proofs about           *)
(* MasterData, for any number of overlapping synchronisations, records and *)
(* runs of the tool.                                                       *)
(***************************************************************************)
(* No row is ever removed: what a synchronisation has read is still there.   *)
StillThere ==
  \A r \in Processes : syncs[r] # NotRunning =>
     \A i \in Ins : Present(syncs[r].read[i]) => Present(assets[i])

CopyInv == MasterTypeOK /\ StillThere

(* What a step may do to the rows.                                           *)
RowsGrow ==
  /\ assets' \in [Ins -> AssetRows]
  /\ \A i \in Ins : Present(assets[i]) => Present(assets'[i])

LEMMA SyncIs ==
  ASSUME MasterTypeOK, NEW r \in Processes
  PROVE  /\ syncs[r] \in Syncs
         /\ syncs[r] # NotRunning => syncs[r].at # "idle" /\ syncs[r].read \in [Ins -> AssetRows]
         /\ syncs[r].at = "applying" => syncs[r] # NotRunning /\ syncs[r].batch \in [Ins -> Records]
         /\ syncs[r].at = "fetching" => syncs[r] # NotRunning
  BY DEF MasterTypeOK, Syncs, NotRunning

LEMMA ToolIs ==
  ASSUME MasterTypeOK, tool # NotRunning
  PROVE  /\ tool = [at |-> "reading", whole |-> tool.whole, got |-> tool.got]
         /\ tool.whole \in BOOLEAN /\ DOMAIN tool.got \subseteq Ins
         /\ tool.got \in [DOMAIN tool.got -> Records]
  <1>1. tool \in [at : {"reading"}, whole : BOOLEAN,
                  got : UNION {[S -> Records] : S \in SUBSET Ins}]
    BY DEF MasterTypeOK, Tools
  <1>2. PICK S \in SUBSET Ins : tool.got \in [S -> Records]
    BY <1>1
  <1> QED  BY <1>1, <1>2

(* What a synchronisation writes is a row, and in the place of a row.        *)
LEMMA MergedIs ==
  ASSUME MasterTypeOK, NEW read \in [Ins -> AssetRows], NEW batch \in [Ins -> Records],
         NEW i \in Ins, Present(read[i]) => Present(assets[i])
  PROVE  /\ Merged(read, batch, i) \in AssetRows
         /\ Present(assets[i]) => Present(Merged(read, batch, i))
  <1> DEFINE row == Merged(read, batch, i)
  <1>1. i \in Complete(batch) => i \notin Gone(read, batch)
    BY SnsAssumption DEF Complete, Gone
  <1>2. assets[i] \in AssetRows /\ read[i] \in AssetRows
    BY DEF MasterTypeOK
  <1>3. CASE i \in Complete(batch)
    <2>1. batch[i] \in Sns /\ batch[i] # "none"
      BY <1>3, SnsAssumption DEF Complete
    <2>2. read[i].sn = batch[i] => Present(read[i])
      BY <2>1 DEF Present, NoRow
    <2>3. read[i].sn = batch[i] => assets[i].sn \in Named
      BY <1>2, <2>2 DEF Present, AssetRows, NoRow
    <2>4. read[i].valid => Present(read[i])
      BY DEF Present, NoRow
    <2> DEFINE sn == IF read[i].sn = batch[i] THEN assets[i].sn ELSE batch[i]
               valid == IF read[i].valid THEN assets[i].valid ELSE TRUE
    <2>5. row = [sn |-> sn, valid |-> valid]
      BY <1>1, <1>3 DEF Merged
    <2>6. sn \in Named /\ valid \in BOOLEAN
      BY <1>2, <2>1, <2>3, <2>4 DEF Present, AssetRows, NoRow, Named
    <2> HIDE DEF sn, valid
    <2>7. row \in [sn : Named, valid : BOOLEAN]
      BY <2>5, <2>6
    <2> QED  BY <2>7, SnsAssumption DEF AssetRows, Present, NoRow, Named
  <1>4. CASE i \notin Complete(batch) /\ i \in Gone(read, batch)
    <2>1. Present(assets[i])
      BY <1>4 DEF Gone
    <2>2. assets[i] \in [sn : Named, valid : BOOLEAN]
      BY <1>2, <2>1 DEF Present, AssetRows
    <2>3. row = [assets[i] EXCEPT !.valid = IF read[i].valid THEN FALSE ELSE @]
      BY <1>4 DEF Merged
    <2>4. row \in [sn : Named, valid : BOOLEAN]
      BY <2>2, <2>3
    <2> QED  BY <2>4, SnsAssumption DEF AssetRows, Present, NoRow, Named
  <1>5. CASE i \notin Complete(batch) /\ i \notin Gone(read, batch)
    BY <1>2, <1>5 DEF Merged
  <1> QED  BY <1>3, <1>4, <1>5

(* So is what the tool writes.                                               *)
LEMMA StreamedIs ==
  ASSUME CopyInv, tool # NotRunning, NEW i \in Ins
  PROVE  Streamed(i) \in AssetRows /\ (Present(assets[i]) => Present(Streamed(i)))
  <1>1. assets[i] \in AssetRows
    BY DEF CopyInv, MasterTypeOK
  <1>2. Present(assets[i]) => assets[i] \in [sn : Named, valid : BOOLEAN]
    BY <1>1 DEF Present, AssetRows
  <1>3. CASE i \in DOMAIN tool.got /\ tool.got[i] \in Named
    BY <1>3, SnsAssumption DEF Streamed, AssetRows, Present, NoRow, Named
  <1>4. CASE ~(i \in DOMAIN tool.got /\ tool.got[i] \in Named) /\ tool.whole /\ Present(assets[i])
    <2>1. Streamed(i) = [assets[i] EXCEPT !.valid = FALSE]
      BY <1>4 DEF Streamed
    <2>2. Streamed(i) \in [sn : Named, valid : BOOLEAN]
      BY <1>2, <1>4, <2>1
    <2> QED  BY <2>2, SnsAssumption DEF AssetRows, Present, NoRow, Named
  <1>5. CASE ~(i \in DOMAIN tool.got /\ tool.got[i] \in Named) /\ ~(tool.whole /\ Present(assets[i]))
    BY <1>1, <1>5 DEF Streamed
  <1> QED  BY <1>3, <1>4, <1>5

LEMMA CopyRowsGrow == CopyInv /\ [MasterNext]_masterVars => RowsGrow
  <1> SUFFICES ASSUME CopyInv, [MasterNext]_masterVars PROVE RowsGrow
    OBVIOUS
  <1>1. ASSUME UNCHANGED assets PROVE RowsGrow
    BY <1>1 DEF CopyInv, MasterTypeOK, RowsGrow
  <1>2. ASSUME NEW r \in Processes, ApplyBatch(r) PROVE RowsGrow
    <2>1. CASE UNCHANGED assets
      BY <1>1, <2>1
    <2>2. CASE assets' = [i \in Ins |-> Merged(syncs[r].read, syncs[r].batch, i)]
      <3>1. ASSUME NEW i \in Ins
            PROVE  assets'[i] \in AssetRows /\ (Present(assets[i]) => Present(assets'[i]))
        BY <1>2, <2>2, SyncIs, MergedIs DEF ApplyBatch, CopyInv, StillThere
      <3> QED  BY <2>2, <3>1 DEF RowsGrow
    <2> QED  BY <1>2, <2>1, <2>2 DEF ApplyBatch
  <1>3. CASE ToolCommits
    BY <1>3, StreamedIs DEF ToolCommits, RowsGrow
  <1> QED
    BY <1>1, <1>2, <1>3 DEF MasterNext, masterVars, Synchronise, Begin, Fetch, Die, ToolBegins,
       ToolRuns, ToolReads, ToolFails, SourceChanges

LEMMA CopyInitKeeps == MasterInit => CopyInv
  <1> SUFFICES ASSUME MasterInit PROVE CopyInv
    OBVIOUS
  <1>1. 0 \in 0..MaxEvents
    BY BoundAssumption
  <1> QED
    BY <1>1, FirstAssumption
       DEF MasterInit, CopyInv, MasterTypeOK, StillThere, Answers, AssetRows, Syncs, Tools

LEMMA EventsCounted ==
  ASSUME MasterTypeOK, Event \/ UNCHANGED events
  PROVE  events' \in 0..MaxEvents
  BY BoundAssumption DEF MasterTypeOK, Event

(* One synchronisation goes on; what it has read is there.                   *)
LEMMA SyncGoesOn ==
  ASSUME CopyInv, RowsGrow, NEW r \in Processes, NEW sync \in Syncs,
         syncs' = [syncs EXCEPT ![r] = sync],
         sync # NotRunning => \A i \in Ins : Present(sync.read[i]) => Present(assets[i])
  PROVE  syncs' \in [Processes -> Syncs] /\ StillThere'
  <1>1. /\ syncs' \in [Processes -> Syncs] /\ syncs'[r] = sync
        /\ \A q \in Processes \ {r} : syncs'[q] = syncs[q]
    BY DEF CopyInv, MasterTypeOK
  <1>2. ASSUME NEW q \in Processes, syncs'[q] # NotRunning, NEW i \in Ins,
               Present(syncs'[q].read[i])
        PROVE  Present(assets'[i])
    BY <1>1, <1>2 DEF CopyInv, StillThere, RowsGrow
  <1> QED  BY <1>1, <1>2 DEF StillThere, Present

LEMMA CopyNextKeeps == CopyInv /\ [MasterNext]_masterVars => CopyInv'
  <1> SUFFICES ASSUME CopyInv, [MasterNext]_masterVars PROVE CopyInv'
    OBVIOUS
  <1>1. RowsGrow
    BY CopyRowsGrow
  <1>2. ASSUME UNCHANGED syncs PROVE StillThere'
    BY <1>1, <1>2 DEF CopyInv, StillThere, RowsGrow, Present
  <1>3. CASE UNCHANGED masterVars
    BY <1>2, <1>3 DEF CopyInv, MasterTypeOK, masterVars
  <1>4. ASSUME NEW r \in Processes, Begin(r) PROVE CopyInv'
    <2> DEFINE sync == [at |-> "fetching", read |-> assets]
    <2>1. sync \in Syncs /\ \A i \in Ins : Present(sync.read[i]) => Present(assets[i])
      BY DEF CopyInv, MasterTypeOK, Syncs
    <2> HIDE DEF sync
    <2>2. syncs' = [syncs EXCEPT ![r] = sync]
      BY <1>4 DEF Begin, sync
    <2>3. syncs' \in [Processes -> Syncs] /\ StillThere'
      BY <1>1, <2>1, <2>2, SyncGoesOn
    <2> QED  BY <1>4, <2>3 DEF Begin, CopyInv, MasterTypeOK
  <1>5. ASSUME NEW r \in Processes, Fetch(r) PROVE CopyInv'
    <2> DEFINE sync == IF Applicable(source)
                       THEN [at |-> "applying", read |-> syncs[r].read, batch |-> source]
                       ELSE NotRunning
    <2>1. syncs[r] # NotRunning /\ syncs[r].read \in [Ins -> AssetRows]
      BY <1>5, SyncIs DEF Fetch, CopyInv
    <2>2. sync \in Syncs
      BY <2>1 DEF CopyInv, MasterTypeOK, Syncs
    <2>3. sync # NotRunning => \A i \in Ins : Present(sync.read[i]) => Present(assets[i])
      BY <2>1 DEF CopyInv, StillThere
    <2>4. syncs' = [syncs EXCEPT ![r] = sync]
      BY <1>5 DEF Fetch, CopyInv, MasterTypeOK
    <2> HIDE DEF sync
    <2>5. syncs' \in [Processes -> Syncs] /\ StillThere'
      BY <1>1, <2>2, <2>3, <2>4, SyncGoesOn
    <2> QED  BY <1>5, <2>5 DEF Fetch, CopyInv, MasterTypeOK
  <1>6. ASSUME NEW r \in Processes, ApplyBatch(r) \/ Die(r) PROVE CopyInv'
    <2>1. NotRunning \in Syncs /\ syncs' = [syncs EXCEPT ![r] = NotRunning]
      BY <1>6 DEF ApplyBatch, Die, Syncs
    <2>2. syncs' \in [Processes -> Syncs] /\ StillThere'
      BY <1>1, <2>1, SyncGoesOn
    <2>3. events' \in 0..MaxEvents
      BY <1>6, EventsCounted DEF ApplyBatch, Die, CopyInv
    <2> QED  BY <1>1, <1>6, <2>2, <2>3 DEF ApplyBatch, Die, CopyInv, MasterTypeOK, RowsGrow
  <1>7. CASE ToolBegins
    <2>1. PICK whole \in BOOLEAN : tool' = [at |-> "reading", got |-> <<>>, whole |-> whole]
      BY <1>7 DEF ToolBegins
    <2>2. <<>> \in [{} -> Records] /\ {} \in SUBSET Ins
      OBVIOUS
    <2>3. tool' \in Tools
      BY <2>1, <2>2 DEF Tools
    <2> QED  BY <1>2, <1>7, <2>3, EventsCounted DEF ToolBegins, CopyInv, MasterTypeOK
  <1>8. ASSUME NEW i \in Ins, ToolReads(i) PROVE CopyInv'
    <2> DEFINE got == [j \in DOMAIN tool.got \cup {i} |-> IF j = i THEN source[i] ELSE tool.got[j]]
               S == DOMAIN tool.got \cup {i}
    <2>1. /\ tool = [at |-> "reading", whole |-> tool.whole, got |-> tool.got]
          /\ tool.whole \in BOOLEAN /\ DOMAIN tool.got \subseteq Ins
          /\ tool.got \in [DOMAIN tool.got -> Records]
      BY <1>8, ToolIs DEF ToolReads, CopyInv
    <2>2. S \in SUBSET Ins /\ got \in [S -> Records]
      BY <2>1 DEF CopyInv, MasterTypeOK
    <2>3. tool' = [tool EXCEPT !.got = got]
      BY <1>8 DEF ToolReads
    <2> HIDE DEF got, S
    <2>4. tool' = [at |-> "reading", whole |-> tool.whole, got |-> got]
      BY <2>1, <2>3
    <2>5. tool' \in Tools
      BY <2>1, <2>2, <2>4 DEF Tools
    <2> QED  BY <1>2, <1>8, <2>5 DEF ToolReads, CopyInv, MasterTypeOK
  <1>9. CASE ToolCommits \/ ToolFails
    <2>1. tool' \in Tools
      BY <1>9 DEF ToolCommits, ToolFails, Tools
    <2> QED
      BY <1>1, <1>2, <1>9, <2>1, EventsCounted
         DEF ToolCommits, ToolFails, CopyInv, MasterTypeOK, RowsGrow
  <1>10. CASE SourceChanges
    <2>1. source' \in [Ins -> Records] /\ middleware' \in Answers
      BY <1>10 DEF SourceChanges, CopyInv, MasterTypeOK
    <2> QED
      BY <1>2, <1>10, <2>1, EventsCounted DEF SourceChanges, CopyInv, MasterTypeOK
  <1> QED
    BY <1>3, <1>4, <1>5, <1>6, <1>7, <1>8, <1>9, <1>10 DEF MasterNext, Synchronise, ToolRuns

(* The records, the rows, the synchronisations and the tool keep their       *)
(* shape; no row is lost.                                                    *)
THEOREM MasterTyped == MasterSpec => []MasterTypeOK
  <1>1. CopyInv => MasterTypeOK
    BY DEF CopyInv
  <1> QED  BY <1>1, CopyInitKeeps, CopyNextKeeps, PTL DEF MasterSpec
-----------------------------------------------------------------------------
(* Writing what SAP says over a copy that says it, whatever was read.        *)
LEMMA MergedMirrors ==
  ASSUME CopyInv, Mirrors, NEW read, NEW i \in Ins
  PROVE  LET row == Merged(read, source, i) IN
         /\ source[i] \in Sns => row = [sn |-> source[i], valid |-> TRUE]
         /\ source[i] = "absent" => ~row.valid
  <1> DEFINE row == Merged(read, source, i)
  <1>1. assets[i] \in AssetRows
    BY DEF CopyInv, MasterTypeOK
  <1>2. CASE source[i] \in Sns
    <2>1. /\ i \in Complete(source) /\ i \notin Gone(read, source)
          /\ assets[i] = [sn |-> source[i], valid |-> TRUE]
      BY <1>2, SnsAssumption DEF Complete, Gone, Mirrors
    <2>2. row = [sn |-> source[i], valid |-> TRUE]
      BY <2>1 DEF Merged
    <2> QED  BY <1>2, <2>2, SnsAssumption
  <1>3. CASE source[i] \notin Sns
    <2>1. i \notin Complete(source)
      BY <1>3 DEF Complete
    <2>2. source[i] = "absent" => ~assets[i].valid
      BY DEF Mirrors
    <2>3. row = IF i \in Gone(read, source)
                THEN [assets[i] EXCEPT !.valid = IF read[i].valid THEN FALSE ELSE @]
                ELSE assets[i]
      BY <2>1 DEF Merged
    <2>4. source[i] = "absent" => ~row.valid
      BY <1>1, <2>2, <2>3 DEF AssetRows, NoRow
    <2> QED  BY <1>3, <2>4
  <1> QED  BY <1>2, <1>3

LEMMA StreamedMirrors ==
  ASSUME CopyInv, Mirrors, UpToDate, tool # NotRunning,
         tool.whole => DOMAIN tool.got = Ins, NEW i \in Ins
  PROVE  /\ source[i] \in Sns => Streamed(i) = [sn |-> source[i], valid |-> TRUE]
         /\ source[i] = "absent" => ~Streamed(i).valid
  <1>1. assets[i] \in AssetRows /\ (i \in DOMAIN tool.got => tool.got[i] = source[i])
    BY DEF CopyInv, MasterTypeOK, UpToDate
  <1>2. CASE source[i] \in Sns
    BY <1>1, <1>2, SnsAssumption DEF Streamed, Mirrors, Named
  <1>3. CASE source[i] = "absent"
    <2>1. ~assets[i].valid /\ source[i] \notin Named
      BY <1>3, SnsAssumption DEF Mirrors, Named
    <2>2. Streamed(i) = IF tool.whole /\ Present(assets[i]) THEN [assets[i] EXCEPT !.valid = FALSE]
                        ELSE assets[i]
      BY <1>1, <2>1 DEF Streamed
    <2> QED  BY <1>1, <1>3, <2>1, <2>2, SnsAssumption DEF AssetRows, NoRow
  <1> QED  BY <1>2, <1>3

(* A copy that says what SAP says stays so, whatever old rows the            *)
(* synchronisations have read and whichever fail, die or overlap, as long as *)
(* none holds an answer older than a change in SAP: the safety part of what  *)
(* SourceWins says, for any number of processes, records and events.         *)
THEOREM MirrorStays == MasterSpec => StaysMirrored
  <1>1. CopyInv /\ [MasterNext]_masterVars =>
          [Mirrors /\ UpToDate /\ UNCHANGED source => (Mirrors /\ UpToDate)']_masterVars
    <2> SUFFICES ASSUME CopyInv, MasterNext, Mirrors, UpToDate, UNCHANGED source
                 PROVE  (Mirrors /\ UpToDate)'
      OBVIOUS
    <2>1. ASSUME UNCHANGED assets PROVE Mirrors'
      BY <2>1 DEF Mirrors
    <2>2. ASSUME NEW r \in Processes, NEW sync, syncs' = [syncs EXCEPT ![r] = sync],
                 sync.at = "applying" => sync.batch = source, UNCHANGED tool
          PROVE  UpToDate'
      BY <2>2 DEF UpToDate, CopyInv, MasterTypeOK
    <2>3. ASSUME UNCHANGED <<syncs, tool>> PROVE UpToDate'
      BY <2>3 DEF UpToDate
    <2>4. ASSUME NEW r \in Processes, Begin(r) PROVE (Mirrors /\ UpToDate)'
      BY <2>1, <2>2, <2>4 DEF Begin
    <2>5. ASSUME NEW r \in Processes, Fetch(r) PROVE (Mirrors /\ UpToDate)'
      <3> DEFINE sync == IF Applicable(source)
                         THEN [at |-> "applying", read |-> syncs[r].read, batch |-> source]
                         ELSE NotRunning
      <3>1. syncs' = [syncs EXCEPT ![r] = sync] /\ (sync.at = "applying" => sync.batch = source)
        BY <2>5 DEF Fetch, NotRunning, CopyInv, MasterTypeOK
      <3> QED  BY <2>1, <2>2, <2>5, <3>1 DEF Fetch
    <2>6. ASSUME NEW r \in Processes, ApplyBatch(r) PROVE (Mirrors /\ UpToDate)'
      <3>1. UpToDate'
        BY <2>2, <2>6 DEF ApplyBatch, NotRunning
      <3>2. CASE assets' = [i \in Ins |-> Merged(syncs[r].read, syncs[r].batch, i)]
        <4>1. syncs[r].at = "applying" /\ syncs[r].batch = source
          BY <2>6 DEF ApplyBatch, UpToDate
        <4>2. \A i \in Ins : assets'[i] = Merged(syncs[r].read, source, i)
          BY <3>2, <4>1
        <4>3. Mirrors'
          BY <4>2, MergedMirrors DEF Mirrors
        <4> QED  BY <3>1, <4>3
      <3> QED  BY <2>1, <2>6, <3>1, <3>2 DEF ApplyBatch
    <2>7. ASSUME NEW r \in Processes, Die(r) PROVE (Mirrors /\ UpToDate)'
      BY <2>1, <2>2, <2>7 DEF Die, NotRunning
    <2>8. CASE ToolBegins
      BY <2>1, <2>8 DEF ToolBegins, UpToDate
    <2>9. ASSUME NEW i \in Ins, ToolReads(i) PROVE (Mirrors /\ UpToDate)'
      <3> DEFINE got == [j \in DOMAIN tool.got \cup {i} |->
                           IF j = i THEN source[i] ELSE tool.got[j]]
      <3>1. tool # NotRunning /\ tool' = [tool EXCEPT !.got = got]
        BY <2>9 DEF ToolReads
      <3>2. tool'.got = got
        BY <3>1, ToolIs DEF CopyInv
      <3>3. \A j \in DOMAIN got : got[j] = source[j]
        BY <3>1 DEF UpToDate
      <3>4. UpToDate'
        BY <2>9, <3>2, <3>3 DEF ToolReads, UpToDate
      <3> QED  BY <2>1, <2>9, <3>4 DEF ToolReads
    <2>10. CASE ToolCommits
      <3>1. Mirrors'
        BY <2>10, StreamedMirrors DEF ToolCommits, Mirrors
      <3> QED  BY <2>10, <3>1 DEF ToolCommits, UpToDate
    <2>11. CASE ToolFails
      BY <2>1, <2>11 DEF ToolFails, UpToDate
    <2>12. CASE SourceChanges
      BY <2>1, <2>3, <2>12 DEF SourceChanges
    <2> QED
      BY <2>4, <2>5, <2>6, <2>7, <2>8, <2>9, <2>10, <2>11, <2>12
         DEF MasterNext, Synchronise, ToolRuns
  <1> QED  BY <1>1, CopyInitKeeps, CopyNextKeeps, PTL DEF MasterSpec, StaysMirrored
=============================================================================
