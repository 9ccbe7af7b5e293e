---------------------------- MODULE RepairRules -----------------------------
(***************************************************************************)
(* What the master data decide about a repair ticket: which SAP record a   *)
(* serial number stands for, who pays, and where the board is sent back    *)
(* to.  The tables change under the ticket (imports, edits, the            *)
(* synchronisation), operators decide what the rules leave open, and the   *)
(* export gate decides everything again.                                   *)
(*                                                                         *)
(* A row that is complete and has asset_status "valid" is [valid |-> TRUE];*)
(* dates are compared with each other and with the day of the request,     *)
(* which lies between 1 and 2.  A price, a phone number or a name follows  *)
(* the customer or the address it belongs to.                              *)
(***************************************************************************)
EXTENDS Naturals, FiniteSets

CONSTANTS Items,         \* the items of the ticket
          Holds,         \* Holds[r]: the item whose serial number the row r of sn_assets carries
          AssetData,     \* what a row of sn_assets may say
          Policies,      \* ids of customer_service_policies
          PolicyData,    \* what a policy may say
          Cards,         \* ids of board_cards
          CardData,      \* what a card may say
          Board,         \* Board[i]: the board of an item, as the customer wrote it
          DefaultOf,     \* DefaultOf[c]: the policy coded default-out-of-warranty-<c>
          FirstRows,     \* the tables at the beginning
          FirstPolicies,
          FirstCards,
          MaxChanges,    \* bound: changes of the tables and decisions of operators
          Nothing        \* no row, no policy, no card, no snapshot

Rows == DOMAIN Holds

AssetType == [valid : BOOLEAN, customer : STRING,
              begins : 0..2, ends : 0..2,    \* 0: no warranty_start_date, no warranty_end_date
              kind : {"semi", "a", "other"}]
Charges == {"free", "annual_contract", "chargeable", "manual_confirmation"}
Scopes == {"domestic", "overseas"}
PolicyType == [active : BOOLEAN, customer : STRING, charge : Charges,
               scope : Scopes \cup {"none"}, forced : BOOLEAN]

\* A text, among them those that the program itself writes.
Text == STRING \cup {"none", "*", "OVERSEAS_DEFAULT_BEIJING"}

CardType == [active : BOOLEAN, complete : BOOLEAN, scope : Scopes,
             kind : {"board_rule", "scope_default"}, code : Text, name : Text,
             location : {"beijing", "tianjin"}, address : STRING]

ASSUME DataAssumption == AssetData \subseteq AssetType /\ PolicyData \subseteq PolicyType
                         /\ CardData \subseteq CardType
ASSUME NothingAssumption ==
  /\ Nothing \notin Rows /\ Nothing \notin Policies /\ Nothing \notin Cards
  /\ Nothing \notin AssetData /\ Nothing \notin PolicyData /\ Nothing \notin CardData
ASSUME ItemsAssumption == Holds \in [Rows -> Items] /\ MaxChanges \in Nat
                          /\ DefaultOf \in [DOMAIN DefaultOf -> Policies]
                          /\ DOMAIN DefaultOf \subseteq STRING
                          /\ Board \in [Items -> [code : STRING, name : STRING]]
ASSUME TablesAssumption ==
  /\ IsFiniteSet(Items) /\ IsFiniteSet(Rows) /\ IsFiniteSet(Policies) /\ IsFiniteSet(Cards)
  /\ FirstRows \subseteq [Rows -> AssetData \cup {Nothing}]
  /\ FirstPolicies \in [Policies -> PolicyData \cup {Nothing}]
  /\ FirstCards \in [Cards -> CardData \cup {Nothing}]

VARIABLES rows,          \* sn_assets
          policies,      \* customer_service_policies
          cards,         \* board_cards
          items,         \* the items of the ticket: what was decided for each
          ticket,        \* who pays, and whether the ticket may be exported
          changes

rulesVars == <<rows, policies, cards, items, ticket, changes>>
tables == <<rows, policies, cards>>

-----------------------------------------------------------------------------
NoRoute == [card |-> Nothing, manual |-> FALSE, location |-> "none", address |-> "none"]

\* sn_master_resolution_*: status, method MANUAL, the row, its snapshot and the candidates.
Undecided == [status |-> "pending", manual |-> FALSE, row |-> Nothing, data |-> Nothing,
              among |-> {}, route |-> NoRoute]

\* exportable: safety_check_hash is set.  by: the policy; of: the customer it was found for;
\* confirmed: an operator set the charge or the scope.
NoQuote == [policy |-> "pending", charge |-> "manual_confirmation", scope |-> "none",
            by |-> Nothing, of |-> "none", warranty |-> FALSE, confirmed |-> FALSE,
            exportable |-> FALSE]

RouteType == [card : Cards \cup {Nothing}, manual : BOOLEAN,
              location : {"none", "beijing", "tianjin"}, address : Text]
ItemType == [status : {"pending", "unresolved", "ambiguous", "resolved"}, manual : BOOLEAN,
             row : Rows \cup {Nothing}, data : AssetData \cup {Nothing}, among : SUBSET Rows,
             route : RouteType]
QuoteType == [policy : {"pending", "needs_manual", "resolved"}, charge : Charges,
              scope : Scopes \cup {"none"}, by : Policies \cup {Nothing}, of : Text,
              warranty : BOOLEAN, confirmed : BOOLEAN, exportable : BOOLEAN]

RulesTypeOK ==
  /\ rows \in [Rows -> AssetData \cup {Nothing}]
  /\ policies \in [Policies -> PolicyType \cup {Nothing}]
  /\ cards \in [Cards -> CardType \cup {Nothing}]
  /\ items \in [Items -> ItemType]
  /\ \A i \in Items : items[i].status = "resolved" <=> items[i].data # Nothing
  /\ ticket \in QuoteType
  /\ changes \in 0..MaxChanges

RulesInit ==
  /\ rows \in FirstRows
  /\ policies = FirstPolicies /\ cards = FirstCards
  /\ items = [i \in Items |-> Undecided] /\ ticket = NoQuote /\ changes = 0

Changed == changes < MaxChanges /\ changes' = changes + 1

-----------------------------------------------------------------------------
(* Which SAP record: resolve_assets *)

Usable(i) == {r \in Rows : Holds[r] = i /\ rows[r] # Nothing /\ rows[r].valid}

\* The rows with the latest end of warranty, among those that have one.
LatestOf(S) == {r \in S : rows[r].ends # 0 /\ \A q \in S : rows[q].ends <= rows[r].ends}

Latest(i) == LatestOf(Usable(i))
Finished(i) == {r \in Latest(i) : rows[r].kind # "semi"}
ABoards(S) == {r \in S : rows[r].kind = "a"}

\* One A board is preferred to the other boards; several of them are left to a person.
Favourite(i) == IF ABoards(Finished(i)) # {} THEN ABoards(Finished(i)) ELSE Finished(i)

Take(item, r, manual) ==
  [item EXCEPT !.status = "resolved", !.manual = manual, !.row = r, !.data = rows[r]]

Leave(item, status, among) ==
  [item EXCEPT !.status = status, !.manual = FALSE, !.row = Nothing, !.data = Nothing,
               !.among = among]

\* An ambiguous record keeps the candidate a person chose, while it is one.
Decide(item, i) ==
  LET candidates == Favourite(i) IN
  IF \A r \in Rows : Holds[r] = i => rows[r] = Nothing THEN Leave(item, "pending", {})
  ELSE IF candidates = {} THEN Leave(item, "unresolved", {})
  ELSE IF Cardinality(candidates) = 1
  THEN Take([item EXCEPT !.among = candidates], CHOOSE r \in candidates : TRUE, FALSE)
  ELSE IF item.status = "resolved" /\ item.manual /\ item.row \in candidates
  THEN Take([item EXCEPT !.among = candidates], item.row, TRUE)
  ELSE Leave(item, "ambiguous", candidates)

\* build_sn_validation_report with persist: every item is decided again.
Report(its) == [i \in Items |-> Decide(its[i], i)]

-----------------------------------------------------------------------------
(* Who pays: resolve_and_snapshot_ticket_policy and resolve_customer_policy *)

NeedsManual == [NoQuote EXCEPT !.policy = "needs_manual"]

InWarranty(data) == data.begins # 2 /\ data.ends \in {0, 2}

Candidates(customer) ==
  {p \in Policies : policies[p] # Nothing /\ policies[p].active
                    /\ policies[p].customer = customer}

\* The charge of a ticket under its only policy: a warranty makes it free.
Charge(p, warranty) == IF warranty THEN "free" ELSE policies[p].charge

Quote(p, warranty) ==
  IF policies[p].forced \/ policies[p].scope = "none"
     \/ Charge(p, warranty) = "manual_confirmation"
  THEN NeedsManual
  ELSE [NoQuote EXCEPT !.policy = "resolved", !.charge = Charge(p, warranty),
                       !.scope = policies[p].scope, !.by = p, !.of = policies[p].customer,
                       !.warranty = warranty]

Resolved(its) == {i \in Items : its[i].status = "resolved"}

\* One customer, one answer on the warranty and one policy, or a person decides.
Pricing(its) ==
  LET owners == {its[i].data.customer : i \in Resolved(its)}
      flags == {InWarranty(its[i].data) : i \in Resolved(its)}
      found == UNION {Candidates(c) : c \in owners}
  IN  IF Resolved(its) = Items /\ Cardinality(owners) = 1 /\ Cardinality(flags) = 1
         /\ Cardinality(found) = 1
      THEN Quote(CHOOSE p \in found : TRUE, TRUE \in flags)
      ELSE NeedsManual

-----------------------------------------------------------------------------
(* Where to: resolve_item_return_route *)

Active(k) == cards[k] # Nothing /\ cards[k].active

RouteOf(k, manual) == [card |-> k, manual |-> manual, location |-> cards[k].location,
                       address |-> cards[k].address]

Defaults == {k \in Cards : Active(k) /\ cards[k].scope = "overseas"
                           /\ cards[k].kind = "scope_default"}

Matches(i) == {k \in Cards : Active(k) /\ cards[k].scope = "domestic"
                             /\ cards[k].kind = "board_rule" /\ cards[k].code = Board[i].code}
Exact(i) == {k \in Matches(i) : cards[k].name = Board[i].name /\ Board[i].name # "none"}

Where(S) == {<<cards[k].location, cards[k].address>> : k \in S}

BugOneWay(S) == Cardinality({cards[k].location : k \in S}) = 1

\* Several cards for the code are as good as one when they send the board to one address.
OneWay(S) == Cardinality(Where(S)) = 1

\* The cards a route may be taken from: none when a person has to choose.
Offered(i, scope) ==
  LET serving ==
        CASE scope = "overseas" -> IF Cardinality(Defaults) = 1 THEN Defaults ELSE {}
          [] scope = "domestic" /\ Board[i].code # "none" ->
               IF Exact(i) # {} THEN IF Cardinality(Exact(i)) = 1 THEN Exact(i) ELSE {}
               ELSE IF OneWay(Matches(i)) THEN Matches(i) ELSE {}
          [] OTHER -> {}
  IN  {k \in serving : cards[k].complete}

\* A route a person chose stays while its card is there, active, complete and for the place.
Stands(route) ==
  /\ route.manual /\ Active(route.card) /\ cards[route.card].complete
  /\ cards[route.card].location = route.location

Routes(item, i, scope) ==
  IF Stands(item.route) THEN {item.route}
  ELSE IF Offered(i, scope) = {} THEN {NoRoute}
  ELSE {RouteOf(k, FALSE) : k \in Offered(i, scope)}

\* resolve_ticket_return_routes: an item without a route is a task, and no obstacle to an export.
Routed(its, scope) ==
  {[i \in Items |-> [its[i] EXCEPT !.route = pick[i]]] :
     pick \in {f \in [Items -> UNION {Routes(its[i], i, scope) : i \in Items}] :
                 \A i \in Items : f[i] \in Routes(its[i], i, scope)}}

-----------------------------------------------------------------------------
(* The ticket *)

BugLocked == ticket
Locked == [ticket EXCEPT !.exportable = FALSE]

\* build_safety_report, as far as the rules decide what it looks at.  A route that is missing is
\* not an obstacle.
Safe(its, quote) ==
  /\ \A i \in Items : its[i].status = "resolved" /\ its[i].row # Nothing
  /\ quote.policy = "resolved"
  /\ quote.scope \in Scopes
  /\ quote.charge \in Charges \ {"manual_confirmation"}

\* validate_and_mark_ready_for_export, of items that may carry a person's choice.  fresh: the
\* copy of the SAP records is recent; rest: the contact, the addresses, the sender of the mail,
\* the failure and the lengths of all of them.
Validate(its) ==
  LET decided == Report(its)
      quote == Pricing(decided)
  IN  \E fresh, rest \in BOOLEAN :
        IF fresh /\ Resolved(decided) = Items
        THEN /\ items' \in Routed(decided, quote.scope)
             /\ ticket' = [quote EXCEPT !.exportable = rest /\ Safe(decided, quote)]
        ELSE items' = decided /\ ticket' = Locked

MarkReadyForExport == Validate(items) /\ UNCHANGED <<tables, changes>>

\* validate_ticket_sn: the first part alone.
ValidateTicketSn ==
  /\ items' = Report(items) /\ ticket' = Locked
  /\ UNCHANGED <<tables, changes>>

\* A person chooses for all ambiguous items, among candidates that still are; then the gate.
SelectRecords ==
  /\ \E i \in Items : items[i].status = "ambiguous"
  /\ \E chosen \in [{i \in Items : items[i].status = "ambiguous"} -> Rows] :
       /\ \A i \in DOMAIN chosen : /\ chosen[i] \in items[i].among \cap Favourite(i)
                                   /\ Cardinality(Favourite(i)) > 1
       /\ Validate([i \in Items |-> IF i \in DOMAIN chosen
                                    THEN Take(items[i], chosen[i], TRUE) ELSE items[i]])
  /\ Changed /\ UNCHANGED tables

\* POST policy/resolve and return-routes/resolve.
ResolvePolicy ==
  /\ ticket' = Pricing(items)
  /\ UNCHANGED <<tables, items, changes>>

ResolveTicketRoutes ==
  /\ items' \in Routed(items, ticket.scope) /\ ticket' = Locked
  /\ UNCHANGED <<tables, changes>>

\* POST return-route/manual: all complete active cards of the place give one address.
SelectRoute(i) ==
  /\ \E place \in {"beijing", "tianjin"} :
       LET there == {k \in Cards : Active(k) /\ cards[k].complete /\ cards[k].location = place}
       IN  /\ OneWay(there)
           /\ \E k \in there : items' = [items EXCEPT ![i].route = RouteOf(k, TRUE)]
  /\ ticket' = Locked /\ Changed /\ UNCHANGED tables

\* POST policy/manual-override.
Override ==
  /\ \E charge \in Charges, scope \in Scopes \cup {ticket.scope} :
       ticket' = [Locked EXCEPT !.charge = charge, !.scope = scope, !.confirmed = TRUE,
                                !.policy = IF charge = "manual_confirmation"
                                           THEN "needs_manual" ELSE "resolved"]
  /\ Changed /\ UNCHANGED <<tables, items>>

-----------------------------------------------------------------------------
(* The tables: the synchronisation, the import tools and jobs change them, and so does whoever  *)
(* maintains them with these services; the routes for it answer 405 (_enforce_admin_read_only). *)

ChangeRow(r) ==
  /\ \E data \in AssetData \cup {Nothing} : rows' = [rows EXCEPT ![r] = data]
  /\ Changed /\ UNCHANGED <<policies, cards, items, ticket>>

\* create_policy and update_policy: an active policy has a scope; nothing else is compared.
SavePolicy(p) ==
  /\ \E data \in PolicyData : /\ data.active => data.scope # "none"
                              /\ policies' = [policies EXCEPT ![p] = data]
  /\ Changed /\ UNCHANGED <<rows, cards, items, ticket>>

DeletePolicy(p) ==
  /\ policies[p] # Nothing /\ ticket.by # p
  /\ policies' = [policies EXCEPT ![p] = Nothing]
  /\ Changed /\ UNCHANGED <<rows, cards, items, ticket>>

\* update_board_card compares with no other card.
UpdateCard(k) ==
  /\ cards[k] # Nothing
  /\ \E data \in CardData : cards' = [cards EXCEPT ![k] = data]
  /\ Changed /\ UNCHANGED <<rows, policies, items, ticket>>

SameKey(a, b) ==
  a.code = b.code /\ a.name = b.name /\ a.scope = b.scope /\ a.kind = b.kind

\* import_board_cards: what a table may become by one card.  A file is refused when its active
\* domestic cards send a code to two places, else its cards are taken one after the other.
Imported(table, data) ==
  LET default(d) == d.active /\ d.scope = "overseas" /\ d.kind = "scope_default"
      known == {k \in Cards : table[k] # Nothing /\ SameKey(table[k], data)}
      free == {k \in Cards : table[k] = Nothing}
  IN  {[table EXCEPT ![k] = data] :
         k \in IF default(data) /\ \E o \in Cards : /\ table[o] # Nothing /\ default(table[o])
                                                   /\ ~SameKey(table[o], data)
               THEN {} ELSE IF known # {} THEN known ELSE free}

ImportCard(data) ==
  /\ cards' \in Imported(cards, data)
  /\ Changed /\ UNCHANGED <<rows, policies, items, ticket>>

\* tools/import_field_alignment_data adds to its file the default for customers overseas: the
\* address of the first complete card of the file that sends a board to Beijing.
Overseas(data) ==
  [data EXCEPT !.scope = "overseas", !.kind = "scope_default", !.active = TRUE,
               !.code = "*", !.name = "OVERSEAS_DEFAULT_BEIJING"]

AlignCards(data) ==
  /\ data.location = "beijing" /\ data.complete
  /\ \E table \in Imported(cards, data) : cards' \in Imported(table, Overseas(data))
  /\ Changed /\ UNCHANGED <<rows, policies, items, ticket>>

\* The lists tools/import_customer_policies accepts: each customer once, in a known region.
Lists == UNION {[S -> Scopes] : S \in SUBSET DOMAIN DefaultOf}

DefaultPolicy(customer, scope) ==
  [active |-> TRUE, customer |-> customer, scope |-> scope, forced |-> FALSE,
   charge |-> IF scope = "domestic" THEN "chargeable" ELSE "manual_confirmation"]

\* A customer with another policy keeps it; it only gets the scope where it has none.
HasOther(customer) == Candidates(customer) \ {DefaultOf[customer]} # {}

Planned(list, p) ==
  LET row == policies[p]
      kept == row # Nothing /\ row.active /\ row.scope = "none" /\ row.customer \in DOMAIN list
  IN  IF \E c \in DOMAIN list : DefaultOf[c] = p /\ ~HasOther(c)
      THEN LET c == CHOOSE o \in DOMAIN list : DefaultOf[o] = p IN DefaultPolicy(c, list[c])
      ELSE IF kept /\ HasOther(row.customer) THEN [row EXCEPT !.scope = list[row.customer]]
      ELSE row

ImportPolicies(list) ==
  /\ policies' = [p \in Policies |-> Planned(list, p)]
  /\ Changed /\ UNCHANGED <<rows, cards, items, ticket>>

DeleteCard(k) ==
  /\ cards[k] # Nothing /\ \A i \in Items : items[i].route.card # k
  /\ cards' = [cards EXCEPT ![k] = Nothing]
  /\ Changed /\ UNCHANGED <<rows, policies, items, ticket>>

Decisions ==
  \/ MarkReadyForExport \/ ValidateTicketSn \/ SelectRecords \/ ResolvePolicy
  \/ ResolveTicketRoutes \/ Override
  \/ \E i \in Items : SelectRoute(i)

Maintenance ==
  \/ \E r \in Rows : ChangeRow(r)
  \/ \E p \in Policies : SavePolicy(p) \/ DeletePolicy(p)
  \/ \E k \in Cards : UpdateCard(k) \/ DeleteCard(k)
  \/ \E data \in CardData : ImportCard(data) \/ AlignCards(data)
  \/ \E list \in Lists : ImportPolicies(list)

RulesNext ==
  \/ Decisions
  \/ Maintenance /\ tables' # tables

RulesSpec == RulesInit /\ [][RulesNext]_rulesVars

-----------------------------------------------------------------------------
(* Properties *)

\* No other usable row of the serial number has as good a claim as the one that was taken.
Unrivalled(i) ==
  LET mine == rows[items[i].row] IN
  /\ mine.valid /\ mine.ends # 0 /\ mine.kind # "semi"
  /\ \A r \in Rows \ {items[i].row} :
       Holds[r] = i /\ rows[r] # Nothing /\ rows[r].valid =>
         \/ rows[r].ends < mine.ends
         \/ rows[r].kind = "semi"
         \/ mine.kind = "a" /\ rows[r].kind # "a"
         \/ items[i].manual

\* No other active policy of the customer, and none that asks for a person.
OnlyPolicy ==
  \A p \in Policies :
    policies[p] # Nothing /\ policies[p].active /\ policies[p].customer = ticket.of
      => p = ticket.by /\ ~policies[p].forced

\* Every card that would serve the item as well sends the board to the same address.
OneAddress(i) ==
  LET mine == cards[items[i].route.card] IN
  items[i].route.card # Nothing /\ ~items[i].route.manual =>
    \A k \in Cards :
      /\ Active(k) /\ cards[k].scope = ticket.scope /\ cards[k].kind = mine.kind
      /\ ticket.scope = "domestic" =>
           cards[k].code = mine.code /\ (mine.name = Board[i].name => cards[k].name = mine.name)
      => cards[k].location = items[i].route.location /\ cards[k].address = items[i].route.address

\* A ticket becomes exportable only on decisions the tables leave no choice about: neither the
\* order of rows in an answer nor the first of several matches decides who pays, for which SAP
\* record, or where a customer's board is sent.
NeverGuesses ==
  [][ticket'.exportable /\ UNCHANGED tables
       => (OnlyPolicy /\ \A i \in Items : Unrivalled(i) /\ OneAddress(i))']_rulesVars

\* While a ticket may be exported, its quote belongs to the records its items stand for: the
\* policy is one of the customer who owns every item, and a free repair is one under warranty or
\* one the policy gives.  A validation of the serial numbers alone may replace the records.
QuoteFitsItems ==
  ticket.exportable =>
    \A i \in Items : /\ items[i].status = "resolved" /\ items[i].data.customer = ticket.of
                     /\ InWarranty(items[i].data) = ticket.warranty

\* What an operator confirmed for a ticket is what the ticket is exported with.
ConfirmedStands ==
  [][ticket.confirmed /\ ticket'.exportable
       => ticket'.charge = ticket.charge /\ ticket'.scope = ticket.scope]_rulesVars
=============================================================================
