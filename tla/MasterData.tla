----------------------------- MODULE MasterData -----------------------------
(***************************************************************************)
(* The local copy of the SAP serial-number records (sn_assets with         *)
(* source_system = 'sqlserver') and what changes it: the scheduled         *)
(* synchronisation of every process that serves the API, and the offline   *)
(* tool sync_sn_assets_offline.  A scheduler runs one synchronisation at a *)
(* time, but nothing keeps the schedulers of two processes apart, nor the  *)
(* tool, which its own documentation forbids to run beside them: "禁止与   *)
(* 后端定时 SN 同步并发执行".  The routes that would start a synchronisation or edit *)
(* a row by hand answer 405 (_manual_sn_sync_disabled,                     *)
(* _enforce_admin_read_only).                                              *)
(*                                                                         *)
(* A synchronisation is one transaction around a slow call.  Its first     *)
(* SELECT fixes what it will read of the tables (REPEATABLE READ); the     *)
(* answer of the middleware is newer than that; and the ORM writes only    *)
(* the columns that differ from what was read.  The row of the checkpoint  *)
(* is written before the assets, so the writing parts of two               *)
(* synchronisations exclude each other and each is one step here.  The     *)
(* tool streams the source into one transaction of its own: it holds the   *)
(* rows it wrote until it commits, and then all its writes count at once.  *)
(***************************************************************************)
EXTENDS Naturals, FiniteSets

CONSTANTS Processes,    \* the processes that serve the API, each with its scheduler
          Ins,          \* insID: the identity of a record in SAP
          Sns,          \* what the rest of a record says: its serial number
          FirstRecords, \* the records there may be in the beginning
          MaxEvents     \* bound: changes in SAP, failures, deaths and runs of the tool

ASSUME BoundAssumption == MaxEvents \in Nat
ASSUME SnsAssumption == Sns \cap {"absent", "nameless", "uncoded", "none"} = {}

VARIABLES source,       \* SAP's records, see Records
          middleware,   \* what a fetch meets
          assets,       \* the local rows
          syncs,        \* the synchronisations under way
          tool,         \* the run of the offline tool
          events        \* how many of those happened

masterVars == <<source, middleware, assets, syncs, tool, events>>

-----------------------------------------------------------------------------
\* uncoded: the customer's or the material's code is missing; nameless: the serial number is.
Named == Sns \cup {"uncoded"}
Records == Named \cup {"absent", "nameless"}

ASSUME FirstAssumption == FirstRecords \subseteq Records

NoRow == [sn |-> "none", valid |-> FALSE]
AssetRows == [sn : Named, valid : BOOLEAN] \cup {NoRow}
Present(row) == row # NoRow

\* useless: the call fails (SapMiddlewareError), or two records have one insID.  claimed: a serial
\* number of the answer belongs to a local row of the end-to-end tests.
Answers == {"records", "useless", "claimed"}

NotRunning == [at |-> "idle"]
Syncs == {NotRunning} \cup [at : {"fetching"}, read : [Ins -> AssetRows]]
                      \cup [at : {"applying"}, read : [Ins -> AssetRows], batch : [Ins -> Records]]

\* got: what the tool has read so far; whole: it was started without --limit.
Tools == {NotRunning} \cup [at : {"reading"}, whole : BOOLEAN,
                            got : UNION {[S -> Records] : S \in SUBSET Ins}]

Event == events < MaxEvents /\ events' = events + 1

MasterTypeOK ==
  /\ source \in [Ins -> Records] /\ middleware \in Answers
  /\ assets \in [Ins -> AssetRows]
  /\ syncs \in [Processes -> Syncs] /\ tool \in Tools
  /\ events \in 0..MaxEvents

MasterInit ==
  /\ source \in [Ins -> FirstRecords] /\ middleware = "records"
  /\ assets = [i \in Ins |-> NoRow]
  /\ syncs = [r \in Processes |-> NotRunning] /\ tool = NotRunning
  /\ events = 0

-----------------------------------------------------------------------------
(* The synchronisation *)

Complete(batch) == {i \in Ins : batch[i] \in Sns}

\* create_sn_sync_batch up to the call: the new batch and the first SELECT.
Begin(r) ==
  /\ syncs[r] = NotRunning
  /\ syncs' = [syncs EXCEPT ![r] = [at |-> "fetching", read |-> assets]]
  /\ UNCHANGED <<source, middleware, assets, tool, events>>

\* The answers that are applied; every other one fails the batch and changes no asset.
Applicable(batch) == middleware = "records" /\ Complete(batch) # {}

Fetch(r) ==
  /\ syncs[r].at = "fetching"
  /\ syncs' = [syncs EXCEPT ![r] = IF Applicable(source)
                                   THEN [at |-> "applying", read |-> @.read, batch |-> source]
                                   ELSE NotRunning]
  /\ UNCHANGED <<source, middleware, assets, tool, events>>

\* Fault: the set difference is taken the other way round.
BugGone(read, batch) == {i \in Ins : ~Present(read[i]) /\ batch[i] = "absent"}

\* The rows the answer no longer has.  A record that is there without a serial number or a code is
\* protected.
Gone(read, batch) == {i \in Ins : Present(read[i]) /\ batch[i] = "absent"}

\* A second row with an insID is refused (uk_sn_assets_source_ins_id), and the batch with it.
Refused(read, batch) == \E i \in Complete(batch) : ~Present(read[i]) /\ Present(assets[i])

BugMerged(read, batch, i) ==
  CASE i \in Complete(batch) -> [sn |-> batch[i], valid |-> read[i].valid \/ ~Present(read[i])]
    [] i \in Gone(read, batch) -> [assets[i] EXCEPT !.valid = FALSE]
    [] OTHER -> assets[i]

\* A row after the flush: a column is written when its new value differs from the one read.
Merged(read, batch, i) ==
  CASE i \in Complete(batch) ->
         [sn |-> IF read[i].sn = batch[i] THEN assets[i].sn ELSE batch[i],
          valid |-> IF read[i].valid THEN assets[i].valid ELSE TRUE]
    [] i \in Gone(read, batch) ->
         [assets[i] EXCEPT !.valid = IF read[i].valid THEN FALSE ELSE @]
    [] OTHER -> assets[i]

\* The rows it updates: every one of the answer (imported_at is new each time), and those that it
\* takes for valid and that are gone.
Updates(read, batch) == Complete(batch) \cup {i \in Gone(read, batch) : read[i].valid}

\* A row it updates is held by the tool: it waits too long, or is the victim of a deadlock (the
\* tool writes the checkpoint last).
Blocked(r) ==
  /\ tool # NotRunning
  /\ \E i \in Updates(syncs[r].read, syncs[r].batch) :
        i \in DOMAIN tool.got /\ tool.got[i] \in Named

\* apply_sn_sync_batch and the commit, or the rollback of everything.
ApplyBatch(r) ==
  /\ syncs[r].at = "applying"
  /\ assets' = IF Blocked(r) \/ Refused(syncs[r].read, syncs[r].batch) THEN assets
               ELSE [i \in Ins |-> Merged(syncs[r].read, syncs[r].batch, i)]
  /\ syncs' = [syncs EXCEPT ![r] = NotRunning]
  /\ UNCHANGED <<source, middleware, tool, events>>

Die(r) ==
  /\ syncs[r] # NotRunning /\ Event
  /\ syncs' = [syncs EXCEPT ![r] = NotRunning]
  /\ UNCHANGED <<source, middleware, assets, tool>>

Synchronise(r) == Begin(r) \/ Fetch(r) \/ ApplyBatch(r)

-----------------------------------------------------------------------------
(* The offline tool *)

\* It refuses a source without or with doubled insIDs, and one it cannot reach.
ToolBegins ==
  /\ tool = NotRunning /\ Event /\ middleware # "useless"
  /\ \E whole \in BOOLEAN : tool' = [at |-> "reading", got |-> <<>>, whole |-> whole]
  /\ UNCHANGED <<source, middleware, assets, syncs>>

\* stream_upsert_by_key: the rows as they are when the stream comes to them.
ToolReads(i) ==
  /\ tool # NotRunning /\ i \notin DOMAIN tool.got
  /\ tool' = [tool EXCEPT !.got = [j \in DOMAIN @ \cup {i} |-> IF j = i THEN source[i] ELSE @[j]]]
  /\ UNCHANGED <<source, middleware, assets, syncs, events>>

\* _make_row_to_write and _invalidate_missing_sqlserver_rows: a record without a serial number is
\* skipped, one without a code is written and valid, and a whole run invalidates every row it did
\* not write, protected or not.
Streamed(i) ==
  IF i \in DOMAIN tool.got /\ tool.got[i] \in Named THEN [sn |-> tool.got[i], valid |-> TRUE]
  ELSE IF tool.whole /\ Present(assets[i]) THEN [assets[i] EXCEPT !.valid = FALSE]
  ELSE assets[i]

ToolCommits ==
  /\ tool # NotRunning /\ (tool.whole => DOMAIN tool.got = Ins)
  /\ assets' = [i \in Ins |-> Streamed(i)]
  /\ tool' = NotRunning
  /\ UNCHANGED <<source, middleware, syncs, events>>

ToolFails ==
  /\ tool # NotRunning /\ Event
  /\ tool' = NotRunning
  /\ UNCHANGED <<source, middleware, assets, syncs>>

ToolRuns == ToolCommits \/ \E i \in Ins : ToolReads(i)

-----------------------------------------------------------------------------
(* SAP *)

SourceChanges ==
  /\ Event
  /\ \/ /\ \E i \in Ins, record \in Records : source' = [source EXCEPT ![i] = record]
        /\ UNCHANGED middleware
     \/ middleware' \in Answers /\ UNCHANGED source
  /\ UNCHANGED <<assets, syncs, tool>>

MasterNext ==
  \/ \E r \in Processes : Synchronise(r) \/ Die(r)
  \/ ToolBegins \/ ToolRuns \/ ToolFails
  \/ SourceChanges

\* A scheduler starts the next synchronisation after the last one, for ever; a run of the tool
\* reads a finite table and ends.
Fairness == WF_masterVars(ToolRuns) /\ \A r \in Processes : WF_masterVars(Synchronise(r))

MasterSpec == MasterInit /\ [][MasterNext]_masterVars /\ Fairness

-----------------------------------------------------------------------------
(* Properties *)

\* The copy says what SAP says: a complete record has a valid row with its data, a record that
\* is gone has none or an invalid one.
Mirrors ==
  \A i \in Ins : /\ source[i] \in Sns => assets[i] = [sn |-> source[i], valid |-> TRUE]
                 /\ source[i] = "absent" => ~assets[i].valid

Answering == middleware = "records" /\ \E i \in Ins : source[i] \in Sns

\* What is still to be written is what SAP says too: no answer and no part of a stream is older.
UpToDate ==
  /\ \A r \in Processes : syncs[r].at = "applying" => syncs[r].batch = source
  /\ tool # NotRunning => \A i \in DOMAIN tool.got : tool.got[i] = source[i]

\* A copy that says what SAP says is spoiled by no synchronisation and no run of the tool, however
\* old the rows are that it read, unless its answer is older than a change in SAP.
StaysMirrored == [][Mirrors /\ UpToDate /\ UNCHANGED source => (Mirrors /\ UpToDate)']_masterVars

\* Whatever overlapped, died or failed, once SAP answers again with complete records the copy
\* becomes what SAP says and stays so: what a late synchronisation wrote of an older answer, or
\* against an older row, is repaired, and so is what the tool wrote or kept others from writing.
SourceWins == <>[]Answering => <>[]Mirrors
=============================================================================
