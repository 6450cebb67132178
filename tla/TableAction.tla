----------------------------- MODULE TableAction -----------------------------
(***************************************************************************)
(* The review-first execution of an approved action: proposals are frozen, *)
(* approved or cancelled by web requests (app/agent_execution.py), claimed *)
(* by execution workers under a lease, and carried out against a Google    *)
(* sheet (app/table_actions.py) with one append and a read-back.           *)
(*                                                                         *)
(* An element of Actions is one idempotency key: for a table action the    *)
(* tracking key of a task and a destination, for the demo tool the key the *)
(* browser sent.  All table actions share one configured destination.      *)
(* Each analysis of an email makes a task of its own, and with it a key.   *)
(* Ids are taken to be given once, as MySQL does: SQLite may give the id   *)
(* of a deleted last row again.                                            *)
(* Plan hashes, approval tokens and the plan's allow-list are correct by   *)
(* construction here: a request with a wrong one changes nothing.  The     *)
(* model starts with no action of an earlier version of the program.       *)
(***************************************************************************)
EXTENDS Integers, FiniteSets

CONSTANTS
    Actions,        \* idempotency keys
    TableActions,   \* those that append a table row; the others run the demo tool
    Older,          \* of an action: those of earlier analyses of its email
    NoAction,       \* what an idle worker or web request works on
    Workers,        \* execution workers
    Requests,       \* web requests in progress at once
    Schemas,        \* header rows, each with its saved column mapping
    RowNumbers,     \* positions in the sheet
    MaxAttempts,    \* TABLE_MAX_ATTEMPTS
    MaxCrashes,     \* bound: worker processes killed
    MaxEdits,       \* bound: steps of the owner of the sheet and its settings
    MayOverrun      \* may a live worker outlast its five-minute lease?

ASSUME ActionsAssumption ==
    /\ TableActions \subseteq Actions
    /\ Older \in [Actions -> SUBSET Actions]
    /\ \A a \in Actions : a \notin Older[a]
    /\ NoAction \notin Actions

ASSUME BoundsAssumption ==
    /\ MaxAttempts \in Nat \ {0}
    /\ MaxCrashes \in Nat
    /\ MaxEdits \in Nat
    /\ RowNumbers \subseteq Nat \ {0}
    /\ MayOverrun \in BOOLEAN

VARIABLES
    row,       \* the executions table, by idempotency key
    event,     \* the newest row of execution_events of each action
    receipts,  \* the action keys in table_append_records
    settings,  \* the table_destinations row
    headers,   \* the header row the sheet has now
    sheet,     \* the rows of the sheet that carry an action's key
    inflight,  \* append calls the provider took but has not applied yet
    web,       \* the web requests in progress
    worker,    \* the execution workers, with the columns each has loaded
    appends,   \* history: append calls issued for each action
    crashes,   \* worker processes killed so far
    edits      \* owner steps so far

db       == <<row, event, receipts>>
owner    == <<settings, headers, edits>>
provider == <<sheet, inflight, appends>>
vars     == <<row, event, receipts, settings, headers, sheet, inflight, web,
              worker, appends, crashes, edits>>

-----------------------------------------------------------------------------
(* States of a row, a request and a worker.                                *)

Terminal == {"succeeded", "completed_verified", "failed",
             "verification_failed", "cancelled"}
Cancellable == {"awaiting_approval", "queued"}
Statuses == Terminal \cup Cancellable \cup {"running", "absent", "deleted"}

(* "held" and "lapsed" are a lease_expires_at in the future and in the     *)
(* past; "none" is NULL.  Attempts beyond the limit are not told apart.    *)
Rows == [status : Statuses, schema : Schemas, approved : BOOLEAN,
         attempts : 0..(MaxAttempts + 1), attempted : BOOLEAN,
         lease : {"none", "held", "lapsed"}]

Events == {"none", "plan_created", "approved", "cancelled", "started",
           "retry_queued", "tool_completed", "failed"}

Cells == {"empty", "approved", "edited"}

WebStages == {"idle", "creating", "approving", "cancelling"}

(* The points between two calls that leave the worker process.             *)
Claiming == {"picked", "claimed"}
Checking == {"ready", "heading", "finding", "found"}
Writing  == {"appending", "rechecking"}
Closing  == {"reading", "verified", "agent", "retry", "refuse", "fail"}
Stages   == {"idle"} \cup Claiming \cup Checking \cup Writing \cup Closing

WorkerStates == [stage : Stages, action : Actions \cup {NoAction},
                 running : BOOLEAN,   \* the loaded status is "running"
                 tried : BOOLEAN,     \* the loaded append_attempted_at is set
                 stored : BOOLEAN,    \* a receipt was visible to its reads
                 number : RowNumbers \cup {0}]  \* the row to read back

IdleWorker == [stage |-> "idle", action |-> NoAction, running |-> FALSE,
               tried |-> FALSE, stored |-> FALSE, number |-> 0]

WebStates == [stage : WebStages, action : Actions \cup {NoAction},
              schema : Schemas]

(* The stages only a table action goes through.                            *)
OnTable == Checking \cup Writing \cup {"reading", "retry", "refuse"}

TypeOK ==
    /\ row \in [Actions -> Rows]
    /\ event \in [Actions -> Events]
    /\ receipts \subseteq TableActions
    /\ settings \in [enabled : BOOLEAN, schema : Schemas]
    /\ headers \in Schemas
    /\ sheet \in [TableActions -> [RowNumbers -> Cells]]
    /\ inflight \in [TableActions -> Nat]
    /\ web \in [Requests -> WebStates]
    /\ worker \in [Workers -> WorkerStates]
    /\ appends \in [TableActions -> Nat]
    /\ crashes \in 0..MaxCrashes
    /\ edits \in 0..MaxEdits
    /\ \A r \in Requests : web[r].stage # "idle" => web[r].action \in Actions
    /\ \A w \in Workers :
         /\ worker[w].stage # "idle" => worker[w].action \in Actions
         /\ worker[w].stage \in OnTable => worker[w].action \in TableActions

Init ==
    /\ \E s \in Schemas :
         /\ row = [a \in Actions |->
                     [status |-> "absent", schema |-> s, approved |-> FALSE,
                      attempts |-> 0, attempted |-> FALSE, lease |-> "none"]]
         /\ settings = [enabled |-> TRUE, schema |-> s]
         /\ headers = s
         /\ web = [r \in Requests |->
                     [stage |-> "idle", action |-> NoAction, schema |-> s]]
    /\ event = [a \in Actions |-> "none"]
    /\ receipts = {}
    /\ sheet = [a \in TableActions |-> [n \in RowNumbers |-> "empty"]]
    /\ inflight = [a \in TableActions |-> 0]
    /\ worker = [w \in Workers |-> IdleWorker]
    /\ appends = [a \in TableActions |-> 0]
    /\ crashes = 0
    /\ edits = 0

-----------------------------------------------------------------------------
(* Web requests.  Each one reads the row, does slow work, then commits.    *)

Exists(a) == row[a].status \notin {"absent", "deleted"}

(* owned_destination and validate_destination: the destination is enabled  *)
(* and configured the way the plan was frozen.                             *)
DestinationValid(a) == settings.enabled /\ settings.schema = row[a].schema

(* The task of the action is the one its email has now.                    *)
Current(a) == /\ row[a].status # "deleted"
              /\ \A b \in Older[a] : row[b].status = "deleted"

SetRow(a, columns) == row' = [row EXCEPT ![a] = columns]
SetWeb(r, state)   == web' = [web EXCEPT ![r] = state]

RequestEnds(r) ==
    SetWeb(r, [web[r] EXCEPT !.stage = "idle", !.action = NoAction])

(* create_execution up to the plan.  An existing row is returned as it is; *)
(* a table plan needs an enabled destination whose columns are unchanged.  *)
BeginCreate(r, a) ==
    /\ web[r].stage = "idle"
    /\ row[a].status = "absent" /\ Current(a)
    /\ a \in TableActions => settings.enabled /\ headers = settings.schema
    /\ SetWeb(r, [stage |-> "creating", action |-> a,
                  schema |-> settings.schema])
    /\ UNCHANGED <<db, owner, provider, worker, crashes>>

(* The insert of create_execution.  The unique key refuses a second row    *)
(* and the request then answers with the first one.                        *)
CommitCreate(r) ==
    LET a == web[r].action IN
    /\ web[r].stage = "creating"
    /\ RequestEnds(r)
    /\ \/ /\ row[a].status = "absent"
          /\ SetRow(a, [row[a] EXCEPT !.status = "awaiting_approval",
                                      !.schema = web[r].schema])
          /\ event' = [event EXCEPT ![a] = "plan_created"]
       \/ row[a].status # "absent" /\ UNCHANGED <<row, event>>
    /\ UNCHANGED <<receipts, owner, provider, worker, crashes>>

(* approve_execution up to its conditional UPDATE.                         *)
BeginApprove(r, a) ==
    /\ web[r].stage = "idle"
    /\ row[a].status = "awaiting_approval"
    /\ a \in TableActions => DestinationValid(a)
    /\ SetWeb(r, [web[r] EXCEPT !.stage = "approving", !.action = a])
    /\ UNCHANGED <<db, owner, provider, worker, crashes>>

(* Fault: the UPDATE names the row by its id alone.                         *)
CommitApproveById(r) ==
    LET a == web[r].action IN
    /\ web[r].stage = "approving"
    /\ RequestEnds(r)
    /\ SetRow(a, [row[a] EXCEPT !.status = "queued", !.approved = TRUE])
    /\ event' = [event EXCEPT ![a] = "approved"]
    /\ UNCHANGED <<receipts, owner, provider, worker, crashes>>

CommitApprove(r) ==
    LET a == web[r].action IN
    /\ web[r].stage = "approving"
    /\ RequestEnds(r)
    /\ \/ /\ row[a].status = "awaiting_approval" /\ ~row[a].approved
          /\ SetRow(a, [row[a] EXCEPT !.status = "queued", !.approved = TRUE])
          /\ event' = [event EXCEPT ![a] = "approved"]
       \/ /\ row[a].status # "awaiting_approval" \/ row[a].approved
          /\ UNCHANGED <<row, event>>
    /\ UNCHANGED <<receipts, owner, provider, worker, crashes>>

(* cancel_execution up to its conditional UPDATE.                          *)
BeginCancel(r, a) ==
    /\ web[r].stage = "idle"
    /\ row[a].status \in Cancellable
    /\ SetWeb(r, [web[r] EXCEPT !.stage = "cancelling", !.action = a])
    /\ UNCHANGED <<db, owner, provider, worker, crashes>>

(* Fault: the UPDATE names the row by its id alone.                         *)
CommitCancelById(r) ==
    LET a == web[r].action IN
    /\ web[r].stage = "cancelling"
    /\ RequestEnds(r)
    /\ SetRow(a, [row[a] EXCEPT !.status = "cancelled"])
    /\ event' = [event EXCEPT ![a] = "cancelled"]
    /\ UNCHANGED <<receipts, owner, provider, worker, crashes>>

CommitCancel(r) ==
    LET a == web[r].action IN
    /\ web[r].stage = "cancelling"
    /\ RequestEnds(r)
    /\ \/ /\ row[a].status \in Cancellable
          /\ SetRow(a, [row[a] EXCEPT !.status = "cancelled"])
          /\ event' = [event EXCEPT ![a] = "cancelled"]
       \/ row[a].status \notin Cancellable /\ UNCHANGED <<row, event>>
    /\ UNCHANGED <<receipts, owner, provider, worker, crashes>>

(* Fault: deleting an execution cascades over its receipt.                  *)
ReanalyzeAnyway(a) ==
    /\ Current(a)
    /\ SetRow(a, [row[a] EXCEPT !.status = "deleted", !.lease = "none"])
    /\ event' = [event EXCEPT ![a] = "none"]
    /\ UNCHANGED <<receipts, owner, provider, web, worker, crashes>>

(* analyze_email(force=True): the email's task is deleted with its         *)
(* executions and their events, and the next one takes its place.  A       *)
(* receipt's foreign key refuses it.                                       *)
Reanalyze(a) ==
    /\ Current(a)
    /\ a \notin receipts
    /\ SetRow(a, [row[a] EXCEPT !.status = "deleted", !.lease = "none"])
    /\ event' = [event EXCEPT ![a] = "none"]
    /\ UNCHANGED <<receipts, owner, provider, web, worker, crashes>>

-----------------------------------------------------------------------------
(* The worker: claim.                                                      *)

(* Fault: any running row is taken over.                                    *)
ClaimableRunning(a) == row[a].status \in {"queued", "running"}

(* Fault: a row whose worker died is never taken over.                      *)
ClaimableQueued(a) == row[a].status = "queued"

Claimable(a) ==
    \/ row[a].status = "queued"
    \/ row[a].status = "running" /\ row[a].lease = "lapsed"

SetWorker(w, state) == worker' = [worker EXCEPT ![w] = state]
Goto(w, stage) == SetWorker(w, [worker[w] EXCEPT !.stage = stage])
Return(w)      == SetWorker(w, IdleWorker)

(* The SELECT of process_next_execution.  It takes the lowest id; ids      *)
(* follow the order of preparation, which the model leaves open.           *)
Pick(w, a) ==
    /\ worker[w].stage = "idle"
    /\ Claimable(a)
    /\ SetWorker(w, [worker[w] EXCEPT !.stage = "picked", !.action = a])
    /\ UNCHANGED <<db, owner, provider, web, crashes>>

(* attempt_count + 1, up to the first value beyond the limit.              *)
Counted(attempts) == IF attempts > MaxAttempts THEN attempts ELSE attempts + 1

(* The conditional UPDATE, on the condition the SELECT used.               *)
Claim(w) ==
    LET a == worker[w].action IN
    /\ worker[w].stage = "picked"
    /\ \/ /\ Claimable(a)
          /\ SetRow(a, [row[a] EXCEPT
                          !.status = "running", !.lease = "held",
                          !.attempts = Counted(row[a].attempts)])
          /\ Goto(w, "claimed")
       \/ ~Claimable(a) /\ Return(w) /\ UNCHANGED row
    /\ UNCHANGED <<event, receipts, owner, provider, web, crashes>>

(* Fault: the retry limit is not checked at the start of a run.             *)
LoadUnlimited(w) ==
    LET a == worker[w].action IN
    /\ worker[w].stage = "claimed"
    /\ SetWorker(w, [worker[w] EXCEPT
                       !.stage = IF a \in TableActions THEN "ready" ELSE "agent",
                       !.running = TRUE, !.tried = row[a].attempted])
    /\ event' = [event EXCEPT ![a] = "started"]
    /\ UNCHANGED <<row, receipts, owner, provider, web, crashes>>

(* The claimed row is loaded once for the whole run; the authorization     *)
(* checks follow and, when they pass, the "started" event is committed.    *)
Load(w) ==
    LET a == worker[w].action
        next == IF a \in TableActions /\ row[a].attempts > MaxAttempts
                  THEN "refuse"
                ELSE IF ~row[a].approved THEN "fail"
                ELSE IF a \in TableActions THEN "ready" ELSE "agent"
    IN
    /\ worker[w].stage = "claimed"
    /\ \/ row[a].status = "deleted" /\ Return(w) /\ UNCHANGED event
       \/ /\ row[a].status # "deleted"
          /\ SetWorker(w, [worker[w] EXCEPT
                             !.stage = next,
                             !.running = (row[a].status = "running"),
                             !.tried = row[a].attempted])
          /\ event' = IF next \in {"ready", "agent"}
                        THEN [event EXCEPT ![a] = "started"] ELSE event
    /\ UNCHANGED <<row, receipts, owner, provider, web, crashes>>

-----------------------------------------------------------------------------
(* The worker: execute_table_plan.  Every call to the provider may fail.   *)

Empty(a) == {n \in RowNumbers : sheet[a][n] = "empty"}
Keyed(a) == RowNumbers \ Empty(a)

(* A new row goes below the others.                                        *)
FirstEmpty(a, n) == n \in Empty(a) /\ \A m \in Empty(a) : n <= m

(* The destination and the frozen row are validated on the loaded columns. *)
(* Under MySQL's snapshot reads this is also where the transaction's view  *)
(* of table_append_records may be taken.                                   *)
Validate(w) ==
    LET a == worker[w].action IN
    /\ worker[w].stage = "ready"
    /\ \E next \in IF DestinationValid(a) /\ worker[w].running
                     THEN {"heading", "refuse", "fail"} ELSE {"refuse"} :
         SetWorker(w, [worker[w] EXCEPT !.stage = next,
                                        !.stored = (a \in receipts)])
    /\ UNCHANGED <<db, owner, provider, web, crashes>>

CheckHeaders(w) ==
    LET a == worker[w].action IN
    /\ worker[w].stage = "heading"
    /\ \/ headers = row[a].schema /\ Goto(w, "finding")
       \/ headers # row[a].schema /\ Goto(w, "refuse")
       \/ Goto(w, "retry")
    /\ UNCHANGED <<db, owner, provider, web, crashes>>

(* find_key, as the three ways its caller can go on.                       *)
KeyAt(a, n)  == Keyed(a) = {n}
KeyMissing(a) == Keyed(a) = {}
KeyRepeated(a) == \E m, n \in Keyed(a) : m # n

FindKey(w) ==
    LET a == worker[w].action IN
    /\ worker[w].stage = "finding"
    /\ \/ KeyMissing(a) /\ Goto(w, "found")
       \/ \E n \in RowNumbers :
            /\ KeyAt(a, n)
            /\ SetWorker(w, [worker[w] EXCEPT !.stage = "found", !.number = n])
       \/ KeyRepeated(a) /\ Goto(w, "refuse")
       \/ Goto(w, "retry")
    /\ UNCHANGED <<db, owner, provider, web, crashes>>

(* Fault: an uncertain append is repeated.                                  *)
AfterFindAgain(w, stored) ==
    IF worker[w].number # 0 THEN "reading"
    ELSE IF stored THEN "refuse"
    ELSE "appending"

(* What execute_table_plan does next once it knows whether the key is in   *)
(* the sheet and whether a receipt is stored.                              *)
AfterFind(w, stored) ==
    IF worker[w].number # 0 THEN "reading"
    ELSE IF stored THEN "refuse"
    ELSE IF worker[w].tried \/ ~Exists(worker[w].action) THEN "retry"
    ELSE "appending"

(* Fault: the attempt marker waits for the commit after the append.         *)
DecideUnmarked(w) ==
    /\ worker[w].stage = "found"
    /\ Goto(w, AfterFind(w, worker[w].stored))
    /\ UNCHANGED <<db, owner, provider, web, crashes>>

(* The receipt is looked up, in the snapshot or as it is now, and the      *)
(* attempt marker is committed before the append.  A row deleted in        *)
(* between makes that commit fail, which counts as a provider failure.     *)
Decide(w) ==
    LET a == worker[w].action IN
    /\ worker[w].stage = "found"
    /\ \E stored \in {worker[w].stored, a \in receipts} :
         /\ SetWorker(w, [worker[w] EXCEPT !.stage = AfterFind(w, stored),
                                           !.stored = stored])
         /\ IF AfterFind(w, stored) = "appending"
              THEN SetRow(a, [row[a] EXCEPT !.attempted = TRUE])
              ELSE UNCHANGED row
    /\ UNCHANGED <<event, receipts, owner, provider, web, crashes>>

(* append_row: it returns the number of the new row, or it raises and the  *)
(* request was lost, was applied, or is still on its way.                  *)
AppendRow(w) ==
    LET a == worker[w].action IN
    /\ worker[w].stage = "appending"
    /\ appends' = [appends EXCEPT ![a] = @ + 1]
    /\ \/ \E n \in RowNumbers :
            /\ FirstEmpty(a, n)
            /\ sheet' = [sheet EXCEPT ![a][n] = "approved"]
            /\ \/ SetWorker(w, [worker[w] EXCEPT !.stage = "reading", !.number = n])
               \/ Goto(w, "rechecking")
            /\ UNCHANGED inflight
       \/ /\ inflight' = [inflight EXCEPT ![a] = @ + 1]
          /\ Goto(w, "rechecking") /\ UNCHANGED sheet
       \/ Goto(w, "rechecking") /\ UNCHANGED <<sheet, inflight>>
    /\ UNCHANGED <<db, owner, web, crashes>>

(* The search after an append that raised.                                 *)
Recheck(w) ==
    LET a == worker[w].action IN
    /\ worker[w].stage = "rechecking"
    /\ \/ \E n \in RowNumbers :
            /\ KeyAt(a, n)
            /\ SetWorker(w, [worker[w] EXCEPT !.stage = "reading", !.number = n])
       \/ KeyRepeated(a) /\ Goto(w, "refuse")
       \/ Goto(w, "retry")
    /\ UNCHANGED <<db, owner, provider, web, crashes>>

ReadBack(w) ==
    LET a == worker[w].action IN
    /\ worker[w].stage = "reading"
    /\ \/ sheet[a][worker[w].number] = "approved" /\ Goto(w, "verified")
       \/ sheet[a][worker[w].number] # "approved" /\ Goto(w, "refuse")
       \/ Goto(w, "retry")
    /\ UNCHANGED <<db, owner, provider, web, crashes>>

(* agent_runner of the demo tool returns or raises.                        *)
RunAgent(w) ==
    /\ worker[w].stage = "agent"
    /\ \E next \in {"verified", "fail"} : Goto(w, next)
    /\ UNCHANGED <<db, owner, provider, web, crashes>>

-----------------------------------------------------------------------------
(* The worker: the outcome is written without looking at the lease.        *)

Ends(a, status, what) ==
    /\ SetRow(a, [row[a] EXCEPT !.status = status, !.lease = "none"])
    /\ event' = [event EXCEPT ![a] = what]

(* The receipt of this run would be the second one for its key.            *)
Repeats(w) == /\ worker[w].action \in receipts
              /\ ~worker[w].stored

(* The last commit of a run that was verified.                             *)
Complete(w) ==
    LET a == worker[w].action IN
    /\ worker[w].stage = "verified"
    /\ Exists(a) /\ ~Repeats(w)
    /\ \/ /\ a \in TableActions
          /\ Ends(a, "completed_verified", "tool_completed")
          /\ receipts' = receipts \cup {a}
       \/ /\ a \notin TableActions
          /\ Ends(a, "succeeded", "tool_completed")
          /\ UNCHANGED receipts
    /\ Return(w)
    /\ UNCHANGED <<owner, provider, web, crashes>>

(* Fault: the name of the event becomes the status.                        *)
RetryMislabelled(w) ==
    LET a == worker[w].action IN
    /\ worker[w].stage = "retry"
    /\ Exists(a)
    /\ \/ row[a].attempts < MaxAttempts /\ Ends(a, "retry_queued", "retry_queued")
       \/ row[a].attempts >= MaxAttempts /\ Ends(a, "failed", "failed")
    /\ Return(w)
    /\ UNCHANGED <<receipts, owner, provider, web, crashes>>

(* TableTransientError: back to the queue while attempts are left.         *)
Retry(w) ==
    LET a == worker[w].action IN
    /\ worker[w].stage = "retry"
    /\ Exists(a)
    /\ \/ row[a].attempts < MaxAttempts /\ Ends(a, "queued", "retry_queued")
       \/ row[a].attempts >= MaxAttempts /\ Ends(a, "failed", "failed")
    /\ Return(w)
    /\ UNCHANGED <<receipts, owner, provider, web, crashes>>

(* Every other exception; a ValueError of a table action is "refuse".      *)
Fail(w) ==
    LET a == worker[w].action IN
    /\ worker[w].stage \in {"refuse", "fail"}
    /\ Exists(a)
    /\ Ends(a, IF worker[w].stage = "refuse" THEN "verification_failed"
                                             ELSE "failed", "failed")
    /\ Return(w)
    /\ UNCHANGED <<receipts, owner, provider, web, crashes>>

(* The last commit is outside the handlers: a row that is gone or a second *)
(* receipt ends the process.  Its container starts a new one.              *)
Die(w) ==
    /\ \/ worker[w].stage \in {"verified", "retry", "refuse", "fail"}
          /\ ~Exists(worker[w].action)
       \/ worker[w].stage = "verified" /\ Repeats(w)
    /\ Return(w)
    /\ UNCHANGED <<db, owner, provider, web, crashes>>

WorkerStep(w) ==
    \/ \E a \in Actions : Pick(w, a)
    \/ Claim(w) \/ Load(w)
    \/ Validate(w) \/ CheckHeaders(w) \/ FindKey(w) \/ Decide(w)
    \/ AppendRow(w) \/ Recheck(w) \/ ReadBack(w) \/ RunAgent(w)
    \/ Complete(w) \/ Retry(w) \/ Fail(w) \/ Die(w)

-----------------------------------------------------------------------------
(* The environment: killed workers, time, the provider and the owner.      *)

(* The process is killed between two calls and started again.              *)
Crash(w) ==
    /\ crashes < MaxCrashes
    /\ worker[w].stage # "idle"
    /\ crashes' = crashes + 1
    /\ Return(w)
    /\ UNCHANGED <<db, owner, provider, web>>

(* A worker holds a claimed row until it returns to its loop.              *)
Holds(w, a) == worker[w].action = a /\ worker[w].stage \notin {"idle", "picked"}

(* EXECUTION_LEASE_MINUTES pass.  No call renews the lease; whether a live *)
(* worker can be that slow is the assumption MayOverrun.                   *)
Lapse(a) ==
    /\ row[a].status = "running" /\ row[a].lease = "held"
    /\ MayOverrun \/ \A w \in Workers : ~Holds(w, a)
    /\ SetRow(a, [row[a] EXCEPT !.lease = "lapsed"])
    /\ UNCHANGED <<event, receipts, owner, provider, web, worker, crashes>>

(* An append whose caller has given up is applied after all.               *)
LandAppend(a) ==
    /\ inflight[a] > 0
    /\ \E n \in RowNumbers :
         /\ FirstEmpty(a, n)
         /\ sheet' = [sheet EXCEPT ![a][n] = "approved"]
    /\ inflight' = [inflight EXCEPT ![a] = @ - 1]
    /\ UNCHANGED <<db, owner, appends, web, worker, crashes>>

OwnerStep ==
    /\ edits < MaxEdits
    /\ edits' = edits + 1
    /\ UNCHANGED <<db, inflight, appends, web, worker, crashes>>

(* The owner changes, deletes, copies or moves a row of the sheet.         *)
EditRow(a, n) ==
    /\ OwnerStep
    /\ sheet[a][n] = "approved"
    /\ \E cell \in {"edited", "empty"} :
         sheet' = [sheet EXCEPT ![a][n] = cell]
    /\ UNCHANGED <<settings, headers>>

CopyRow(a, m, n) ==
    /\ OwnerStep
    /\ m \in Keyed(a) /\ n \in Empty(a)
    /\ \E cell \in {sheet[a][m], "empty"} :
         sheet' = [sheet EXCEPT ![a] = [@ EXCEPT ![n] = sheet[a][m],
                                                ![m] = cell]]
    /\ UNCHANGED <<settings, headers>>

ChangeHeaders(s) ==
    /\ OwnerStep
    /\ headers # s
    /\ headers' = s
    /\ UNCHANGED <<settings, sheet>>

(* save_table stores the columns it has just inspected.                    *)
SaveTable(enabled) ==
    /\ OwnerStep
    /\ settings' = [enabled |-> enabled, schema |-> headers]
    /\ UNCHANGED <<headers, sheet>>

DisableTable ==
    /\ OwnerStep
    /\ settings' = [settings EXCEPT !.enabled = FALSE]
    /\ UNCHANGED <<headers, sheet>>

Next ==
    \/ \E r \in Requests :
         \/ \E a \in Actions :
              BeginCreate(r, a) \/ BeginApprove(r, a) \/ BeginCancel(r, a)
         \/ CommitCreate(r) \/ CommitApprove(r) \/ CommitCancel(r)
    \/ \E a \in Actions : Reanalyze(a) \/ Lapse(a)
    \/ \E w \in Workers : WorkerStep(w) \/ Crash(w)
    \/ \E a \in TableActions :
         \/ LandAppend(a)
         \/ \E n \in RowNumbers :
              EditRow(a, n) \/ \E m \in RowNumbers : CopyRow(a, m, n)
    \/ \E s \in Schemas : ChangeHeaders(s)
    \/ \E enabled \in BOOLEAN : SaveTable(enabled)
    \/ DisableTable

Spec == Init /\ [][Next]_vars

(* A worker keeps looping and a clock keeps running.  Requests, the owner  *)
(* and an append on its way are promised nothing.                          *)
FairSpec ==
    /\ Spec
    /\ \A w \in Workers : WF_vars(WorkerStep(w))
    /\ \A a \in Actions : WF_vars(Lapse(a))

-----------------------------------------------------------------------------
(* Properties.                                                             *)

(* "Approve and add row once": however workers crash, time out and retry,  *)
(* the append call of an approved action is issued at most once.           *)
AtMostOneAppend == \A a \in TableActions : appends[a] <= 1

(* The lease of process_next_execution is a lock: no two workers are       *)
(* between their claims of a row and the writes of its outcome.            *)
OneHolder ==
    \A a \in Actions : \A v, w \in Workers :
        Holds(v, a) /\ Holds(w, a) => v = w

(* A row reaches the sheet only after the user's approval and after the    *)
(* attempt marker is durable, also when the lease does not hold and when   *)
(* the execution was deleted meanwhile.                                    *)
AppendIsMarked ==
    \A a \in TableActions :
        appends[a] > 0 => row[a].approved /\ row[a].attempted

(* A receipt is stored for exactly the actions that are shown as verified, *)
(* and each of them had its row appended by this program.                  *)
ReceiptIffVerified ==
    \A a \in TableActions :
        /\ a \in receipts <=> row[a].status = "completed_verified"
        /\ a \in receipts => appends[a] > 0

(* An email is recorded in the table at most once, however often it is     *)
(* analyzed again and whatever workers still do for its older tasks: the   *)
(* keys differ, so the unique key on action_key cannot see to it.          *)
OneReceiptPerEmail ==
    \A a \in receipts : Older[a] \cap receipts = {}

(* The audit trail ends the way the row's status says.                     *)
EventsOf(status) ==
    CASE status = "awaiting_approval" -> {"plan_created"}
      [] status = "queued"    -> {"approved", "retry_queued"}
      [] status = "running"   -> {"approved", "retry_queued", "started"}
      [] status \in {"succeeded", "completed_verified"} -> {"tool_completed"}
      [] status \in {"failed", "verification_failed"}   -> {"failed"}
      [] status = "cancelled" -> {"cancelled"}
      [] OTHER -> {"none"}

TrailMatchesStatus == \A a \in Actions : event[a] \in EventsOf(row[a].status)

(* Without the lease the retry limit still bounds the damage: an action    *)
(* appends at most TABLE_MAX_ATTEMPTS rows, and no receipt lacks a row.    *)
AppendsBounded ==
    \A a \in TableActions :
        /\ appends[a] <= MaxAttempts
        /\ a \in receipts => appends[a] > 0

(* The message of the "cancelled" event: "Execution cancelled before tool  *)
(* execution."                                                             *)
CancelledBeforeToolExecution ==
    \A a \in TableActions : row[a].status = "cancelled" => appends[a] = 0

(* An approved action does not stay queued or running for ever: it ends in *)
(* a terminal status, or its task is analyzed again.                       *)
ApprovedSettles ==
    \A a \in Actions :
        row[a].status = "queued" ~> row[a].status \in Terminal \cup {"deleted"}

(* What the owner of a table is promised, over the same state.             *)
PhaseOf(status) ==
    CASE status = "awaiting_approval" -> "proposed"
      [] status \in {"queued", "running"} -> "approved"
      [] status \in {"succeeded", "completed_verified"} -> "done"
      [] status \in {"failed", "verification_failed"} -> "stopped"
      [] OTHER -> status

Promise == INSTANCE ActionPromise WITH
    phase   <- [a \in Actions |-> PhaseOf(row[a].status)],
    consent <- {a \in Actions : row[a].approved},
    written <- {a \in TableActions : appends[a] > 0}

(* As long as workers keep to their leases, the workers and the requests   *)
(* together behave like the one-step transitions of ActionPromise.         *)
KeepsPromise == Promise!Spec
=============================================================================
