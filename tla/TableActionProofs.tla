-------------------------- MODULE TableActionProofs --------------------------
(***************************************************************************)
(* Proofs about TableAction for every set of actions, workers, requests,   *)
(* schemas and row numbers and every bound.                                *)
(***************************************************************************)
EXTENDS TableAction, TLAPS

(* Records with some columns replaced stay well typed.                     *)
LEMMA StatusesHave ==
    /\ {"absent", "deleted", "awaiting_approval", "queued", "running"}
         \cup Terminal \subseteq Statuses
    /\ Terminal = {"succeeded", "completed_verified", "failed",
                   "verification_failed", "cancelled"}
BY DEF Statuses, Terminal, Cancellable

LEMMA StagesHave ==
    {"idle", "picked", "claimed", "ready", "heading", "finding", "found",
     "appending", "rechecking", "reading", "verified", "agent", "retry",
     "refuse", "fail"} \subseteq Stages
BY DEF Stages, Claiming, Checking, Writing, Closing

LEMMA RowColumns ==
    ASSUME NEW x \in Rows, NEW s \in Statuses,
           NEW l \in {"none", "held", "lapsed"}
    PROVE  /\ [x EXCEPT !.status = s] \in Rows
           /\ [x EXCEPT !.status = s, !.approved = TRUE] \in Rows
           /\ [x EXCEPT !.status = s, !.lease = l] \in Rows
           /\ [x EXCEPT !.attempted = TRUE] \in Rows
           /\ [x EXCEPT !.lease = l] \in Rows
           /\ \A c \in Schemas :
                [x EXCEPT !.status = s, !.schema = c] \in Rows
BY DEF Rows

LEMMA CountedRange ==
    ASSUME NEW n \in 0..(MaxAttempts + 1)
    PROVE  Counted(n) \in 0..(MaxAttempts + 1)
BY BoundsAssumption DEF Counted

LEMMA RowClaimed ==
    ASSUME NEW x \in Rows
    PROVE  [x EXCEPT !.status = "running", !.lease = "held",
                     !.attempts = Counted(x.attempts)] \in Rows
<1>1. Counted(x.attempts) \in 0..(MaxAttempts + 1)
  BY CountedRange DEF Rows
<1> DEFINE n == Counted(x.attempts)
<1> HIDE DEF n
<1>2. [x EXCEPT !.status = "running", !.lease = "held", !.attempts = n] \in Rows
  BY <1>1, StatusesHave DEF Rows, n
<1>3. QED
  BY <1>2 DEF n

LEMMA RowStep ==
    ASSUME TypeOK, NEW a, NEW c, a \in Actions => c \in Rows, SetRow(a, c)
    PROVE  row' \in [Actions -> Rows]
BY DEF TypeOK, SetRow

WebTyped ==
    /\ web \in [Requests -> WebStates]
    /\ \A r \in Requests : web[r].stage # "idle" => web[r].action \in Actions

LEMMA WebStep ==
    ASSUME TypeOK, NEW r \in Requests, NEW x \in WebStates,
           x.stage # "idle" => x.action \in Actions, SetWeb(r, x)
    PROVE  WebTyped'
BY DEF TypeOK, SetWeb, WebTyped

(* The worker variable after a step of w that leaves it in state x.        *)
WorkerTyped(x) ==
    /\ x \in WorkerStates
    /\ x.stage # "idle" => x.action \in Actions
    /\ x.stage \in OnTable => x.action \in TableActions

AllWorkersTyped ==
    /\ worker \in [Workers -> WorkerStates]
    /\ \A w \in Workers :
         /\ worker[w].stage # "idle" => worker[w].action \in Actions
         /\ worker[w].stage \in OnTable => worker[w].action \in TableActions

LEMMA WorkerStates1 ==
    ASSUME TypeOK, NEW w \in Workers, NEW x, WorkerTyped(x), SetWorker(w, x)
    PROVE  AllWorkersTyped'
BY DEF TypeOK, SetWorker, WorkerTyped, AllWorkersTyped

(* Every reachable state is well typed.                                    *)
LEMMA TypeInit == Init => TypeOK
<1> SUFFICES ASSUME Init  PROVE TypeOK
  OBVIOUS
<1>1. PICK s \in Schemas :
        /\ row = [a \in Actions |->
                    [status |-> "absent", schema |-> s, approved |-> FALSE,
                     attempts |-> 0, attempted |-> FALSE, lease |-> "none"]]
        /\ settings = [enabled |-> TRUE, schema |-> s]
        /\ headers = s
        /\ web = [r \in Requests |->
                    [stage |-> "idle", action |-> NoAction, schema |-> s]]
  BY DEF Init
<1>2. row \in [Actions -> Rows]
  BY <1>1, StatusesHave, BoundsAssumption DEF Rows
<1>3. /\ web \in [Requests -> WebStates]
      /\ \A r \in Requests : web[r].stage = "idle"
  BY <1>1 DEF WebStates, WebStages
<1>4. WorkerTyped(IdleWorker) /\ IdleWorker.stage = "idle"
  BY StagesHave DEF WorkerTyped, IdleWorker, WorkerStates, OnTable, Checking,
                    Writing
<1>5. AllWorkersTyped
  BY <1>4 DEF Init, WorkerTyped, AllWorkersTyped
<1>6. /\ event \in [Actions -> Events]
      /\ sheet \in [TableActions -> [RowNumbers -> Cells]]
  BY DEF Init, Events, Cells
<1>7. settings \in [enabled : BOOLEAN, schema : Schemas] /\ headers \in Schemas
  BY <1>1
<1>8. /\ receipts \subseteq TableActions
      /\ crashes \in 0..MaxCrashes /\ edits \in 0..MaxEdits
  BY BoundsAssumption DEF Init
<1>9. /\ inflight \in [TableActions -> Nat]
      /\ appends \in [TableActions -> Nat]
  BY DEF Init
<1>10. QED
  BY <1>2, <1>3, <1>5, <1>6, <1>7, <1>8, <1>9 DEF TypeOK, AllWorkersTyped

LEMMA TypeWeb ==
    ASSUME TypeOK, NEW r \in Requests, NEW a \in Actions,
           \/ BeginCreate(r, a) \/ BeginApprove(r, a) \/ BeginCancel(r, a)
           \/ CommitCreate(r) \/ CommitApprove(r) \/ CommitCancel(r)
    PROVE  TypeOK'
<1>1. web[r] \in WebStates /\ settings.schema \in Schemas
  BY DEF TypeOK
<1>2. {"idle", "creating", "approving", "cancelling"} = WebStages
  BY DEF WebStages
<1>3. web[r].schema \in Schemas
  BY <1>1 DEF WebStates
<1>4. ASSUME NEW b \in Actions, NEW s \in Statuses, NEW c \in Schemas
      PROVE  /\ [row[b] EXCEPT !.status = s] \in Rows
             /\ [row[b] EXCEPT !.status = s, !.schema = c] \in Rows
             /\ [row[b] EXCEPT !.status = s, !.approved = TRUE] \in Rows
             /\ [row[b] EXCEPT !.status = s, !.lease = "none"] \in Rows
  BY <1>4, RowColumns DEF TypeOK
<1>5. CASE BeginCreate(r, a)
  <2> DEFINE x == [stage |-> "creating", action |-> a, schema |-> settings.schema]
  <2>1. x \in WebStates /\ x.action \in Actions
    BY <1>1, <1>2 DEF WebStates
  <2>2. WebTyped'
    BY <1>5, <2>1, WebStep DEF BeginCreate
  <2>3. QED
    BY <1>5, <2>2 DEF TypeOK, BeginCreate, WebTyped, db, owner, provider
<1>6. CASE BeginApprove(r, a)
  <2> DEFINE x == [web[r] EXCEPT !.stage = "approving", !.action = a]
  <2>1. x \in WebStates /\ x.action \in Actions
    BY <1>1, <1>2 DEF WebStates
  <2>2. WebTyped'
    BY <1>6, <2>1, WebStep DEF BeginApprove
  <2>3. QED
    BY <1>6, <2>2 DEF TypeOK, BeginApprove, WebTyped, db, owner, provider
<1>7. CASE BeginCancel(r, a)
  <2> DEFINE x == [web[r] EXCEPT !.stage = "cancelling", !.action = a]
  <2>1. x \in WebStates /\ x.action \in Actions
    BY <1>1, <1>2 DEF WebStates
  <2>2. WebTyped'
    BY <1>7, <2>1, WebStep DEF BeginCancel
  <2>3. QED
    BY <1>7, <2>2 DEF TypeOK, BeginCancel, WebTyped, db, owner, provider
<1>8. ASSUME RequestEnds(r)  PROVE WebTyped'
  <2> DEFINE x == [web[r] EXCEPT !.stage = "idle", !.action = NoAction]
  <2>1. x \in WebStates /\ x.stage = "idle"
    BY <1>1, <1>2 DEF WebStates
  <2>2. QED
    BY <1>8, <2>1, WebStep DEF RequestEnds
<1>9. ASSUME NEW b, NEW e \in Events, event' = [event EXCEPT ![b] = e]
      PROVE  event' \in [Actions -> Events]
  BY <1>9 DEF TypeOK
<1>10. {"none", "plan_created", "approved", "cancelled"} \subseteq Events
  BY DEF Events
<1>11. web[r].stage # "idle" => web[r].action \in Actions
  BY DEF TypeOK
<1>12. CASE CommitCreate(r)
  <2>1. row' \in [Actions -> Rows] /\ event' \in [Actions -> Events]
    BY <1>3, <1>4, <1>9, <1>10, <1>11, <1>12, StatusesHave, RowStep
       DEF TypeOK, CommitCreate
  <2>2. QED
    BY <1>8, <1>12, <2>1 DEF TypeOK, CommitCreate, WebTyped, owner, provider
<1>13. CASE CommitApprove(r)
  <2>1. row' \in [Actions -> Rows] /\ event' \in [Actions -> Events]
    BY <1>3, <1>4, <1>9, <1>10, <1>11, <1>13, StatusesHave, RowStep
       DEF TypeOK, CommitApprove
  <2>2. QED
    BY <1>8, <1>13, <2>1 DEF TypeOK, CommitApprove, WebTyped, owner, provider
<1>14. CASE CommitCancel(r)
  <2>1. row' \in [Actions -> Rows] /\ event' \in [Actions -> Events]
    BY <1>3, <1>4, <1>9, <1>10, <1>11, <1>14, StatusesHave, RowStep
       DEF TypeOK, CommitCancel
  <2>2. QED
    BY <1>8, <1>14, <2>1 DEF TypeOK, CommitCancel, WebTyped, owner, provider
<1>15. QED
  BY <1>5, <1>6, <1>7, <1>12, <1>13, <1>14

(* The states a worker can be left in by one of its steps.                 *)
LEMMA WorkerGoes ==
    ASSUME TypeOK, NEW w \in Workers, worker[w].stage # "idle",
           NEW s \in Stages \ {"idle"},
           s \in OnTable => worker[w].action \in TableActions
    PROVE  /\ WorkerTyped([worker[w] EXCEPT !.stage = s])
           /\ \A p, q \in BOOLEAN : WorkerTyped(
                [worker[w] EXCEPT !.stage = s, !.running = p, !.tried = q])
           /\ \A p \in BOOLEAN : WorkerTyped(
                [worker[w] EXCEPT !.stage = s, !.stored = p])
           /\ \A n \in RowNumbers : WorkerTyped(
                [worker[w] EXCEPT !.stage = s, !.number = n])
<1>1. worker[w] \in WorkerStates /\ worker[w].action \in Actions
  BY DEF TypeOK
<1> DEFINE x == worker[w]
<1> HIDE DEF x
<1>2. x \in WorkerStates /\ x.action \in Actions
      /\ (s \in OnTable => x.action \in TableActions)
  BY <1>1 DEF x
<1>3. WorkerTyped([x EXCEPT !.stage = s])
  BY <1>2 DEF WorkerTyped, WorkerStates
<1>4. ASSUME NEW p \in BOOLEAN, NEW q \in BOOLEAN
      PROVE  WorkerTyped([x EXCEPT !.stage = s, !.running = p, !.tried = q])
  BY <1>2 DEF WorkerTyped, WorkerStates
<1>5. ASSUME NEW p \in BOOLEAN
      PROVE  WorkerTyped([x EXCEPT !.stage = s, !.stored = p])
  BY <1>2 DEF WorkerTyped, WorkerStates
<1>6. ASSUME NEW n \in RowNumbers
      PROVE  WorkerTyped([x EXCEPT !.stage = s, !.number = n])
  BY <1>2 DEF WorkerTyped, WorkerStates
<1>7. QED
  BY <1>3, <1>4, <1>5, <1>6 DEF x

LEMMA IdleTyped == WorkerTyped(IdleWorker)
BY StagesHave DEF WorkerTyped, IdleWorker, WorkerStates, OnTable, Checking,
                  Writing

LEMMA OnTableHas ==
    OnTable = {"ready", "heading", "finding", "found", "appending",
               "rechecking", "reading", "retry", "refuse"}
BY DEF OnTable, Checking, Writing

LEMMA TypeWorker ==
    ASSUME TypeOK, NEW w \in Workers, WorkerStep(w)
    PROVE  TypeOK'
<1> DEFINE a == worker[w].action
<1>1. ASSUME NEW s \in Stages \ {"idle"}, worker[w].stage # "idle",
             s \in OnTable => worker[w].action \in TableActions, Goto(w, s)
      PROVE  AllWorkersTyped'
  BY <1>1, WorkerGoes, WorkerStates1 DEF Goto
<1>2. ASSUME Return(w)
      PROVE  AllWorkersTyped'
  BY <1>2, IdleTyped, WorkerStates1 DEF Return
<1>3. worker[w].stage \in OnTable => a \in TableActions
  BY DEF TypeOK
<1>4. ASSUME NEW b \in Actions, Pick(w, b)  PROVE TypeOK'
  <2> DEFINE x == [worker[w] EXCEPT !.stage = "picked", !.action = b]
  <2>1. WorkerTyped(x)
    <3>1. worker[w] \in WorkerStates
      BY DEF TypeOK
    <3>2. "picked" \notin OnTable
      BY OnTableHas
    <3>3. QED
      BY <3>1, <3>2, StagesHave DEF WorkerTyped, WorkerStates
  <2>2. AllWorkersTyped'
    BY <1>4, <2>1, WorkerStates1 DEF Pick
  <2>3. QED
    BY <1>4, <2>2 DEF TypeOK, Pick, AllWorkersTyped, db, owner, provider
<1>5. CASE Claim(w)
  <2>1. a \in Actions /\ row[a] \in Rows
    BY <1>5 DEF TypeOK, Claim
  <2>2. row' \in [Actions -> Rows]
    BY <1>5, <2>1, RowClaimed, RowStep DEF TypeOK, Claim
  <2>3. AllWorkersTyped'
    BY <1>1, <1>2, <1>5, StagesHave, OnTableHas DEF Claim
  <2>4. QED
    BY <1>5, <2>2, <2>3 DEF TypeOK, Claim, AllWorkersTyped, owner, provider
<1>6. CASE Load(w)
  <2>1. a \in Actions /\ row[a] \in Rows
    BY <1>6 DEF TypeOK, Load
  <2>2. row[a].attempted \in BOOLEAN /\ (row[a].status = "running") \in BOOLEAN
    BY <2>1 DEF Rows
  <2> DEFINE next == IF a \in TableActions /\ row[a].attempts > MaxAttempts
                       THEN "refuse"
                     ELSE IF ~row[a].approved THEN "fail"
                     ELSE IF a \in TableActions THEN "ready" ELSE "agent"
  <2>6. next \in Stages \ {"idle"} /\ (next \in OnTable => a \in TableActions)
    BY StagesHave, OnTableHas
  <2> HIDE DEF next
  <2>7. worker[w].stage # "idle"
    BY <1>6 DEF Load
  <2> DEFINE x == [worker[w] EXCEPT !.stage = next,
                                    !.running = (row[a].status = "running"),
                                    !.tried = row[a].attempted]
  <2>8. WorkerTyped(x)
    BY <2>2, <2>6, <2>7, WorkerGoes
  <2>9. Return(w) \/ SetWorker(w, x)
    BY <1>6 DEF Load, next
  <2> HIDE DEF x
  <2>3. AllWorkersTyped'
    <3>1. CASE Return(w)
      BY <1>2, <3>1
    <3>2. CASE SetWorker(w, x)
      BY <2>8, <3>2, WorkerStates1
    <3>3. QED
      BY <2>9, <3>1, <3>2
  <2>4. event' \in [Actions -> Events]
    BY <1>6 DEF TypeOK, Load, Events
  <2>5. QED
    BY <1>6, <2>3, <2>4 DEF TypeOK, Load, AllWorkersTyped, owner, provider
<1>7. CASE Validate(w)
  <2>0. PICK next \in {"heading", "refuse", "fail"} :
          SetWorker(w, [worker[w] EXCEPT !.stage = next,
                                         !.stored = (a \in receipts)])
    BY <1>7 DEF Validate
  <2> DEFINE x == [worker[w] EXCEPT !.stage = next, !.stored = (a \in receipts)]
  <2>3. next \in Stages \ {"idle"} /\ a \in TableActions
    BY <1>3, <1>7, StagesHave, OnTableHas DEF Validate
  <2>4. WorkerTyped(x)
    <3>1. (a \in receipts) \in BOOLEAN /\ worker[w].stage # "idle"
      BY <1>7 DEF Validate
    <3>2. \A p \in BOOLEAN :
            WorkerTyped([worker[w] EXCEPT !.stage = next, !.stored = p])
      BY <2>3, <3>1, WorkerGoes
    <3>3. QED
      BY <3>1, <3>2
  <2>5. SetWorker(w, x)
    BY <2>0
  <2> HIDE DEF x
  <2>1. AllWorkersTyped'
    BY <2>4, <2>5, WorkerStates1
  <2>2. QED
    BY <1>7, <2>1 DEF TypeOK, Validate, AllWorkersTyped, db, owner, provider
<1>8. CASE CheckHeaders(w)
  <2>1. AllWorkersTyped'
    BY <1>1, <1>3, <1>8, StagesHave, OnTableHas DEF CheckHeaders
  <2>2. QED
    BY <1>8, <2>1 DEF TypeOK, CheckHeaders, AllWorkersTyped, db, owner, provider
<1>9. CASE FindKey(w)
  <2>1. AllWorkersTyped'
    BY <1>1, <1>3, <1>9, StagesHave, OnTableHas, WorkerGoes, WorkerStates1
       DEF FindKey
  <2>2. QED
    BY <1>9, <2>1 DEF TypeOK, FindKey, AllWorkersTyped, db, owner, provider
<1>10. CASE Decide(w)
  <2>1. \A stored \in BOOLEAN :
          AfterFind(w, stored) \in {"reading", "refuse", "retry", "appending"}
    BY DEF AfterFind
  <2>2. worker[w].stored \in BOOLEAN /\ (a \in receipts) \in BOOLEAN
    BY DEF TypeOK, WorkerStates
  <2>3. AllWorkersTyped'
    BY <1>3, <1>10, <2>1, <2>2, StagesHave, OnTableHas, WorkerGoes, WorkerStates1
       DEF Decide
  <2>4. row' \in [Actions -> Rows]
    <3>1. a \in Actions /\ row[a] \in Rows
      BY <1>10 DEF TypeOK, Decide
    <3>2. [row[a] EXCEPT !.attempted = TRUE] \in Rows
      BY <3>1 DEF Rows
    <3>3. QED
      BY <1>10, <3>2, RowStep DEF TypeOK, Decide
  <2>5. QED
    BY <1>10, <2>3, <2>4 DEF TypeOK, Decide, AllWorkersTyped, owner, provider
<1>11. CASE AppendRow(w)
  <2>1. AllWorkersTyped'
    BY <1>1, <1>3, <1>11, StagesHave, OnTableHas, WorkerGoes, WorkerStates1
       DEF AppendRow
  <2>2. sheet' \in [TableActions -> [RowNumbers -> Cells]]
    <3>1. a \in TableActions
      BY <1>3, <1>11, OnTableHas DEF AppendRow
    <3>2. ASSUME NEW n \in RowNumbers, sheet' = [sheet EXCEPT ![a][n] = "approved"]
          PROVE  sheet' \in [TableActions -> [RowNumbers -> Cells]]
      BY <3>1, <3>2 DEF TypeOK, Cells
    <3>3. QED
      BY <1>11, <3>2 DEF TypeOK, AppendRow
  <2>3. /\ inflight' \in [TableActions -> Nat]
        /\ appends' \in [TableActions -> Nat]
    <3>1. \/ inflight' = inflight
          \/ inflight' = [inflight EXCEPT ![a] = @ + 1]
      BY <1>11 DEF AppendRow
    <3>2. appends' = [appends EXCEPT ![a] = @ + 1]
      BY <1>11 DEF AppendRow
    <3>3. a \in TableActions
      BY <1>3, <1>11, OnTableHas DEF AppendRow
    <3>4. QED
      BY <3>1, <3>2, <3>3 DEF TypeOK
  <2>4. QED
    BY <1>11, <2>1, <2>2, <2>3 DEF TypeOK, AppendRow, AllWorkersTyped, db, owner
<1>12. CASE Recheck(w)
  <2>1. AllWorkersTyped'
    BY <1>1, <1>3, <1>12, StagesHave, OnTableHas, WorkerGoes, WorkerStates1
       DEF Recheck
  <2>2. QED
    BY <1>12, <2>1 DEF TypeOK, Recheck, AllWorkersTyped, db, owner, provider
<1>13. CASE ReadBack(w)
  <2>1. AllWorkersTyped'
    BY <1>1, <1>3, <1>13, StagesHave, OnTableHas DEF ReadBack
  <2>2. QED
    BY <1>13, <2>1 DEF TypeOK, ReadBack, AllWorkersTyped, db, owner, provider
<1>14. CASE RunAgent(w)
  <2>1. AllWorkersTyped'
    BY <1>1, <1>14, StagesHave, OnTableHas DEF RunAgent
  <2>2. QED
    BY <1>14, <2>1 DEF TypeOK, RunAgent, AllWorkersTyped, db, owner, provider
<1>15. ASSUME NEW s \in Statuses, NEW e \in Events, Ends(a, s, e), a \in Actions
       PROVE  row' \in [Actions -> Rows] /\ event' \in [Actions -> Events]
  <2>1. [row[a] EXCEPT !.status = s, !.lease = "none"] \in Rows
    BY <1>15, RowColumns DEF TypeOK
  <2>2. QED
    BY <1>15, <2>1, RowStep DEF TypeOK, Ends
<1>16. {"tool_completed", "retry_queued", "failed"} \subseteq Events
  BY DEF Events
<1>17. CASE Complete(w)
  <2>1. row' \in [Actions -> Rows] /\ event' \in [Actions -> Events]
    BY <1>15, <1>16, <1>17, StatusesHave DEF TypeOK, Complete
  <2>2. receipts' \subseteq TableActions
    BY <1>17 DEF TypeOK, Complete
  <2>3. QED
    BY <1>2, <1>17, <2>1, <2>2
       DEF TypeOK, Complete, AllWorkersTyped, owner, provider
<1>18. CASE Retry(w)
  <2>1. row' \in [Actions -> Rows] /\ event' \in [Actions -> Events]
    BY <1>15, <1>16, <1>18, StatusesHave DEF TypeOK, Retry
  <2>2. QED
    BY <1>2, <1>18, <2>1 DEF TypeOK, Retry, AllWorkersTyped, owner, provider
<1>19. CASE Fail(w)
  <2>1. row' \in [Actions -> Rows] /\ event' \in [Actions -> Events]
    BY <1>15, <1>16, <1>19, StatusesHave DEF TypeOK, Fail
  <2>2. QED
    BY <1>2, <1>19, <2>1 DEF TypeOK, Fail, AllWorkersTyped, owner, provider
<1>20. CASE Die(w)
  BY <1>2, <1>20 DEF TypeOK, Die, AllWorkersTyped, db, owner, provider
<1>21. QED
  BY <1>4, <1>5, <1>6, <1>7, <1>8, <1>9, <1>10, <1>11, <1>12, <1>13, <1>14,
     <1>17, <1>18, <1>19, <1>20 DEF WorkerStep

LEMMA TypeEnvironment ==
    ASSUME TypeOK,
           \/ \E w \in Workers : Crash(w)
           \/ \E a \in Actions : Reanalyze(a) \/ Lapse(a)
           \/ \E a \in TableActions :
                \/ LandAppend(a)
                \/ \E n \in RowNumbers :
                     EditRow(a, n) \/ \E m \in RowNumbers : CopyRow(a, m, n)
           \/ \E s \in Schemas : ChangeHeaders(s)
           \/ \E enabled \in BOOLEAN : SaveTable(enabled)
           \/ DisableTable
    PROVE  TypeOK'
<1>1. ASSUME NEW w \in Workers, Crash(w)  PROVE TypeOK'
  <2>1. AllWorkersTyped'
    BY <1>1, IdleTyped, WorkerStates1 DEF Crash, Return
  <2>2. crashes' \in 0..MaxCrashes
    BY <1>1, BoundsAssumption DEF TypeOK, Crash
  <2>3. QED
    BY <1>1, <2>1, <2>2 DEF TypeOK, Crash, AllWorkersTyped, db, owner, provider
<1>2. ASSUME NEW a \in Actions, Lapse(a)  PROVE TypeOK'
  <2>1. [row[a] EXCEPT !.lease = "lapsed"] \in Rows
    BY DEF TypeOK, Rows
  <2>2. row' \in [Actions -> Rows]
    BY <1>2, <2>1, RowStep DEF Lapse
  <2>3. QED
    BY <1>2, <2>2 DEF TypeOK, Lapse, owner, provider
<1>11. ASSUME NEW a \in Actions, Reanalyze(a)  PROVE TypeOK'
  <2>1. [row[a] EXCEPT !.status = "deleted", !.lease = "none"] \in Rows
    BY RowColumns, StatusesHave DEF TypeOK
  <2>2. row' \in [Actions -> Rows] /\ event' \in [Actions -> Events]
    BY <1>11, <2>1, RowStep DEF TypeOK, Reanalyze, Events
  <2>3. QED
    BY <1>11, <2>2 DEF TypeOK, Reanalyze, owner, provider
<1>3. ASSUME NEW a \in TableActions, LandAppend(a)  PROVE TypeOK'
  <2>1. sheet' \in [TableActions -> [RowNumbers -> Cells]]
    BY <1>3 DEF TypeOK, LandAppend, Cells
  <2>2. inflight' \in [TableActions -> Nat]
    BY <1>3 DEF TypeOK, LandAppend
  <2>3. QED
    BY <1>3, <2>1, <2>2 DEF TypeOK, LandAppend, db, owner
<1>4. ASSUME OwnerStep
      PROVE  /\ edits' \in 0..MaxEdits
             /\ UNCHANGED <<row, event, receipts, inflight, web, worker,
                            appends, crashes>>
  BY <1>4, BoundsAssumption DEF TypeOK, OwnerStep, db
<1>5. ASSUME NEW a \in TableActions, NEW n \in RowNumbers, EditRow(a, n)
      PROVE  TypeOK'
  <2>1. sheet' \in [TableActions -> [RowNumbers -> Cells]]
    BY <1>5 DEF TypeOK, EditRow, Cells
  <2>2. QED
    BY <1>4, <1>5, <2>1 DEF TypeOK, EditRow
<1>6. ASSUME NEW a \in TableActions, NEW n \in RowNumbers,
             NEW m \in RowNumbers, CopyRow(a, m, n)
      PROVE  TypeOK'
  <2>1. PICK cell \in {sheet[a][m], "empty"} :
          sheet' = [sheet EXCEPT ![a] = [@ EXCEPT ![n] = sheet[a][m],
                                                  ![m] = cell]]
    BY <1>6 DEF CopyRow
  <2>2. sheet[a] \in [RowNumbers -> Cells] /\ sheet[a][m] \in Cells
        /\ cell \in Cells
    BY DEF TypeOK, Cells
  <2>3. [sheet[a] EXCEPT ![n] = sheet[a][m], ![m] = cell] \in [RowNumbers -> Cells]
    BY <2>2
  <2>4. sheet' \in [TableActions -> [RowNumbers -> Cells]]
    BY <2>1, <2>3 DEF TypeOK
  <2>5. QED
    BY <1>4, <1>6, <2>4 DEF TypeOK, CopyRow
<1>7. ASSUME NEW s \in Schemas, ChangeHeaders(s)  PROVE TypeOK'
  BY <1>4, <1>7 DEF TypeOK, ChangeHeaders
<1>8. ASSUME NEW enabled \in BOOLEAN, SaveTable(enabled)  PROVE TypeOK'
  BY <1>4, <1>8 DEF TypeOK, SaveTable
<1>9. CASE DisableTable
  BY <1>4, <1>9 DEF TypeOK, DisableTable
<1>10. QED
  BY <1>1, <1>2, <1>3, <1>5, <1>6, <1>7, <1>8, <1>9, <1>11

LEMMA TypeStep == TypeOK /\ [Next]_vars => TypeOK'
<1> SUFFICES ASSUME TypeOK, [Next]_vars  PROVE TypeOK'
  OBVIOUS
<1>1. CASE UNCHANGED vars
  BY <1>1 DEF TypeOK, vars
<1>2. ASSUME NEW r \in Requests, NEW a \in Actions,
             BeginCreate(r, a) \/ BeginApprove(r, a) \/ BeginCancel(r, a)
      PROVE  TypeOK'
  BY <1>2, TypeWeb
<1>3. ASSUME NEW r \in Requests,
             CommitCreate(r) \/ CommitApprove(r) \/ CommitCancel(r)
      PROVE  TypeOK'
  <2>1. web[r].action \in Actions
    BY <1>3 DEF TypeOK, CommitCreate, CommitApprove, CommitCancel
  <2>2. QED
    BY <1>3, <2>1, TypeWeb
<1>4. ASSUME NEW w \in Workers, WorkerStep(w)  PROVE TypeOK'
  BY <1>4, TypeWorker
<1>5. QED
  BY <1>1, <1>2, <1>3, <1>4, TypeEnvironment DEF Next

(* Rows, requests, workers, the sheet and the counters keep their types in *)
(* every reachable state, and no worker writes to the sheet for an action  *)
(* of the demo tool.                                                       *)
THEOREM TypeCorrect == Spec => []TypeOK
BY TypeInit, TypeStep, PTL DEF Spec
=============================================================================
