----------------------------- MODULE TableSafety -----------------------------
(***************************************************************************)
(* Why an approved row is appended at most once: the inductive invariants  *)
(* behind the safety properties of TableAction, proved for every value of  *)
(* the constants.                                                          *)
(***************************************************************************)
EXTENDS TableActionProofs

(* Part 1 holds whether or not workers outlast their leases.               *)
ApprovedStages == Checking \cup Writing \cup {"reading"}

MarkInv ==
    /\ \A w \in Workers :
         /\ worker[w].stage \in ApprovedStages => row[worker[w].action].approved
         /\ worker[w].stage = "appending" => row[worker[w].action].attempted
    /\ AppendIsMarked

(* Part 2 needs the lease: a worker that holds a row is its only holder,   *)
(* its lease has not run out, and what it loaded of the attempt marker is  *)
(* what the database has.                                                  *)
HeldInv ==
    \A a \in Actions : \A w \in Workers :
        Holds(w, a) => \/ row[a].status = "deleted"
                       \/ row[a].status = "running" /\ row[a].lease = "held"

FreshInv ==
    \A w \in Workers :
        /\ worker[w].stage \in Checking =>
             worker[w].tried = row[worker[w].action].attempted
        /\ worker[w].stage = "appending" => appends[worker[w].action] = 0

LeaseInv == HeldInv /\ OneHolder /\ FreshInv /\ AtMostOneAppend

-----------------------------------------------------------------------------
(* What the elementary updates do to the variables, column by column.      *)

LEMMA SetWorkerEffect ==
    ASSUME TypeOK, NEW w \in Workers, NEW x, SetWorker(w, x)
    PROVE  /\ worker'[w] = x
           /\ \A v \in Workers : v # w => worker'[v] = worker[v]
BY DEF TypeOK, SetWorker

LEMMA SetRowEffect ==
    ASSUME TypeOK, NEW a \in Actions, NEW c, SetRow(a, c)
    PROVE  row'[a] = c /\ \A b \in Actions : b # a => row'[b] = row[b]
BY DEF TypeOK, SetRow

LEMMA GotoEffect ==
    ASSUME TypeOK, NEW w \in Workers, NEW s, Goto(w, s)
    PROVE  /\ worker'[w].stage = s
           /\ worker'[w].action = worker[w].action
           /\ worker'[w].tried = worker[w].tried
           /\ worker'[w].number = worker[w].number
           /\ \A v \in Workers : v # w => worker'[v] = worker[v]
<1>1. worker[w] \in WorkerStates
  BY DEF TypeOK
<1>2. /\ worker'[w] = [worker[w] EXCEPT !.stage = s]
      /\ \A v \in Workers : v # w => worker'[v] = worker[v]
  BY SetWorkerEffect DEF Goto
<1>3. QED
  BY <1>1, <1>2 DEF WorkerStates

LEMMA NumberEffect ==
    ASSUME TypeOK, NEW w \in Workers, NEW s, NEW n,
           SetWorker(w, [worker[w] EXCEPT !.stage = s, !.number = n])
    PROVE  /\ worker'[w].stage = s
           /\ worker'[w].action = worker[w].action
           /\ worker'[w].tried = worker[w].tried
           /\ worker'[w].number = n
           /\ \A v \in Workers : v # w => worker'[v] = worker[v]
<1>1. worker[w] \in WorkerStates
  BY DEF TypeOK
<1>2. /\ worker'[w] = [worker[w] EXCEPT !.stage = s, !.number = n]
      /\ \A v \in Workers : v # w => worker'[v] = worker[v]
  BY SetWorkerEffect
<1>3. QED
  BY <1>1, <1>2 DEF WorkerStates

LEMMA ReturnEffect ==
    ASSUME TypeOK, NEW w \in Workers, Return(w)
    PROVE  /\ worker'[w].stage = "idle"
           /\ worker'[w].action = NoAction
           /\ worker'[w].number = 0
           /\ \A v \in Workers : v # w => worker'[v] = worker[v]
<1>1. /\ worker'[w] = IdleWorker
      /\ \A v \in Workers : v # w => worker'[v] = worker[v]
  BY SetWorkerEffect DEF Return
<1>2. QED
  BY <1>1 DEF IdleWorker

LEMMA PickEffect ==
    ASSUME TypeOK, NEW w \in Workers, NEW a \in Actions, Pick(w, a)
    PROVE  /\ worker[w].stage = "idle"
           /\ worker'[w].stage = "picked"
           /\ worker'[w].action = a
           /\ worker'[w].number = worker[w].number
           /\ \A v \in Workers : v # w => worker'[v] = worker[v]
<1>1. worker[w] \in WorkerStates
  BY DEF TypeOK
<1>2. /\ worker'[w] = [worker[w] EXCEPT !.stage = "picked", !.action = a]
      /\ \A v \in Workers : v # w => worker'[v] = worker[v]
  BY SetWorkerEffect DEF Pick
<1>3. QED
  BY <1>1, <1>2 DEF WorkerStates, Pick

LEMMA LoadEffect ==
    ASSUME TypeOK, NEW w \in Workers, Load(w)
    PROVE  /\ \A v \in Workers : v # w => worker'[v] = worker[v]
           /\ worker[w].stage = "claimed"
           /\ \/ Return(w)
              \/ /\ worker'[w].stage \in {"refuse", "fail", "ready", "agent"}
                 /\ worker'[w].action = worker[w].action
                 /\ worker'[w].number = worker[w].number
                 /\ worker'[w].tried = row[worker[w].action].attempted
                 /\ worker'[w].stage = "ready" => row[worker[w].action].approved
                 /\ worker'[w].stage = "ready" =>
                      ~(row[worker[w].action].attempts > MaxAttempts)
                 /\ worker'[w].stage = "agent" =>
                      worker[w].action \notin TableActions
<1> DEFINE a == worker[w].action
           next == IF a \in TableActions /\ row[a].attempts > MaxAttempts
                     THEN "refuse"
                   ELSE IF ~row[a].approved THEN "fail"
                   ELSE IF a \in TableActions THEN "ready" ELSE "agent"
           x == [worker[w] EXCEPT !.stage = next,
                                  !.running = (row[a].status = "running"),
                                  !.tried = row[a].attempted]
<1>1. worker[w].stage = "claimed" /\ (Return(w) \/ SetWorker(w, x))
  BY DEF Load
<1>2. CASE Return(w)
  BY <1>1, <1>2, ReturnEffect
<1>3. CASE SetWorker(w, x)
  <2>1. /\ worker'[w] = x
        /\ \A v \in Workers : v # w => worker'[v] = worker[v]
    <3> HIDE DEF x
    <3>1. QED  BY <1>3, SetWorkerEffect
  <2>2. worker[w] \in WorkerStates
    BY DEF TypeOK
  <2>3. /\ next \in {"refuse", "fail", "ready", "agent"}
        /\ next = "ready" => row[a].approved
        /\ next = "ready" => ~(row[a].attempts > MaxAttempts)
        /\ next = "agent" => a \notin TableActions
    OBVIOUS
  <2> HIDE DEF next
  <2>4. /\ x.stage = next /\ x.action = a /\ x.number = worker[w].number
        /\ x.tried = row[a].attempted
    BY <2>2 DEF WorkerStates
  <2>5. QED
    BY <1>1, <2>1, <2>3, <2>4
<1>4. QED
  BY <1>1, <1>2, <1>3

LEMMA ValidateEffect ==
    ASSUME TypeOK, NEW w \in Workers, Validate(w)
    PROVE  /\ \A v \in Workers : v # w => worker'[v] = worker[v]
           /\ worker'[w].stage \in {"heading", "refuse", "fail"}
           /\ worker'[w].action = worker[w].action
           /\ worker'[w].tried = worker[w].tried
           /\ worker'[w].number = worker[w].number
<1> DEFINE a == worker[w].action
<1>2. PICK next \in {"heading", "refuse", "fail"} :
        SetWorker(w, [worker[w] EXCEPT !.stage = next,
                                       !.stored = (a \in receipts)])
  BY DEF Validate
<1> DEFINE x == [worker[w] EXCEPT !.stage = next, !.stored = (a \in receipts)]
<1>1. SetWorker(w, x) /\ worker[w] \in WorkerStates
  BY <1>2 DEF TypeOK
<1>3. /\ x.stage = next /\ x.action = a /\ x.tried = worker[w].tried
      /\ x.number = worker[w].number
  BY <1>1 DEF WorkerStates
<1> HIDE DEF x
<1>4. QED
  BY <1>1, <1>2, <1>3, SetWorkerEffect

LEMMA DecideEffect ==
    ASSUME TypeOK, NEW w \in Workers, Decide(w)
    PROVE  /\ worker[w].stage = "found"
           /\ \A v \in Workers : v # w => worker'[v] = worker[v]
           /\ worker'[w].action = worker[w].action
           /\ worker'[w].tried = worker[w].tried
           /\ worker'[w].number = worker[w].number
           /\ \/ /\ worker'[w].stage = "reading" /\ worker[w].number # 0
                 /\ row' = row
              \/ worker'[w].stage \in {"refuse", "retry"} /\ row' = row
              \/ /\ worker'[w].stage = "appending"
                 /\ ~worker[w].tried /\ Exists(worker[w].action)
                 /\ SetRow(worker[w].action,
                           [row[worker[w].action] EXCEPT !.attempted = TRUE])
<1> DEFINE a == worker[w].action
<1>1. PICK stored \in {worker[w].stored, a \in receipts} :
        /\ SetWorker(w, [worker[w] EXCEPT !.stage = AfterFind(w, stored),
                                          !.stored = stored])
        /\ IF AfterFind(w, stored) = "appending"
             THEN SetRow(a, [row[a] EXCEPT !.attempted = TRUE])
             ELSE UNCHANGED row
  BY DEF Decide
<1> DEFINE next == AfterFind(w, stored)
           x == [worker[w] EXCEPT !.stage = next, !.stored = stored]
<1>2. \/ next = "reading" /\ worker[w].number # 0
      \/ next \in {"refuse", "retry"}
      \/ next = "appending" /\ ~worker[w].tried /\ Exists(a)
  BY DEF AfterFind
<1>3. worker[w] \in WorkerStates
  BY DEF TypeOK
<1> HIDE DEF next
<1>4. /\ x.stage = next /\ x.action = a /\ x.tried = worker[w].tried
      /\ x.number = worker[w].number
  BY <1>3 DEF WorkerStates
<1>5. /\ worker'[w] = x
      /\ \A v \in Workers : v # w => worker'[v] = worker[v]
  <2>1. SetWorker(w, x)
    BY <1>1 DEF next
  <2> HIDE DEF x
  <2>2. QED
    BY <2>1, SetWorkerEffect
<1>6. worker[w].stage = "found"
  BY DEF Decide
<1>7. IF next = "appending" THEN SetRow(a, [row[a] EXCEPT !.attempted = TRUE])
                            ELSE row' = row
  BY <1>1 DEF next
<1> HIDE DEF x
<1>8. QED
  BY <1>2, <1>4, <1>5, <1>6, <1>7

-----------------------------------------------------------------------------
(* No step takes an approval or an attempt marker back.                    *)
Keeps(x, y) == (x.approved => y.approved) /\ (x.attempted => y.attempted)

RowsKeep == \A a \in Actions : Keeps(row[a], row'[a])

LEMMA ColumnsKeep ==
    ASSUME NEW x \in Rows, NEW s, NEW l
    PROVE  /\ Keeps(x, [x EXCEPT !.status = s])
           /\ Keeps(x, [x EXCEPT !.status = s, !.schema = l])
           /\ Keeps(x, [x EXCEPT !.status = s, !.approved = TRUE])
           /\ Keeps(x, [x EXCEPT !.status = s, !.lease = l])
           /\ Keeps(x, [x EXCEPT !.attempted = TRUE])
           /\ Keeps(x, [x EXCEPT !.lease = l])
           /\ \A n : Keeps(x, [x EXCEPT !.status = s, !.lease = l,
                                        !.attempts = n])
BY DEF Rows, Keeps

LEMMA SetRowKeeps ==
    ASSUME TypeOK, NEW a \in Actions, NEW c, SetRow(a, c), Keeps(row[a], c)
    PROVE  RowsKeep
BY DEF TypeOK, SetRow, RowsKeep, Keeps

LEMMA SameRowKeeps ==
    ASSUME row' = row
    PROVE  RowsKeep
BY DEF RowsKeep, Keeps

LEMMA RowsKeepWeb ==
    ASSUME TypeOK, NEW r \in Requests,
           \/ \E a \in Actions :
                BeginCreate(r, a) \/ BeginApprove(r, a) \/ BeginCancel(r, a)
           \/ CommitCreate(r) \/ CommitApprove(r) \/ CommitCancel(r)
    PROVE  RowsKeep
<1> DEFINE a == web[r].action
<1>1. CASE \E b \in Actions :
             BeginCreate(r, b) \/ BeginApprove(r, b) \/ BeginCancel(r, b)
  BY <1>1, SameRowKeeps DEF BeginCreate, BeginApprove, BeginCancel, db
<1>2. web[r].stage # "idle" => a \in Actions /\ row[a] \in Rows
  BY DEF TypeOK
<1>3. CASE CommitCreate(r)
  BY <1>2, <1>3, SameRowKeeps, SetRowKeeps, ColumnsKeep DEF CommitCreate
<1>4. CASE CommitApprove(r)
  BY <1>2, <1>4, SameRowKeeps, SetRowKeeps, ColumnsKeep DEF CommitApprove
<1>5. CASE CommitCancel(r)
  BY <1>2, <1>5, SameRowKeeps, SetRowKeeps, ColumnsKeep DEF CommitCancel
<1>6. QED
  BY <1>1, <1>3, <1>4, <1>5

LEMMA EndsKeeps ==
    ASSUME TypeOK, NEW a \in Actions, NEW s, NEW e, Ends(a, s, e)
    PROVE  RowsKeep
BY SetRowKeeps, ColumnsKeep DEF TypeOK, Ends

LEMMA RowsKeepWorker ==
    ASSUME TypeOK, NEW w \in Workers, WorkerStep(w)
    PROVE  RowsKeep
<1> DEFINE a == worker[w].action
<1>1. worker[w].stage # "idle" => a \in Actions /\ row[a] \in Rows
  BY DEF TypeOK
<1>2. CASE \E b \in Actions : Pick(w, b)
  BY <1>2, SameRowKeeps DEF Pick, db
<1>3. CASE Claim(w)
  <2> DEFINE n == Counted(row[a].attempts)
  <2> HIDE DEF n
  <2>1. Keeps(row[a], [row[a] EXCEPT !.status = "running", !.lease = "held",
                                     !.attempts = n])
    BY <1>1, <1>3, ColumnsKeep DEF Claim
  <2>2. QED
    BY <1>1, <1>3, <2>1, SameRowKeeps, SetRowKeeps DEF Claim, n
<1>4. CASE Load(w) \/ Validate(w) \/ CheckHeaders(w) \/ FindKey(w)
  BY <1>4, SameRowKeeps DEF Load, Validate, CheckHeaders, FindKey, db
<1>5. CASE Decide(w)
  BY <1>1, <1>5, SameRowKeeps, SetRowKeeps, ColumnsKeep, DecideEffect
<1>6. CASE AppendRow(w) \/ Recheck(w) \/ ReadBack(w) \/ RunAgent(w) \/ Die(w)
  BY <1>6, SameRowKeeps DEF AppendRow, Recheck, ReadBack, RunAgent, Die, db
<1>7. CASE Complete(w)
  BY <1>1, <1>7, EndsKeeps DEF Complete
<1>8. CASE Retry(w)
  BY <1>1, <1>8, EndsKeeps DEF Retry
<1>9. CASE Fail(w)
  BY <1>1, <1>9, EndsKeeps DEF Fail
<1>10. QED
  BY <1>2, <1>3, <1>4, <1>5, <1>6, <1>7, <1>8, <1>9 DEF WorkerStep

LEMMA RowsKeepNext ==
    ASSUME TypeOK, Next
    PROVE  RowsKeep
<1>1. ASSUME NEW a \in Actions, Reanalyze(a) \/ Lapse(a)  PROVE RowsKeep
  <2>1. row[a] \in Rows
    BY DEF TypeOK
  <2>2. QED
    BY <1>1, <2>1, SetRowKeeps, ColumnsKeep DEF Reanalyze, Lapse
<1>2. ASSUME NEW w \in Workers, Crash(w)  PROVE RowsKeep
  BY <1>2, SameRowKeeps DEF Crash, db
<1>3. ASSUME OwnerStep  PROVE RowsKeep
  BY <1>3, SameRowKeeps DEF OwnerStep, db
<1>4. ASSUME NEW a \in TableActions, LandAppend(a)  PROVE RowsKeep
  BY <1>4, SameRowKeeps DEF LandAppend, db
<1>5. QED
  BY <1>1, <1>2, <1>3, <1>4, RowsKeepWeb, RowsKeepWorker
     DEF Next, EditRow, CopyRow, ChangeHeaders, SaveTable, DisableTable

-----------------------------------------------------------------------------
(* Nothing is written without an approval and a durable attempt marker.    *)
MarkedWorker(x, y) ==
    /\ x.stage \in ApprovedStages => y[x.action].approved
    /\ x.stage = "appending" => y[x.action].attempted

LEMMA MarkKept ==
    ASSUME TypeOK, MarkInv, RowsKeep, NEW w \in Workers,
           \A v \in Workers : v # w => worker'[v] = worker[v],
           MarkedWorker(worker'[w], row'), appends' = appends
    PROVE  MarkInv'
<1>1. ASSUME NEW v \in Workers, v # w
      PROVE  MarkedWorker(worker'[v], row')
  <2>1. /\ worker[v].stage \in ApprovedStages => worker[v].action \in Actions
        /\ worker[v].stage = "appending" => worker[v].action \in Actions
    BY DEF TypeOK, ApprovedStages, Checking, Writing
  <2>2. MarkedWorker(worker[v], row)
    BY DEF MarkInv, MarkedWorker
  <2>3. QED
    BY <1>1, <2>1, <2>2 DEF MarkedWorker, RowsKeep, Keeps
<1>2. \A v \in Workers : MarkedWorker(worker'[v], row')
  BY <1>1
<1>3. AppendIsMarked'
  BY ActionsAssumption DEF MarkInv, AppendIsMarked, RowsKeep, Keeps
<1>4. QED
  BY <1>2, <1>3 DEF MarkInv, MarkedWorker

LEMMA MarkSame ==
    ASSUME TypeOK, MarkInv, RowsKeep, worker' = worker, appends' = appends
    PROVE  MarkInv'
<1>1. ASSUME NEW v \in Workers
      PROVE  MarkedWorker(worker'[v], row')
  <2>1. /\ worker[v].stage \in ApprovedStages => worker[v].action \in Actions
        /\ worker[v].stage = "appending" => worker[v].action \in Actions
    BY DEF TypeOK, ApprovedStages, Checking, Writing
  <2>2. MarkedWorker(worker[v], row)
    BY DEF MarkInv, MarkedWorker
  <2>3. QED
    BY <2>1, <2>2 DEF MarkedWorker, RowsKeep, Keeps
<1>2. AppendIsMarked'
  BY ActionsAssumption DEF MarkInv, AppendIsMarked, RowsKeep, Keeps
<1>3. QED
  BY <1>1, <1>2 DEF MarkInv, MarkedWorker

LEMMA ApprovedStagesHave ==
    ApprovedStages = {"ready", "heading", "finding", "found", "appending",
                      "rechecking", "reading"}
BY DEF ApprovedStages, Checking, Writing

LEMMA MarkWorker ==
    ASSUME TypeOK, MarkInv, RowsKeep, NEW w \in Workers, WorkerStep(w)
    PROVE  MarkInv'
<1> DEFINE a == worker[w].action
<1>1. worker[w].stage # "idle" => a \in Actions
  BY DEF TypeOK
<1>2. MarkedWorker(worker[w], row)
  BY DEF MarkInv, MarkedWorker
<1>3. ASSUME NEW s \in Stages, Goto(w, s), a \in Actions, appends' = appends,
             s \notin ApprovedStages
      PROVE  MarkInv'
  BY <1>3, GotoEffect, MarkKept, ApprovedStagesHave DEF MarkedWorker
<1>4. ASSUME NEW s, a \in Actions, worker'[w].stage = s,
             worker'[w].action = a, appends' = appends,
             \A v \in Workers : v # w => worker'[v] = worker[v],
             worker[w].stage \in ApprovedStages, s # "appending"
      PROVE  MarkInv'
  BY <1>2, <1>4, MarkKept DEF MarkedWorker, RowsKeep, Keeps
<1>5. ASSUME Return(w), appends' = appends  PROVE MarkInv'
  BY <1>5, ReturnEffect, MarkKept, ApprovedStagesHave DEF MarkedWorker
<1>6. ASSUME NEW b \in Actions, Pick(w, b)  PROVE MarkInv'
  BY <1>6, PickEffect, MarkKept, ApprovedStagesHave
     DEF MarkedWorker, Pick, provider
<1>7. CASE Claim(w)
  BY <1>1, <1>3, <1>5, <1>7, StagesHave, ApprovedStagesHave DEF Claim, provider
<1>8. CASE Load(w)
  <2>1. appends' = appends /\ row' = row /\ a \in Actions
    BY <1>1, <1>8 DEF Load, provider
  <2>2. QED
    BY <1>5, <1>8, <2>1, LoadEffect, MarkKept, ApprovedStagesHave
       DEF MarkedWorker
<1>9. CASE Validate(w)
  BY <1>1, <1>4, <1>9, ValidateEffect, ApprovedStagesHave DEF Validate, provider
<1>10. CASE CheckHeaders(w)
  BY <1>1, <1>4, <1>10, GotoEffect, ApprovedStagesHave DEF CheckHeaders, provider
<1>11. CASE FindKey(w)
  BY <1>1, <1>4, <1>11, GotoEffect, NumberEffect, ApprovedStagesHave
     DEF FindKey, provider
<1>12. CASE Decide(w)
  <2>1. appends' = appends /\ worker[w].stage \in ApprovedStages /\ a \in Actions
    BY <1>1, <1>12, ApprovedStagesHave DEF Decide, provider
  <2>2. CASE worker'[w].stage # "appending"
    BY <1>4, <1>12, <2>1, <2>2, DecideEffect
  <2>3. CASE worker'[w].stage = "appending"
    <3>1. SetRow(a, [row[a] EXCEPT !.attempted = TRUE])
      BY <1>12, <2>3, DecideEffect
    <3>2. row'[a].attempted
      BY <2>1, <3>1 DEF SetRow, TypeOK, Rows
    <3>3. MarkedWorker(worker'[w], row')
      BY <1>2, <1>12, <2>1, <3>2, DecideEffect DEF MarkedWorker, RowsKeep, Keeps
    <3>4. QED
      BY <1>12, <2>1, <3>3, DecideEffect, MarkKept
  <2>4. QED
    BY <2>2, <2>3
<1>13. CASE AppendRow(w)
  <2>1. /\ worker[w].stage = "appending" /\ a \in TableActions /\ a \in Actions
        /\ worker[w].stage \in ApprovedStages
    BY <1>13, ActionsAssumption, OnTableHas, ApprovedStagesHave
       DEF AppendRow, TypeOK
  <2>2. row[a].approved /\ row[a].attempted /\ row' = row
    BY <1>2, <1>13, <2>1 DEF MarkedWorker, AppendRow, db
  <2>3. /\ worker'[w].stage \in {"reading", "rechecking"}
        /\ worker'[w].action = a
        /\ \A v \in Workers : v # w => worker'[v] = worker[v]
    BY <1>13, GotoEffect, NumberEffect DEF AppendRow
  <2>4. \A v \in Workers : MarkedWorker(worker'[v], row')
    BY <2>2, <2>3 DEF MarkInv, MarkedWorker
  <2>5. AppendIsMarked'
    <3>1. \A b \in TableActions : b # a => appends'[b] = appends[b]
      BY <1>13, <2>1 DEF AppendRow, TypeOK
    <3>2. QED
      BY <2>2, <3>1 DEF MarkInv, AppendIsMarked
  <2>6. QED
    BY <2>4, <2>5 DEF MarkInv, MarkedWorker
<1>14. CASE Recheck(w)
  BY <1>1, <1>4, <1>14, GotoEffect, NumberEffect, ApprovedStagesHave
     DEF Recheck, provider
<1>15. CASE ReadBack(w)
  BY <1>1, <1>3, <1>15, StagesHave, ApprovedStagesHave DEF ReadBack, provider
<1>16. CASE RunAgent(w)
  BY <1>1, <1>3, <1>16, StagesHave, ApprovedStagesHave DEF RunAgent, provider
<1>17. CASE Complete(w) \/ Retry(w) \/ Fail(w) \/ Die(w)
  BY <1>5, <1>17 DEF Complete, Retry, Fail, Die, provider
<1>18. QED
  BY <1>6, <1>7, <1>8, <1>9, <1>10, <1>11, <1>12, <1>13, <1>14, <1>15, <1>16,
     <1>17 DEF WorkerStep

LEMMA MarkStep ==
    ASSUME TypeOK, MarkInv, [Next]_vars
    PROVE  MarkInv'
<1>1. CASE UNCHANGED vars
  BY <1>1 DEF MarkInv, AppendIsMarked, vars
<1>2. ASSUME Next  PROVE MarkInv'
  <2>1. RowsKeep
    BY <1>2, RowsKeepNext
  <2>2. ASSUME NEW r \in Requests, NEW a \in Actions,
               BeginCreate(r, a) \/ BeginApprove(r, a) \/ BeginCancel(r, a)
        PROVE  MarkInv'
    BY <2>1, <2>2, MarkSame DEF BeginCreate, BeginApprove, BeginCancel, provider
  <2>3. ASSUME NEW r \in Requests,
               CommitCreate(r) \/ CommitApprove(r) \/ CommitCancel(r)
        PROVE  MarkInv'
    BY <2>1, <2>3, MarkSame
       DEF CommitCreate, CommitApprove, CommitCancel, provider
  <2>4. ASSUME NEW a \in Actions, Reanalyze(a) \/ Lapse(a)  PROVE MarkInv'
    BY <2>1, <2>4, MarkSame DEF Reanalyze, Lapse, provider
  <2>5. ASSUME NEW w \in Workers, Crash(w)  PROVE MarkInv'
    BY <2>1, <2>5, ReturnEffect, MarkKept, ApprovedStagesHave
       DEF Crash, provider, MarkedWorker
  <2>6. ASSUME NEW a \in TableActions, LandAppend(a)  PROVE MarkInv'
    BY <2>1, <2>6, MarkSame DEF LandAppend
  <2>7. ASSUME OwnerStep  PROVE MarkInv'
    BY <2>1, <2>7, MarkSame DEF OwnerStep
  <2>8. QED
    BY <1>2, <2>1, <2>2, <2>3, <2>4, <2>5, <2>6, <2>7, MarkWorker
       DEF Next, EditRow, CopyRow, ChangeHeaders, SaveTable, DisableTable
<1>3. QED
  BY <1>1, <1>2

LEMMA MarkInit == Init => MarkInv
BY ApprovedStagesHave
   DEF Init, MarkInv, AppendIsMarked, IdleWorker

(* However workers crash, overlap and outlast their leases, a row is only  *)
(* written for an action its owner approved and whose attempt marker was   *)
(* committed before (execute_table_plan, process_next_execution).          *)
THEOREM WritesAreMarked == Spec => []AppendIsMarked
<1>1. Init => TypeOK /\ MarkInv
  BY TypeInit, MarkInit
<1>2. TypeOK /\ MarkInv /\ [Next]_vars => TypeOK' /\ MarkInv'
  BY TypeStep, MarkStep
<1>3. MarkInv => AppendIsMarked
  BY DEF MarkInv
<1>4. QED
  BY <1>1, <1>2, <1>3, PTL DEF Spec

-----------------------------------------------------------------------------
(* The lease is a lock, and a lock holder appends at most once.            *)
FreshWorker(x, y, n) ==
    /\ x.stage \in Checking => x.tried = y[x.action].attempted
    /\ x.stage = "appending" => n[x.action] = 0

LEMMA LeaseMove ==
    ASSUME TypeOK, LeaseInv, NEW w \in Workers,
           row' = row, appends' = appends,
           \A v \in Workers : v # w => worker'[v] = worker[v],
           \A a \in Actions : Holds(w, a)' => Holds(w, a),
           FreshWorker(worker'[w], row', appends')
    PROVE  LeaseInv'
<1>1. \A v \in Workers : \A a \in Actions : Holds(v, a)' => Holds(v, a)
  BY DEF Holds
<1>2. HeldInv' /\ OneHolder' /\ AtMostOneAppend'
  BY <1>1 DEF LeaseInv, HeldInv, OneHolder, AtMostOneAppend
<1>3. FreshInv'
  BY DEF LeaseInv, FreshInv, FreshWorker
<1>4. QED
  BY <1>2, <1>3 DEF LeaseInv

(* A step that leaves the workers alone may end a run only by deleting it. *)
LEMMA LeaseRow ==
    ASSUME TypeOK, LeaseInv, worker' = worker, appends' = appends,
           NEW a \in Actions, NEW c, SetRow(a, c),
           c.attempted = row[a].attempted,
           c.status # "deleted" => \A w \in Workers : ~Holds(w, a)
    PROVE  LeaseInv'
<1>1. row'[a] = c /\ \A b \in Actions : b # a => row'[b] = row[b]
  BY SetRowEffect
<1>2. HeldInv' /\ OneHolder' /\ AtMostOneAppend'
  BY <1>1 DEF LeaseInv, HeldInv, OneHolder, AtMostOneAppend, Holds
<1>3. \A w \in Workers :
        worker[w].stage \in Checking => worker[w].action \in Actions
  BY DEF TypeOK, Checking
<1>4. FreshInv'
  BY <1>1, <1>3 DEF LeaseInv, FreshInv
<1>5. QED
  BY <1>2, <1>4 DEF LeaseInv

LEMMA CheckingHolds ==
    ASSUME TypeOK, NEW w \in Workers,
           worker[w].stage \in Checking \cup {"appending"}
    PROVE  worker[w].action \in Actions /\ Holds(w, worker[w].action)
BY DEF TypeOK, Checking, Holds

(* The holder of a row gives it up together with the row's outcome.        *)
LEMMA LeaseReturn ==
    ASSUME TypeOK, LeaseInv, NEW w \in Workers, NEW a \in Actions, NEW c,
           Holds(w, a), Return(w), SetRow(a, c), appends' = appends
    PROVE  LeaseInv'
<1>1. row'[a] = c /\ \A b \in Actions : b # a => row'[b] = row[b]
  BY SetRowEffect
<1>2. /\ worker'[w].stage = "idle"
      /\ \A v \in Workers : v # w => worker'[v] = worker[v]
  BY ReturnEffect
<1>3. \A v \in Workers : v # w => ~Holds(v, a)
  BY DEF LeaseInv, OneHolder
<1>4. HeldInv' /\ OneHolder' /\ AtMostOneAppend'
  BY <1>1, <1>2, <1>3 DEF LeaseInv, HeldInv, OneHolder, AtMostOneAppend, Holds
<1>5. ASSUME NEW v \in Workers, v # w
      PROVE  FreshWorker(worker'[v], row', appends')
  <2>1. FreshWorker(worker[v], row, appends)
    BY DEF LeaseInv, FreshInv, FreshWorker
  <2>2. CASE worker[v].stage \in Checking
    <3>1. worker[v].action \in Actions /\ worker[v].action # a
      BY <1>3, <1>5, <2>2, CheckingHolds
    <3>2. QED
      BY <1>1, <1>2, <1>5, <2>1, <3>1 DEF FreshWorker
  <2>3. CASE worker[v].stage \notin Checking
    BY <1>2, <1>5, <2>1, <2>3 DEF FreshWorker
  <2>4. QED
    BY <2>2, <2>3
<1>6. FreshWorker(worker'[w], row', appends')
  BY <1>2 DEF FreshWorker, Checking
<1>7. QED
  BY <1>4, <1>5, <1>6 DEF LeaseInv, FreshInv, FreshWorker

LEMMA LeaseClaim ==
    ASSUME TypeOK, LeaseInv, NEW w \in Workers, Claim(w)
    PROVE  LeaseInv'
<1> DEFINE a == worker[w].action
<1>1. a \in Actions /\ row[a] \in Rows /\ worker[w].stage = "picked"
      /\ appends' = appends
  BY DEF TypeOK, Claim, provider
<1>2. CASE Return(w) /\ row' = row
  BY <1>1, <1>2, ReturnEffect, LeaseMove DEF Holds, FreshWorker, Checking
<1>3. CASE /\ Claimable(a)
           /\ SetRow(a, [row[a] EXCEPT !.status = "running", !.lease = "held",
                              !.attempts = Counted(row[a].attempts)])
           /\ Goto(w, "claimed")
  <2> DEFINE n == Counted(row[a].attempts)
             c == [row[a] EXCEPT !.status = "running", !.lease = "held",
                                 !.attempts = n]
  <2> HIDE DEF n
  <2>1. c.status = "running" /\ c.lease = "held" /\ c.attempted = row[a].attempted
    BY <1>1 DEF Rows
  <2>2. SetRow(a, c)
    BY <1>3 DEF n
  <2> HIDE DEF c
  <2>3. row'[a] = c /\ \A b \in Actions : b # a => row'[b] = row[b]
    BY <1>1, <2>2, SetRowEffect
  <2>4. /\ worker'[w].stage = "claimed" /\ worker'[w].action = a
        /\ \A v \in Workers : v # w => worker'[v] = worker[v]
    BY <1>3, GotoEffect
  <2>5. \A v \in Workers : ~Holds(v, a)
    BY <1>1, <1>3 DEF LeaseInv, HeldInv, Claimable
  <2>6. HeldInv' /\ OneHolder' /\ AtMostOneAppend'
    BY <1>1, <2>1, <2>3, <2>4, <2>5
       DEF LeaseInv, HeldInv, OneHolder, AtMostOneAppend, Holds
  <2>7. ASSUME NEW v \in Workers, v # w
        PROVE  FreshWorker(worker'[v], row', appends')
    <3>1. FreshWorker(worker[v], row, appends)
      BY DEF LeaseInv, FreshInv, FreshWorker
    <3>2. worker[v].stage \in Checking => worker[v].action \in Actions
      BY CheckingHolds
    <3>3. QED
      BY <1>1, <2>1, <2>3, <2>4, <2>7, <3>1, <3>2 DEF FreshWorker
  <2>8. FreshWorker(worker'[w], row', appends')
    BY <2>4 DEF FreshWorker, Checking
  <2>9. QED
    BY <2>6, <2>7, <2>8 DEF LeaseInv, FreshInv, FreshWorker
<1>4. QED
  BY <1>2, <1>3 DEF Claim

LEMMA LeaseDecide ==
    ASSUME TypeOK, LeaseInv, MarkInv, NEW w \in Workers, Decide(w)
    PROVE  LeaseInv'
<1> DEFINE a == worker[w].action
<1>1. /\ a \in Actions /\ a \in TableActions /\ row[a] \in Rows
      /\ worker[w].stage = "found" /\ appends' = appends
  BY OnTableHas DEF TypeOK, Decide, provider
<1>2. Holds(w, a)
  BY <1>1, CheckingHolds DEF Checking
<1>3. CASE row' = row /\ worker'[w].stage \in {"reading", "refuse", "retry"}
  <2>1. FreshWorker(worker'[w], row', appends')
    BY <1>3 DEF FreshWorker, Checking
  <2>2. \A b \in Actions : Holds(w, b)' => Holds(w, b)
    BY <1>2, DecideEffect DEF Holds
  <2>3. QED
    BY <1>1, <1>3, <2>1, <2>2, DecideEffect, LeaseMove
<1>4. CASE /\ worker'[w].stage = "appending" /\ ~worker[w].tried
           /\ SetRow(a, [row[a] EXCEPT !.attempted = TRUE])
  <2> DEFINE c == [row[a] EXCEPT !.attempted = TRUE]
  <2>1. c.status = row[a].status /\ c.lease = row[a].lease
    BY <1>1 DEF Rows
  <2>2. SetRow(a, c)
    BY <1>4
  <2> HIDE DEF c
  <2>3. row'[a] = c /\ \A b \in Actions : b # a => row'[b] = row[b]
    BY <1>1, <2>2, SetRowEffect
  <2>4. /\ worker'[w].action = a
        /\ \A v \in Workers : v # w => worker'[v] = worker[v]
    BY DecideEffect
  <2>5. \A v \in Workers : v # w => ~Holds(v, a)
    BY <1>1, <1>2 DEF LeaseInv, OneHolder
  <2>6. \A v \in Workers : \A b \in Actions : Holds(v, b)' <=> Holds(v, b)
    BY <1>2, <1>4, <2>4 DEF Holds
  <2>7. HeldInv' /\ OneHolder' /\ AtMostOneAppend'
    BY <1>1, <2>1, <2>3, <2>6 DEF LeaseInv, HeldInv, OneHolder, AtMostOneAppend
  <2>8. ASSUME NEW v \in Workers, v # w
        PROVE  FreshWorker(worker'[v], row', appends')
    <3>1. FreshWorker(worker[v], row, appends)
      BY DEF LeaseInv, FreshInv, FreshWorker
    <3>2. worker[v].stage \in Checking =>
            worker[v].action \in Actions /\ worker[v].action # a
      BY <2>5, <2>8, CheckingHolds
    <3>3. QED
      BY <1>1, <2>3, <2>4, <2>8, <3>1, <3>2 DEF FreshWorker
  <2>9. appends[a] = 0
    <3>1. ~row[a].attempted
      BY <1>1, <1>4 DEF LeaseInv, FreshInv, Checking
    <3>2. QED
      BY <1>1, <3>1 DEF MarkInv, AppendIsMarked, TypeOK
  <2>10. FreshWorker(worker'[w], row', appends')
    BY <1>1, <1>4, <2>4, <2>9 DEF FreshWorker, Checking
  <2>11. QED
    BY <2>7, <2>8, <2>10 DEF LeaseInv, FreshInv, FreshWorker
<1>5. QED
  BY <1>3, <1>4, DecideEffect

LEMMA LeaseAppend ==
    ASSUME TypeOK, LeaseInv, NEW w \in Workers, AppendRow(w)
    PROVE  LeaseInv'
<1> DEFINE a == worker[w].action
<1>1. /\ a \in Actions /\ a \in TableActions
      /\ worker[w].stage = "appending" /\ row' = row
  BY OnTableHas DEF TypeOK, AppendRow, db
<1>2. Holds(w, a)
  BY <1>1, CheckingHolds
<1>3. /\ worker'[w].stage \in {"reading", "rechecking"}
      /\ worker'[w].action = a
      /\ \A v \in Workers : v # w => worker'[v] = worker[v]
  BY GotoEffect, NumberEffect DEF AppendRow
<1>4. appends[a] = 0
  BY <1>1 DEF LeaseInv, FreshInv
<1>5. /\ appends'[a] = 1
      /\ \A b \in TableActions : b # a => appends'[b] = appends[b]
  <2>1. appends \in [TableActions -> Nat] /\ a \in TableActions
    BY <1>1 DEF TypeOK
  <2>2. appends' = [appends EXCEPT ![a] = @ + 1]
    BY DEF AppendRow
  <2> HIDE DEF a
  <2>3. QED
    BY <1>4, <2>1, <2>2
<1>6. \A v \in Workers : \A b \in Actions : Holds(v, b)' <=> Holds(v, b)
  BY <1>2, <1>3 DEF Holds
<1>7. HeldInv' /\ OneHolder' /\ AtMostOneAppend'
  BY <1>1, <1>5, <1>6 DEF LeaseInv, HeldInv, OneHolder, AtMostOneAppend
<1>8. ASSUME NEW v \in Workers, v # w
      PROVE  FreshWorker(worker'[v], row', appends')
  <2>1. FreshWorker(worker[v], row, appends)
    BY DEF LeaseInv, FreshInv, FreshWorker
  <2>2. worker[v].stage = "appending" =>
          worker[v].action \in TableActions /\ worker[v].action # a
    <3>1. ~Holds(v, a)
      BY <1>1, <1>2, <1>8 DEF LeaseInv, OneHolder
    <3>2. worker[v].stage = "appending" => worker[v].action \in TableActions
      BY OnTableHas DEF TypeOK
    <3>3. QED
      BY <3>1, <3>2, CheckingHolds
  <2>3. QED
    BY <1>1, <1>3, <1>5, <1>8, <2>1, <2>2 DEF FreshWorker
<1>9. FreshWorker(worker'[w], row', appends')
  BY <1>3 DEF FreshWorker, Checking
<1>10. QED
  BY <1>7, <1>8, <1>9 DEF LeaseInv, FreshInv, FreshWorker

LEMMA LeaseWorker ==
    ASSUME TypeOK, MarkInv, LeaseInv, NEW w \in Workers, WorkerStep(w)
    PROVE  LeaseInv'
<1> DEFINE a == worker[w].action
<1>1. worker[w].stage # "idle" => a \in Actions
  BY DEF TypeOK
<1>2. FreshWorker(worker[w], row, appends)
  BY DEF LeaseInv, FreshInv, FreshWorker
<1>3. ASSUME NEW s, worker'[w].stage = s, worker'[w].action = a,
             s \notin Checking \cup {"appending"},
             worker[w].stage \notin {"idle", "picked"},
             row' = row, appends' = appends,
             \A v \in Workers : v # w => worker'[v] = worker[v]
      PROVE  LeaseInv'
  BY <1>3, LeaseMove DEF Holds, FreshWorker
<1>4. ASSUME NEW s, worker'[w].stage = s, worker'[w].action = a,
             worker'[w].tried = worker[w].tried,
             worker[w].stage \in Checking, s # "appending",
             row' = row, appends' = appends,
             \A v \in Workers : v # w => worker'[v] = worker[v]
      PROVE  LeaseInv'
  <2>1. FreshWorker(worker'[w], row', appends')
    BY <1>2, <1>4 DEF FreshWorker
  <2>2. worker[w].stage \notin {"idle", "picked"}
    BY <1>4 DEF Checking
  <2>3. QED
    BY <1>4, <2>1, <2>2, LeaseMove DEF Holds
<1>5. ASSUME Return(w), row' = row, appends' = appends  PROVE LeaseInv'
  BY <1>5, ReturnEffect, LeaseMove DEF Holds, FreshWorker, Checking
<1>6. ASSUME NEW b \in Actions, Pick(w, b)  PROVE LeaseInv'
  BY <1>6, PickEffect, LeaseMove
     DEF Holds, FreshWorker, Checking, Pick, db, provider
<1>7. CASE Load(w)
  <2>1. appends' = appends /\ row' = row /\ a \in Actions
    BY <1>1, <1>7 DEF Load, provider
  <2>2. FreshWorker(worker'[w], row', appends') \/ Return(w)
    BY <1>7, <2>1, LoadEffect DEF FreshWorker
  <2>3. QED
    BY <1>5, <1>7, <2>1, <2>2, LoadEffect, LeaseMove DEF Holds
<1>8. CASE Validate(w)
  BY <1>3, <1>4, <1>8, ValidateEffect
     DEF Validate, Checking, db, provider
<1>9. CASE CheckHeaders(w)
  BY <1>4, <1>9, GotoEffect DEF CheckHeaders, Checking, db, provider
<1>10. CASE FindKey(w)
  BY <1>4, <1>10, GotoEffect, NumberEffect
     DEF FindKey, Checking, db, provider
<1>11. CASE Recheck(w)
  BY <1>3, <1>11, GotoEffect, NumberEffect
     DEF Recheck, Checking, db, provider
<1>12. CASE ReadBack(w) \/ RunAgent(w)
  BY <1>3, <1>12, GotoEffect DEF ReadBack, RunAgent, Checking, db, provider
<1>13. CASE Complete(w) \/ Retry(w) \/ Fail(w)
  <2>1. /\ worker[w].stage \in {"verified", "retry", "refuse", "fail"}
        /\ Return(w) /\ appends' = appends
    BY <1>13 DEF Complete, Retry, Fail, provider
  <2>2. a \in Actions /\ Holds(w, a)
    BY <1>1, <2>1 DEF Holds
  <2>3. \E c : SetRow(a, c)
    BY <1>13 DEF Complete, Retry, Fail, Ends
  <2>4. QED
    BY <2>1, <2>2, <2>3, LeaseReturn
<1>14. CASE Die(w)
  BY <1>5, <1>14 DEF Die, db, provider
<1>15. QED
  BY <1>6, <1>7, <1>8, <1>9, <1>10, <1>11, <1>12, <1>13, <1>14,
     LeaseClaim, LeaseDecide, LeaseAppend DEF WorkerStep

LEMMA LeaseWeb ==
    ASSUME TypeOK, LeaseInv, NEW r \in Requests,
           CommitCreate(r) \/ CommitApprove(r) \/ CommitCancel(r)
    PROVE  LeaseInv'
<1> DEFINE a == web[r].action
<1>1. /\ a \in Actions /\ row[a] \in Rows
      /\ worker' = worker /\ appends' = appends
  BY DEF TypeOK, CommitCreate, CommitApprove, CommitCancel, provider
<1>2. CASE row' = row
  BY <1>1, <1>2 DEF LeaseInv, HeldInv, OneHolder, FreshInv, AtMostOneAppend,
                    Holds
<1>3. ASSUME row[a].status \in {"absent", "awaiting_approval", "queued"}
      PROVE  \A w \in Workers : ~Holds(w, a)
  BY <1>1, <1>3 DEF LeaseInv, HeldInv
<1>4. ASSUME NEW s, NEW l
      PROVE  /\ [row[a] EXCEPT !.status = s, !.schema = l].attempted
                   = row[a].attempted
             /\ [row[a] EXCEPT !.status = s, !.approved = TRUE].attempted
                   = row[a].attempted
             /\ [row[a] EXCEPT !.status = s].attempted = row[a].attempted
  BY <1>1 DEF Rows
<1>5. CASE CommitCreate(r)
  BY <1>1, <1>2, <1>3, <1>4, <1>5, LeaseRow DEF CommitCreate
<1>6. CASE CommitApprove(r)
  BY <1>1, <1>2, <1>3, <1>4, <1>6, LeaseRow DEF CommitApprove
<1>7. CASE CommitCancel(r)
  BY <1>1, <1>2, <1>3, <1>4, <1>7, LeaseRow DEF CommitCancel, Cancellable
<1>8. QED
  BY <1>5, <1>6, <1>7

LEMMA LeaseStep ==
    ASSUME MayOverrun = FALSE, TypeOK, MarkInv, LeaseInv, [Next]_vars
    PROVE  LeaseInv'
<1>1. ASSUME row' = row, worker' = worker, appends' = appends
      PROVE  LeaseInv'
  BY <1>1 DEF LeaseInv, HeldInv, OneHolder, FreshInv, AtMostOneAppend, Holds
<1>2. ASSUME NEW r \in Requests, NEW a \in Actions,
             BeginCreate(r, a) \/ BeginApprove(r, a) \/ BeginCancel(r, a)
      PROVE  LeaseInv'
  BY <1>1, <1>2 DEF BeginCreate, BeginApprove, BeginCancel, db, provider
<1>3. ASSUME NEW a \in Actions, Reanalyze(a)  PROVE LeaseInv'
  <2> DEFINE c == [row[a] EXCEPT !.status = "deleted", !.lease = "none"]
  <2>1. c.status = "deleted" /\ c.attempted = row[a].attempted
    BY DEF TypeOK, Rows
  <2>2. SetRow(a, c) /\ worker' = worker /\ appends' = appends
    BY <1>3 DEF Reanalyze, provider
  <2> HIDE DEF c
  <2>3. QED
    BY <2>1, <2>2, LeaseRow
<1>4. ASSUME NEW a \in Actions, Lapse(a)  PROVE LeaseInv'
  <2> DEFINE c == [row[a] EXCEPT !.lease = "lapsed"]
  <2>1. c.attempted = row[a].attempted
    BY DEF TypeOK, Rows
  <2>2. /\ SetRow(a, c) /\ worker' = worker /\ appends' = appends
        /\ \A w \in Workers : ~Holds(w, a)
    BY <1>4 DEF Lapse, provider
  <2> HIDE DEF c
  <2>3. QED
    BY <2>1, <2>2, LeaseRow
<1>5. ASSUME NEW w \in Workers, Crash(w)  PROVE LeaseInv'
  BY <1>5, ReturnEffect, LeaseMove
     DEF Crash, Holds, FreshWorker, Checking, db, provider
<1>6. ASSUME NEW a \in TableActions, LandAppend(a)  PROVE LeaseInv'
  BY <1>1, <1>6 DEF LandAppend, db
<1>7. ASSUME OwnerStep  PROVE LeaseInv'
  BY <1>1, <1>7 DEF OwnerStep, db
<1>8. CASE UNCHANGED vars
  BY <1>1, <1>8 DEF vars
<1>9. QED
  BY <1>2, <1>3, <1>4, <1>5, <1>6, <1>7, <1>8, LeaseWorker, LeaseWeb
     DEF Next, EditRow, CopyRow, ChangeHeaders, SaveTable, DisableTable

LEMMA LeaseInit == Init => LeaseInv
<1> SUFFICES ASSUME Init  PROVE LeaseInv
  OBVIOUS
<1>1. \A w \in Workers : worker[w].stage = "idle"
  BY DEF Init, IdleWorker
<1>2. HeldInv /\ OneHolder /\ FreshInv
  BY <1>1 DEF HeldInv, OneHolder, FreshInv, Holds, Checking
<1>3. AtMostOneAppend
  BY DEF Init, AtMostOneAppend
<1>4. QED
  BY <1>2, <1>3 DEF LeaseInv

LEMMA LeaseAlways ==
    ASSUME MayOverrun = FALSE
    PROVE  Spec => [](TypeOK /\ MarkInv /\ LeaseInv)
<1>1. Init => TypeOK /\ MarkInv /\ LeaseInv
  BY TypeInit, MarkInit, LeaseInit
<1>2. TypeOK /\ MarkInv /\ LeaseInv /\ [Next]_vars
        => TypeOK' /\ MarkInv' /\ LeaseInv'
  BY TypeStep, MarkStep, LeaseStep
<1>3. QED
  BY <1>1, <1>2, PTL DEF Spec

(* While no worker outlasts its lease, the lease works as a lock: two       *)
(* workers never carry out the same execution (process_next_execution).    *)
THEOREM LeaseIsLock ==
    ASSUME MayOverrun = FALSE
    PROVE  Spec => []OneHolder
<1>1. LeaseInv => OneHolder
  BY DEF LeaseInv
<1>2. QED
  BY <1>1, LeaseAlways, PTL

(* While no worker outlasts its lease, the append call of an approved      *)
(* action is issued at most once over all crashes, retries, late answers   *)
(* and edits of the sheet (execute_table_plan).                            *)
THEOREM AppendsOnce ==
    ASSUME MayOverrun = FALSE
    PROVE  Spec => []AtMostOneAppend
<1>1. LeaseInv => AtMostOneAppend
  BY DEF LeaseInv
<1>2. QED
  BY <1>1, LeaseAlways, PTL
=============================================================================
