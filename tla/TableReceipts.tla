---------------------------- MODULE TableReceipts ----------------------------
(***************************************************************************)
(* Why a receipt tells the truth: it stands for a row that was appended,   *)
(* for an action shown as verified, and for one analysis of its email.  And *)
(* that TableAction implements ActionPromise, while leases hold.           *)
(* Proved for every value of the constants of TableAction.                 *)
(***************************************************************************)
EXTENDS TableSafety

(* Every row of the sheet, every number to read back and every run that    *)
(* verified a table action goes back to an append of this program.         *)
FoundWorker(x, n) ==
    /\ x.number # 0 => /\ x.stage # "idle"
                       /\ x.action \in TableActions
                       /\ n[x.action] > 0
    /\ x.stage = "reading" => x.number # 0
    /\ x.stage = "verified" /\ x.action \in TableActions => x.number # 0
    /\ x.stage = "agent" => x.action \notin TableActions

FoundInv ==
    /\ \A a \in TableActions :
         Keyed(a) # {} \/ inflight[a] > 0 => appends[a] > 0
    /\ \A w \in Workers : FoundWorker(worker[w], appends)

(* Removed rows have no receipt and stay removed; a row comes only after   *)
(* those of its email's earlier analyses were removed.                     *)
OlderGone(a) == \A b \in Older[a] : row[b].status = "deleted"

ChainInv ==
    /\ \A a \in Actions : ~Exists(a) => a \notin receipts
    /\ \A a \in Actions : Exists(a) => OlderGone(a)
    /\ \A r \in Requests :
         web[r].stage = "creating" => OlderGone(web[r].action)

(* A receipt was written after an append, with or without the lease.       *)
BackedInv == \A a \in receipts : appends[a] > 0

-----------------------------------------------------------------------------
(* Nothing is found, read back or recorded that was not appended.          *)

LEMMA CellsKept ==
    ASSUME FoundInv, sheet' = sheet, inflight' = inflight, appends' = appends
    PROVE  \A a \in TableActions :
             (Keyed(a) # {} \/ inflight[a] > 0 => appends[a] > 0)'
BY DEF FoundInv, Keyed, Empty

(* A step that moves one worker and keeps the sheet.                       *)
LEMMA FoundMove ==
    ASSUME FoundInv, sheet' = sheet, inflight' = inflight, appends' = appends,
           NEW w \in Workers, FoundWorker(worker'[w], appends),
           \A v \in Workers : v # w => worker'[v] = worker[v]
    PROVE  FoundInv'
<1>1. \A v \in Workers : FoundWorker(worker'[v], appends')
  BY DEF FoundInv
<1>2. QED
  BY <1>1, CellsKept DEF FoundInv

(* A step that keeps the workers and puts rows only where a call stands.   *)
LEMMA FoundSheet ==
    ASSUME FoundInv, worker' = worker, appends' = appends, inflight' = inflight,
           NEW a \in TableActions, appends[a] > 0,
           \A b \in TableActions : b # a => sheet'[b] = sheet[b]
    PROVE  FoundInv'
<1>1. \A b \in TableActions :
        (Keyed(b) # {} \/ inflight[b] > 0 => appends[b] > 0)'
  BY DEF FoundInv, Keyed, Empty
<1>2. QED
  BY <1>1 DEF FoundInv

LEMMA FoundAppend ==
    ASSUME TypeOK, FoundInv, NEW w \in Workers, AppendRow(w)
    PROVE  FoundInv'
<1> DEFINE a == worker[w].action
<1>1. a \in TableActions /\ worker[w].stage = "appending"
  BY OnTableHas DEF TypeOK, AppendRow
<1>2. /\ appends'[a] = appends[a] + 1
      /\ \A b \in TableActions : b # a => appends'[b] = appends[b]
  <2>1. appends' = [appends EXCEPT ![a] = @ + 1]
    BY DEF AppendRow
  <2> HIDE DEF a
  <2>2. QED
    BY <1>1, <2>1 DEF TypeOK
<1>3. \A b \in TableActions : b # a => sheet'[b] = sheet[b]
                                       /\ inflight'[b] = inflight[b]
  BY <1>1 DEF AppendRow, TypeOK
<1>4. appends[a] \in Nat
  BY <1>1 DEF TypeOK
<1>5. \A b \in TableActions : appends[b] > 0 => appends'[b] > 0
  BY <1>2, <1>4
<1>6. \A b \in TableActions :
        (Keyed(b) # {} \/ inflight[b] > 0 => appends[b] > 0)'
  <2>1. appends'[a] > 0
    BY <1>2, <1>4
  <2>2. QED
    BY <1>2, <1>3, <2>1 DEF FoundInv, Keyed, Empty
<1>7. /\ worker'[w].action = a
      /\ \A v \in Workers : v # w => worker'[v] = worker[v]
      /\ \/ worker'[w].stage = "reading" /\ worker'[w].number # 0
         \/ /\ worker'[w].stage = "rechecking"
            /\ worker'[w].number = worker[w].number
  <2>1. \/ Goto(w, "rechecking")
        \/ \E n \in RowNumbers :
             SetWorker(w, [worker[w] EXCEPT !.stage = "reading", !.number = n])
    BY DEF AppendRow
  <2>2. CASE Goto(w, "rechecking")
    BY <2>2, GotoEffect
  <2>3. ASSUME NEW n \in RowNumbers,
               SetWorker(w, [worker[w] EXCEPT !.stage = "reading", !.number = n])
        PROVE  /\ worker'[w].stage = "reading" /\ worker'[w].number # 0
               /\ worker'[w].action = a
               /\ \A v \in Workers : v # w => worker'[v] = worker[v]
    <3>1. n # 0
      BY BoundsAssumption
    <3>2. worker[w] \in WorkerStates
      BY DEF TypeOK
    <3>3. /\ worker'[w] = [worker[w] EXCEPT !.stage = "reading", !.number = n]
          /\ \A v \in Workers : v # w => worker'[v] = worker[v]
      BY <2>3, SetWorkerEffect
    <3>4. QED
      BY <3>1, <3>2, <3>3 DEF WorkerStates
  <2>4. CASE \E n \in RowNumbers :
             SetWorker(w, [worker[w] EXCEPT !.stage = "reading", !.number = n])
    <3>1. PICK n \in RowNumbers :
             SetWorker(w, [worker[w] EXCEPT !.stage = "reading", !.number = n])
      BY <2>4
    <3>2. QED
      BY <2>3, <3>1
  <2>5. QED
    BY <2>1, <2>2, <2>4
<1>8. FoundWorker(worker'[w], appends')
  BY <1>1, <1>2, <1>4, <1>7 DEF FoundWorker
<1>9. \A v \in Workers : v # w => FoundWorker(worker'[v], appends')
  BY <1>5, <1>7 DEF FoundInv, FoundWorker
<1>10. QED
  BY <1>6, <1>8, <1>9 DEF FoundInv

LEMMA FoundWorkers ==
    ASSUME TypeOK, FoundInv, NEW w \in Workers, WorkerStep(w)
    PROVE  FoundInv'
<1> DEFINE a == worker[w].action
<1>1. FoundWorker(worker[w], appends)
  BY DEF FoundInv
<1>2. ASSUME Return(w), provider' = provider  PROVE FoundInv'
  BY <1>2, ReturnEffect, FoundMove DEF FoundWorker, provider
<1>3. ASSUME worker'[w].action = a, worker'[w].number = worker[w].number,
             \A v \in Workers : v # w => worker'[v] = worker[v],
             worker[w].stage # "idle", provider' = provider,
             worker'[w].stage # "idle",
             worker'[w].stage = "reading" => worker[w].number # 0,
             worker'[w].stage = "verified" =>
               worker[w].number # 0 \/ a \notin TableActions,
             worker'[w].stage = "agent" => a \notin TableActions
      PROVE  FoundInv'
  <2>1. FoundWorker(worker'[w], appends)
    BY <1>1, <1>3 DEF FoundWorker
  <2>2. QED
    BY <1>3, <2>1, FoundMove DEF provider
<1>4. ASSUME NEW s \in {"found", "reading"}, NEW n \in RowNumbers, KeyAt(a, n),
             SetWorker(w, [worker[w] EXCEPT !.stage = s, !.number = n]),
             a \in TableActions, provider' = provider
      PROVE  FoundInv'
  <2>1. n # 0 /\ appends[a] > 0
    BY <1>4, BoundsAssumption DEF FoundInv, KeyAt
  <2>2. /\ worker'[w].stage = s /\ worker'[w].action = a
        /\ worker'[w].number = n
        /\ \A v \in Workers : v # w => worker'[v] = worker[v]
    BY <1>4, NumberEffect
  <2>3. FoundWorker(worker'[w], appends)
    BY <1>4, <2>1, <2>2 DEF FoundWorker
  <2>4. QED
    BY <1>4, <2>2, <2>3, FoundMove DEF provider
<1>5. ASSUME NEW b \in Actions, Pick(w, b)  PROVE FoundInv'
  <2>1. /\ worker'[w].stage = "picked" /\ worker'[w].number = 0
        /\ \A v \in Workers : v # w => worker'[v] = worker[v]
    BY <1>1, <1>5, PickEffect DEF FoundWorker
  <2>2. FoundWorker(worker'[w], appends)
    BY <2>1 DEF FoundWorker
  <2>3. QED
    BY <1>5, <2>1, <2>2, FoundMove DEF Pick, provider
<1>6. CASE Claim(w)
  BY <1>2, <1>3, <1>6, GotoEffect DEF Claim
<1>7. CASE Load(w)
  <2>1. provider' = provider
    BY <1>7 DEF Load, provider
  <2>2. QED
    BY <1>2, <1>3, <1>7, <2>1, LoadEffect
<1>8. CASE Validate(w)
  <2>1. provider' = provider /\ worker[w].stage = "ready"
    BY <1>8 DEF Validate, provider
  <2>2. QED
    BY <1>3, <1>8, <2>1, ValidateEffect
<1>9. CASE CheckHeaders(w)
  BY <1>3, <1>9, GotoEffect DEF CheckHeaders
<1>10. CASE FindKey(w)
  <2>1. a \in TableActions /\ provider' = provider
    BY <1>10, OnTableHas DEF FindKey, TypeOK, provider
  <2>2. CASE \E s \in {"found", "refuse", "retry"} : Goto(w, s)
    BY <1>3, <1>10, <2>1, <2>2, GotoEffect DEF FindKey
  <2>3. ASSUME NEW n \in RowNumbers, KeyAt(a, n),
               SetWorker(w, [worker[w] EXCEPT !.stage = "found", !.number = n])
        PROVE  FoundInv'
    BY <1>4, <2>1, <2>3
  <2>4. QED
    BY <1>10, <2>2, <2>3 DEF FindKey
<1>11. CASE Decide(w)
  <2>1. provider' = provider
    BY <1>11 DEF Decide, provider
  <2>2. /\ worker[w].stage = "found" /\ worker'[w].action = a
        /\ worker'[w].number = worker[w].number
        /\ \A v \in Workers : v # w => worker'[v] = worker[v]
        /\ \/ worker'[w].stage = "reading" /\ worker[w].number # 0
           \/ worker'[w].stage \in {"refuse", "retry", "appending"}
    BY <1>11, DecideEffect
  <2>3. QED
    BY <1>3, <2>1, <2>2
<1>12. CASE Recheck(w)
  <2>1. a \in TableActions /\ provider' = provider
    BY <1>12, OnTableHas DEF Recheck, TypeOK, provider
  <2>2. CASE \E s \in {"refuse", "retry"} : Goto(w, s)
    BY <1>3, <1>12, <2>1, <2>2, GotoEffect DEF Recheck
  <2>3. ASSUME NEW n \in RowNumbers, KeyAt(a, n),
               SetWorker(w, [worker[w] EXCEPT !.stage = "reading", !.number = n])
        PROVE  FoundInv'
    BY <1>4, <2>1, <2>3
  <2>4. QED
    BY <1>12, <2>2, <2>3 DEF Recheck
<1>13. CASE ReadBack(w)
  <2>1. worker[w].number # 0
    BY <1>1, <1>13 DEF FoundWorker, ReadBack
  <2>2. /\ worker[w].stage = "reading" /\ provider' = provider
        /\ \E s \in {"verified", "refuse", "retry"} : Goto(w, s)
    BY <1>13 DEF ReadBack
  <2>3. QED
    BY <1>3, <2>1, <2>2, GotoEffect
<1>14. CASE RunAgent(w)
  <2>1. a \notin TableActions
    BY <1>1, <1>14 DEF FoundWorker, RunAgent
  <2>2. QED
    BY <1>3, <1>14, <2>1, GotoEffect DEF RunAgent
<1>15. CASE Complete(w) \/ Retry(w) \/ Fail(w) \/ Die(w)
  BY <1>2, <1>15 DEF Complete, Retry, Fail, Die
<1>16. QED
  BY <1>5, <1>6, <1>7, <1>8, <1>9, <1>10, <1>11, <1>12, <1>13, <1>14, <1>15,
     FoundAppend DEF WorkerStep

LEMMA FoundStep ==
    ASSUME TypeOK, FoundInv, [Next]_vars
    PROVE  FoundInv'
<1>1. ASSUME worker' = worker, provider' = provider  PROVE FoundInv'
  BY <1>1, CellsKept DEF FoundInv, provider
<1>2. ASSUME NEW r \in Requests
      PROVE  /\ \A a \in Actions :
                  BeginCreate(r, a) \/ BeginApprove(r, a) \/ BeginCancel(r, a)
                    => FoundInv'
             /\ CommitCreate(r) \/ CommitApprove(r) \/ CommitCancel(r)
                  => FoundInv'
  BY <1>1 DEF BeginCreate, BeginApprove, BeginCancel, CommitCreate,
              CommitApprove, CommitCancel
<1>3. ASSUME NEW a \in Actions, Reanalyze(a) \/ Lapse(a)  PROVE FoundInv'
  BY <1>1, <1>3 DEF Reanalyze, Lapse
<1>4. ASSUME NEW w \in Workers, Crash(w)  PROVE FoundInv'
  BY <1>4, ReturnEffect, FoundMove DEF Crash, FoundWorker, provider
<1>5. ASSUME NEW a \in TableActions, LandAppend(a)  PROVE FoundInv'
  <2>1. appends[a] > 0 /\ worker' = worker /\ appends' = appends
    BY <1>5 DEF LandAppend, FoundInv
  <2>2. \A b \in TableActions : b # a => sheet'[b] = sheet[b]
                                         /\ inflight'[b] = inflight[b]
    BY <1>5 DEF LandAppend, TypeOK
  <2>3. \A b \in TableActions :
          (Keyed(b) # {} \/ inflight[b] > 0 => appends[b] > 0)'
    BY <2>1, <2>2 DEF FoundInv, Keyed, Empty
  <2>4. QED
    BY <2>1, <2>3 DEF FoundInv
<1>6. ASSUME OwnerStep, sheet' = sheet  PROVE FoundInv'
  BY <1>1, <1>6 DEF OwnerStep, provider
<1>7. ASSUME NEW a \in TableActions, NEW n \in RowNumbers, EditRow(a, n)
      PROVE  FoundInv'
  <2>1. n \in Keyed(a)
    BY <1>7 DEF EditRow, Keyed, Empty
  <2>2. appends[a] > 0
    BY <2>1 DEF FoundInv
  <2>3. \A b \in TableActions : b # a => sheet'[b] = sheet[b]
    BY <1>7 DEF EditRow, TypeOK
  <2>4. worker' = worker /\ appends' = appends /\ inflight' = inflight
    BY <1>7 DEF EditRow, OwnerStep
  <2>5. QED
    BY <2>2, <2>3, <2>4, FoundSheet
<1>8. ASSUME NEW a \in TableActions, NEW n \in RowNumbers,
             NEW m \in RowNumbers, CopyRow(a, m, n)
      PROVE  FoundInv'
  <2>1. appends[a] > 0
    BY <1>8 DEF CopyRow, FoundInv
  <2>2. \E c : sheet' = [sheet EXCEPT ![a] = c]
    BY <1>8 DEF CopyRow
  <2>3. \A b \in TableActions : b # a => sheet'[b] = sheet[b]
    BY <2>2 DEF TypeOK
  <2>4. worker' = worker /\ appends' = appends /\ inflight' = inflight
    BY <1>8 DEF CopyRow, OwnerStep
  <2>5. QED
    BY <2>1, <2>3, <2>4, FoundSheet
<1>9. CASE UNCHANGED vars
  BY <1>1, <1>9 DEF vars, provider
<1>10. QED
  BY <1>2, <1>3, <1>4, <1>5, <1>6, <1>7, <1>8, <1>9, FoundWorkers
     DEF Next, ChangeHeaders, SaveTable, DisableTable

-----------------------------------------------------------------------------
(* What a step may do to the status, the trail and the receipt of an       *)
(* action.                                                                 *)

Still(a) == /\ row'[a].status = row[a].status
            /\ event'[a] = event[a]
            /\ a \in receipts' <=> a \in receipts

Becoming(a, status, what) ==
    /\ row'[a].status = status
    /\ event'[a] = what
    /\ status # "completed_verified" => (a \in receipts' <=> a \in receipts)

Created(a) ==
    /\ row[a].status = "absent"
    /\ \E r \in Requests : web[r].stage = "creating" /\ web[r].action = a
    /\ Becoming(a, "awaiting_approval", "plan_created")

Decided(a) ==
    \/ /\ row[a].status = "awaiting_approval"
       /\ Becoming(a, "queued", "approved")
    \/ row[a].status \in Cancellable /\ Becoming(a, "cancelled", "cancelled")
    \/ /\ Current(a) /\ a \notin receipts
       /\ Becoming(a, "deleted", "none")

Started(a) ==
    \/ Claimable(a) /\ Becoming(a, "running", event[a])
    \/ /\ \E w \in Workers : Holds(w, a)
       /\ row[a].status # "deleted"
       /\ Becoming(a, row[a].status, "started")
       /\ a \in receipts' <=> a \in receipts

Verified(a) ==
    /\ a \in TableActions /\ a \in receipts'
    /\ \E w \in Workers : /\ worker[w].stage = "verified"
                          /\ worker[w].action = a
    /\ Becoming(a, "completed_verified", "tool_completed")

Closed(a) ==
    /\ Exists(a)
    /\ \E w \in Workers : Holds(w, a)
    /\ \/ Verified(a)
       \/ a \notin TableActions /\ Becoming(a, "succeeded", "tool_completed")
       \/ Becoming(a, "queued", "retry_queued")
       \/ \E s \in {"failed", "verification_failed"} :
            Becoming(a, s, "failed")

Moves(a) == Still(a) \/ Created(a) \/ Decided(a) \/ Started(a) \/ Closed(a)

LEMMA AllStill ==
    ASSUME row' = row, event' = event, receipts' = receipts
    PROVE  \A a \in Actions : Moves(a)
BY DEF Moves, Still

(* A step that writes one row, its event and perhaps its receipt.          *)
LEMMA OneMoves ==
    ASSUME TypeOK, NEW a \in Actions, NEW c, SetRow(a, c), NEW e \in Events,
           event' = [event EXCEPT ![a] = e],
           receipts' = receipts \/ receipts' = receipts \cup {a}
    PROVE  /\ row'[a] = c /\ event'[a] = e
           /\ Moves(a) => \A b \in Actions : Moves(b)
<1>1. row'[a] = c /\ \A b \in Actions : b # a => row'[b] = row[b]
  BY SetRowEffect
<1>2. event'[a] = e /\ \A b \in Actions : b # a => event'[b] = event[b]
  BY DEF TypeOK
<1>3. \A b \in Actions : b # a => Still(b)
  BY <1>1, <1>2 DEF Still
<1>4. QED
  BY <1>1, <1>2, <1>3 DEF Moves

(* A step that writes one row and leaves the trail alone.                  *)
LEMMA RowMoves ==
    ASSUME TypeOK, NEW a \in Actions, NEW c, SetRow(a, c),
           event' = event, receipts' = receipts
    PROVE  /\ row'[a] = c
           /\ Moves(a) => \A b \in Actions : Moves(b)
<1>1. row'[a] = c /\ \A b \in Actions : b # a => row'[b] = row[b]
  BY SetRowEffect
<1>2. \A b \in Actions : b # a => Still(b)
  BY <1>1 DEF Still
<1>3. QED
  BY <1>1, <1>2 DEF Moves

LEMMA ColumnsSet ==
    ASSUME NEW x \in Rows, NEW s, NEW l, NEW n
    PROVE  /\ [x EXCEPT !.status = s].status = s
           /\ [x EXCEPT !.status = s, !.schema = l].status = s
           /\ [x EXCEPT !.status = s, !.approved = TRUE].status = s
           /\ [x EXCEPT !.status = s, !.lease = l].status = s
           /\ [x EXCEPT !.status = s, !.lease = l, !.attempts = n].status = s
           /\ [x EXCEPT !.attempted = TRUE].status = x.status
           /\ [x EXCEPT !.lease = l].status = x.status
BY DEF Rows

LEMMA WebMoves ==
    ASSUME TypeOK, NEW r \in Requests,
           CommitCreate(r) \/ CommitApprove(r) \/ CommitCancel(r)
    PROVE  \A a \in Actions : Moves(a)
<1> DEFINE a == web[r].action
<1>1. /\ a \in Actions /\ row[a] \in Rows /\ receipts' = receipts
      /\ {"plan_created", "approved", "cancelled"} \subseteq Events
  BY DEF TypeOK, Events, CommitCreate, CommitApprove, CommitCancel
<1>2. CASE row' = row /\ event' = event
  BY <1>1, <1>2, AllStill
<1>3. CASE CommitCreate(r) /\ ~(row' = row /\ event' = event)
  <2> DEFINE c == [row[a] EXCEPT !.status = "awaiting_approval",
                                 !.schema = web[r].schema]
  <2>1. /\ row[a].status = "absent" /\ web[r].stage = "creating"
        /\ SetRow(a, c) /\ event' = [event EXCEPT ![a] = "plan_created"]
    BY <1>3 DEF CommitCreate
  <2>2. c.status = "awaiting_approval"
    BY <1>1, ColumnsSet
  <2> HIDE DEF c
  <2>3. row'[a] = c /\ event'[a] = "plan_created"
    BY <1>1, <2>1, OneMoves
  <2>4. Moves(a)
    BY <1>1, <2>1, <2>2, <2>3 DEF Moves, Created, Becoming
  <2>5. QED
    BY <1>1, <2>1, <2>4, OneMoves
<1>4. CASE CommitApprove(r) /\ ~(row' = row /\ event' = event)
  <2> DEFINE c == [row[a] EXCEPT !.status = "queued", !.approved = TRUE]
  <2>1. /\ row[a].status = "awaiting_approval"
        /\ SetRow(a, c) /\ event' = [event EXCEPT ![a] = "approved"]
    BY <1>4 DEF CommitApprove
  <2>2. c.status = "queued"
    BY <1>1, ColumnsSet
  <2> HIDE DEF c
  <2>3. row'[a] = c /\ event'[a] = "approved"
    BY <1>1, <2>1, OneMoves
  <2>4. Moves(a)
    BY <1>1, <2>1, <2>2, <2>3 DEF Moves, Decided, Becoming
  <2>5. QED
    BY <1>1, <2>1, <2>4, OneMoves
<1>5. CASE CommitCancel(r) /\ ~(row' = row /\ event' = event)
  <2> DEFINE c == [row[a] EXCEPT !.status = "cancelled"]
  <2>1. /\ row[a].status \in Cancellable
        /\ SetRow(a, c) /\ event' = [event EXCEPT ![a] = "cancelled"]
    BY <1>5 DEF CommitCancel
  <2>2. c.status = "cancelled"
    BY <1>1, ColumnsSet
  <2> HIDE DEF c
  <2>3. row'[a] = c /\ event'[a] = "cancelled"
    BY <1>1, <2>1, OneMoves
  <2>4. Moves(a)
    BY <1>1, <2>1, <2>2, <2>3 DEF Moves, Decided, Becoming
  <2>5. QED
    BY <1>1, <2>1, <2>4, OneMoves
<1>6. QED
  BY <1>2, <1>3, <1>4, <1>5

LEMMA ReanalyzeMoves ==
    ASSUME TypeOK, NEW a \in Actions, Reanalyze(a)
    PROVE  \A b \in Actions : Moves(b)
<1> DEFINE c == [row[a] EXCEPT !.status = "deleted", !.lease = "none"]
<1>1. /\ Current(a) /\ a \notin receipts /\ receipts' = receipts
      /\ SetRow(a, c) /\ event' = [event EXCEPT ![a] = "none"]
      /\ "none" \in Events /\ row[a] \in Rows
  BY DEF Reanalyze, Events, TypeOK
<1>2. c.status = "deleted"
  BY <1>1, ColumnsSet
<1> HIDE DEF c
<1>3. row'[a] = c /\ event'[a] = "none"
  BY <1>1, OneMoves
<1>4. Moves(a)
  BY <1>1, <1>2, <1>3 DEF Moves, Decided, Becoming
<1>5. QED
  BY <1>1, <1>4, OneMoves

LEMMA EndsMoves ==
    ASSUME TypeOK, NEW w \in Workers, NEW a \in Actions,
           worker[w].action = a, worker[w].stage \notin {"idle", "picked"},
           Exists(a), NEW s, NEW e \in Events, Ends(a, s, e),
           \/ /\ receipts' = receipts
              /\ \/ /\ s = "succeeded" /\ e = "tool_completed"
                    /\ a \notin TableActions
                 \/ s = "queued" /\ e = "retry_queued"
                 \/ s \in {"failed", "verification_failed"} /\ e = "failed"
           \/ /\ receipts' = receipts \cup {a} /\ a \in TableActions
              /\ worker[w].stage = "verified"
              /\ s = "completed_verified" /\ e = "tool_completed"
    PROVE  \A b \in Actions : Moves(b)
<1> DEFINE c == [row[a] EXCEPT !.status = s, !.lease = "none"]
<1>1. SetRow(a, c) /\ event' = [event EXCEPT ![a] = e]
  BY DEF Ends
<1>2. c.status = s
  BY ColumnsSet DEF TypeOK
<1> HIDE DEF c
<1>3. row'[a].status = s /\ event'[a] = e
  BY <1>1, <1>2, OneMoves
<1>4. Holds(w, a)
  BY DEF Holds
<1>5. CASE receipts' = receipts
  <2>1. s = "completed_verified" => /\ a \in TableActions /\ a \in receipts'
                                    /\ worker[w].stage = "verified"
                                    /\ e = "tool_completed"
    BY <1>5
  <2>2. Closed(a)
    BY <1>3, <1>4, <1>5, <2>1 DEF Closed, Becoming, Verified
  <2>3. QED
    BY <1>1, <1>5, <2>2, OneMoves DEF Moves
<1>6. CASE /\ receipts' = receipts \cup {a} /\ a \in TableActions
           /\ worker[w].stage = "verified"
           /\ s = "completed_verified" /\ e = "tool_completed"
  <2>1. Closed(a)
    BY <1>3, <1>4, <1>6 DEF Closed, Becoming, Verified
  <2>2. QED
    BY <1>1, <1>6, <2>1, OneMoves DEF Moves
<1>7. QED
  BY <1>5, <1>6

LEMMA WorkerMoves ==
    ASSUME TypeOK, NEW w \in Workers, WorkerStep(w)
    PROVE  \A b \in Actions : Moves(b)
<1> DEFINE a == worker[w].action
<1>1. worker[w].stage # "idle" => a \in Actions /\ row[a] \in Rows
  BY DEF TypeOK
<1>2. {"started", "tool_completed", "retry_queued", "failed"} \subseteq Events
  BY DEF Events
<1>3. CASE \E b \in Actions : Pick(w, b)
  BY <1>3, AllStill DEF Pick, db
<1>4. CASE Claim(w)
  <2> DEFINE n == Counted(row[a].attempts)
             c == [row[a] EXCEPT !.status = "running", !.lease = "held",
                                 !.attempts = n]
  <2>1. a \in Actions /\ row[a] \in Rows
    BY <1>1, <1>4 DEF Claim
  <2>2. event' = event /\ receipts' = receipts
    BY <1>4 DEF Claim
  <2>3. (Claimable(a) /\ SetRow(a, c)) \/ row' = row
    BY <1>4 DEF Claim
  <2> HIDE DEF n
  <2>4. c.status = "running"
    BY <2>1, ColumnsSet
  <2> HIDE DEF c
  <2>5. CASE Claimable(a) /\ SetRow(a, c)
    <3>1. Moves(a)
      BY <2>1, <2>2, <2>4, <2>5, RowMoves DEF Moves, Started, Becoming
    <3>2. QED
      BY <2>1, <2>2, <2>5, <3>1, RowMoves
  <2>6. QED
    BY <2>2, <2>3, <2>5, AllStill
<1>5. CASE Load(w)
  <2>1. /\ a \in Actions /\ row' = row /\ receipts' = receipts
        /\ worker[w].stage = "claimed"
        /\ \/ event' = event
           \/ /\ event' = [event EXCEPT ![a] = "started"]
              /\ row[a].status # "deleted"
    BY <1>1, <1>5 DEF Load
  <2>2. Holds(w, a)
    BY <2>1 DEF Holds
  <2>3. CASE /\ event' = [event EXCEPT ![a] = "started"]
             /\ row[a].status # "deleted"
    <3>1. /\ event'[a] = "started"
          /\ \A b \in Actions : b # a => event'[b] = event[b]
      BY <2>1, <2>3 DEF TypeOK
    <3>2. \A b \in Actions : b # a => Still(b)
      BY <2>1, <3>1 DEF Still
    <3>3. Started(a)
      BY <2>1, <2>2, <2>3, <3>1 DEF Started, Becoming
    <3>4. QED
      BY <3>2, <3>3 DEF Moves
  <2>4. QED
    BY <2>1, <2>3, AllStill
<1>6. CASE Validate(w) \/ CheckHeaders(w) \/ FindKey(w)
  BY <1>6, AllStill DEF Validate, CheckHeaders, FindKey, db
<1>7. CASE Decide(w)
  <2> DEFINE c == [row[a] EXCEPT !.attempted = TRUE]
  <2>1. /\ a \in Actions /\ row[a] \in Rows
        /\ event' = event /\ receipts' = receipts
        /\ row' = row \/ SetRow(a, c)
    BY <1>1, <1>7, DecideEffect DEF Decide
  <2>2. c.status = row[a].status
    BY <2>1, ColumnsSet
  <2> HIDE DEF c
  <2>3. CASE SetRow(a, c)
    <3>1. Moves(a)
      BY <2>1, <2>2, <2>3, RowMoves DEF Moves, Still
    <3>2. QED
      BY <2>1, <2>3, <3>1, RowMoves
  <2>4. QED
    BY <2>1, <2>3, AllStill
<1>8. CASE AppendRow(w) \/ Recheck(w) \/ ReadBack(w) \/ RunAgent(w) \/ Die(w)
  BY <1>8, AllStill DEF AppendRow, Recheck, ReadBack, RunAgent, Die, db
<1>9. CASE Complete(w)
  <2>1. /\ a \in Actions /\ worker[w].stage = "verified" /\ Exists(a)
        /\ \/ /\ a \in TableActions /\ receipts' = receipts \cup {a}
              /\ Ends(a, "completed_verified", "tool_completed")
           \/ /\ receipts' = receipts /\ a \notin TableActions
              /\ Ends(a, "succeeded", "tool_completed")
    BY <1>1, <1>9 DEF Complete
  <2>2. QED
    BY <1>2, <2>1, EndsMoves
<1>10. CASE Retry(w)
  <2>1. /\ a \in Actions /\ worker[w].stage = "retry" /\ Exists(a)
        /\ receipts' = receipts
        /\ \/ Ends(a, "queued", "retry_queued")
           \/ Ends(a, "failed", "failed")
    BY <1>1, <1>10 DEF Retry
  <2>2. QED
    BY <1>2, <2>1, EndsMoves
<1>11. CASE Fail(w)
  <2>1. /\ a \in Actions /\ worker[w].stage \in {"refuse", "fail"}
        /\ Exists(a) /\ receipts' = receipts
        /\ \/ Ends(a, "verification_failed", "failed")
           \/ Ends(a, "failed", "failed")
    BY <1>1, <1>11 DEF Fail
  <2>2. QED
    BY <1>2, <2>1, EndsMoves
<1>12. QED
  BY <1>3, <1>4, <1>5, <1>6, <1>7, <1>8, <1>9, <1>10, <1>11 DEF WorkerStep

LEMMA NextMoves ==
    ASSUME TypeOK, [Next]_vars
    PROVE  \A b \in Actions : Moves(b)
<1>1. CASE UNCHANGED vars
  BY <1>1, AllStill DEF vars
<1>2. ASSUME NEW r \in Requests, NEW a \in Actions,
             BeginCreate(r, a) \/ BeginApprove(r, a) \/ BeginCancel(r, a)
      PROVE  \A b \in Actions : Moves(b)
  BY <1>2, AllStill DEF BeginCreate, BeginApprove, BeginCancel, db
<1>3. ASSUME NEW a \in Actions, Lapse(a)
      PROVE  \A b \in Actions : Moves(b)
  <2> DEFINE c == [row[a] EXCEPT !.lease = "lapsed"]
  <2>1. SetRow(a, c) /\ event' = event /\ receipts' = receipts
    BY <1>3 DEF Lapse
  <2>2. c.status = row[a].status
    BY ColumnsSet DEF TypeOK
  <2> HIDE DEF c
  <2>3. Moves(a)
    BY <2>1, <2>2, RowMoves DEF Moves, Still
  <2>4. QED
    BY <2>1, <2>3, RowMoves
<1>4. ASSUME NEW w \in Workers, Crash(w)
      PROVE  \A b \in Actions : Moves(b)
  BY <1>4, AllStill DEF Crash, db
<1>5. ASSUME NEW a \in TableActions, LandAppend(a)
      PROVE  \A b \in Actions : Moves(b)
  BY <1>5, AllStill DEF LandAppend, db
<1>6. ASSUME OwnerStep
      PROVE  \A b \in Actions : Moves(b)
  BY <1>6, AllStill DEF OwnerStep, db
<1>7. QED
  BY <1>1, <1>2, <1>3, <1>4, <1>5, <1>6, WebMoves, WorkerMoves, ReanalyzeMoves
     DEF Next, EditRow, CopyRow, ChangeHeaders, SaveTable, DisableTable

-----------------------------------------------------------------------------
(* One receipt for an email.                                               *)

LEMMA DeletedStays ==
    ASSUME NEW a \in Actions, Moves(a), row[a].status = "deleted"
    PROVE  row'[a].status = "deleted" /\ (a \in receipts' => a \in receipts)
BY DEF Moves, Still, Created, Decided, Started, Closed, Becoming, Current,
       Claimable, Cancellable, Exists

(* Only the six steps of the web requests touch a request.                 *)
LEMMA WebSteps ==
    ASSUME [Next]_vars, web' # web
    PROVE  \E q \in Requests :
             \/ \E a \in Actions :
                  BeginCreate(q, a) \/ BeginApprove(q, a) \/ BeginCancel(q, a)
             \/ RequestEnds(q)
<1>1. \A r \in Requests :
        CommitCreate(r) \/ CommitApprove(r) \/ CommitCancel(r) => RequestEnds(r)
  BY DEF CommitCreate, CommitApprove, CommitCancel
<1>2. \A a \in Actions : Reanalyze(a) \/ Lapse(a) => web' = web
  BY DEF Reanalyze, Lapse
<1>3. ASSUME NEW w \in Workers, WorkerStep(w)  PROVE web' = web
  BY <1>3 DEF WorkerStep, Pick, Claim, Load, Validate, CheckHeaders, FindKey,
              Decide, AppendRow, Recheck, ReadBack, RunAgent, Complete, Retry,
              Fail, Die
<1>4. \A w \in Workers : Crash(w) => web' = web
  BY DEF Crash
<1>5. \A a \in TableActions : LandAppend(a) => web' = web
  BY DEF LandAppend
<1>6. OwnerStep => web' = web
  BY DEF OwnerStep
<1>7. UNCHANGED vars => web' = web
  BY DEF vars
<1>8. QED
  BY <1>1, <1>2, <1>3, <1>4, <1>5, <1>6, <1>7
     DEF Next, EditRow, CopyRow, ChangeHeaders, SaveTable, DisableTable

LEMMA ChainStep ==
    ASSUME TypeOK, ChainInv, [Next]_vars
    PROVE  ChainInv'
<1>1. \A a \in Actions : Moves(a)
  BY NextMoves
<1>2. \A a \in Actions : OlderGone(a) => OlderGone(a)'
  BY <1>1, DeletedStays, ActionsAssumption DEF OlderGone
<1>3. ASSUME NEW a \in Actions, ~Exists(a)'  PROVE a \notin receipts'
  BY <1>1, <1>3 DEF ChainInv, Moves, Still, Created, Decided, Started, Closed,
                    Becoming, Verified, Exists, Claimable, Cancellable
<1>4. ASSUME NEW a \in Actions, Exists(a)'  PROVE OlderGone(a)'
  <2>1. Exists(a) \/ Created(a)
    BY <1>1, <1>4 DEF Moves, Still, Decided, Started, Closed, Becoming, Exists,
                      Claimable, Cancellable
  <2>2. OlderGone(a)
    BY <2>1 DEF ChainInv, Created
  <2>3. QED
    BY <1>2, <2>2
<1>5. ASSUME NEW r \in Requests, web'[r].stage = "creating"
      PROVE  \A b \in Older[web'[r].action] : row'[b].status = "deleted"
  <2>1. CASE web' = web
    <3>1. web[r].action \in Actions /\ OlderGone(web[r].action)
      BY <1>5, <2>1 DEF ChainInv, TypeOK
    <3>2. QED
      BY <1>2, <2>1, <3>1 DEF OlderGone
  <2>2. ASSUME NEW q \in Requests, q # r, \E s : SetWeb(q, s)
        PROVE  web'[r] = web[r]
    BY <2>2 DEF SetWeb, TypeOK
  <2>3. ASSUME web'[r] = web[r]
        PROVE  \A b \in Older[web'[r].action] : row'[b].status = "deleted"
    <3>1. web[r].action \in Actions /\ OlderGone(web[r].action)
      BY <1>5, <2>3 DEF ChainInv, TypeOK
    <3>2. QED
      BY <1>2, <2>3, <3>1 DEF OlderGone
  <2>4. ASSUME NEW q \in Requests, NEW a \in Actions, BeginCreate(q, a)
        PROVE  \A b \in Older[web'[r].action] : row'[b].status = "deleted"
    <3>1. CASE q = r
      <4>1. web'[r].action = a
        BY <2>4, <3>1 DEF BeginCreate, SetWeb, TypeOK
      <4>2. OlderGone(a)
        BY <2>4 DEF BeginCreate, Current, OlderGone
      <4>3. QED
        BY <1>2, <4>1, <4>2 DEF OlderGone
    <3>2. CASE q # r
      <4>1. \E s : SetWeb(q, s)
        BY <2>4 DEF BeginCreate
      <4>2. QED
        BY <2>2, <2>3, <3>2, <4>1
    <3>3. QED
      BY <3>1, <3>2
  <2>5. ASSUME NEW q \in Requests, NEW x, x.stage # "creating", SetWeb(q, x)
        PROVE  \A b \in Older[web'[r].action] : row'[b].status = "deleted"
    <3>1. q # r
      BY <1>5, <2>5 DEF SetWeb, TypeOK
    <3>2. QED
      BY <2>2, <2>3, <2>5, <3>1
  <2>6. ASSUME NEW q \in Requests, NEW a \in Actions,
               BeginApprove(q, a) \/ BeginCancel(q, a)
        PROVE  \A b \in Older[web'[r].action] : row'[b].status = "deleted"
    <3>1. \E s \in {"approving", "cancelling"} :
            SetWeb(q, [web[q] EXCEPT !.stage = s, !.action = a])
      BY <2>6 DEF BeginApprove, BeginCancel
    <3>2. \A s \in {"approving", "cancelling"} :
            [web[q] EXCEPT !.stage = s, !.action = a].stage # "creating"
      BY DEF TypeOK, WebStates
    <3>3. QED
      BY <2>5, <3>1, <3>2
  <2>7. ASSUME NEW q \in Requests, RequestEnds(q)
        PROVE  \A b \in Older[web'[r].action] : row'[b].status = "deleted"
    <3>1. [web[q] EXCEPT !.stage = "idle", !.action = NoAction].stage
             # "creating"
      BY DEF TypeOK, WebStates
    <3>2. QED
      BY <2>5, <2>7, <3>1 DEF RequestEnds
  <2>8. QED
    BY <2>1, <2>4, <2>6, <2>7, WebSteps
<1>6. (\A a \in Actions : Exists(a) => OlderGone(a))'
  BY <1>4
<1>7. (\A r \in Requests :
         web[r].stage = "creating" => OlderGone(web[r].action))'
  BY <1>5 DEF OlderGone
<1>8. (\A a \in Actions : ~Exists(a) => a \notin receipts)'
  BY <1>3
<1>9. QED
  BY <1>6, <1>7, <1>8 DEF ChainInv

(* An email that is analyzed again and again has at most one row that is   *)
(* recorded as verified, also when workers outlast their leases            *)
(* (analyze_email, create_execution, process_next_execution).              *)
THEOREM OneReceipt == Spec => []OneReceiptPerEmail
<1>1. Init => TypeOK /\ ChainInv
  <2> SUFFICES ASSUME Init  PROVE TypeOK /\ ChainInv
    OBVIOUS
  <2>1. /\ \A a \in Actions : row[a].status = "absent"
        /\ \A r \in Requests : web[r].stage = "idle"
        /\ receipts = {}
    BY DEF Init
  <2>2. QED
    BY <2>1, TypeInit DEF ChainInv, Exists
<1>2. TypeOK /\ ChainInv /\ [Next]_vars => TypeOK' /\ ChainInv'
  BY TypeStep, ChainStep
<1>3. TypeOK /\ ChainInv => OneReceiptPerEmail
  BY ActionsAssumption
     DEF TypeOK, ChainInv, OneReceiptPerEmail, OlderGone, Exists
<1>4. QED
  BY <1>1, <1>2, <1>3, PTL DEF Spec

-----------------------------------------------------------------------------
(* A receipt and the status tell the same story, and both are true.        *)

LEMMA AppendsGrow ==
    ASSUME TypeOK, [Next]_vars
    PROVE  \A a \in TableActions : appends[a] > 0 => appends'[a] > 0
<1>1. ASSUME NEW w \in Workers, AppendRow(w), NEW a \in TableActions
      PROVE  appends'[a] \in {appends[a], appends[a] + 1}
  <2>1. appends' = [appends EXCEPT ![worker[w].action] = @ + 1]
    BY <1>1 DEF AppendRow
  <2>2. QED
    BY <1>1, <2>1 DEF TypeOK
<1>2. \A w \in Workers, a \in TableActions :
        AppendRow(w) /\ appends[a] > 0 => appends'[a] > 0
  BY <1>1 DEF TypeOK
<1>3. ASSUME NEW w \in Workers, WorkerStep(w), ~AppendRow(w)
      PROVE  appends' = appends
  BY <1>3 DEF WorkerStep, Pick, Claim, Load, Validate, CheckHeaders, FindKey,
              Decide, Recheck, ReadBack, RunAgent, Complete, Retry, Fail, Die,
              provider
<1>4. ASSUME NEW r \in Requests
      PROVE  /\ \A a \in Actions :
                  BeginCreate(r, a) \/ BeginApprove(r, a) \/ BeginCancel(r, a)
                    => appends' = appends
             /\ CommitCreate(r) \/ CommitApprove(r) \/ CommitCancel(r)
                  => appends' = appends
  BY DEF BeginCreate, BeginApprove, BeginCancel, CommitCreate, CommitApprove,
         CommitCancel, provider
<1>5. \A a \in Actions : Reanalyze(a) \/ Lapse(a) => appends' = appends
  BY DEF Reanalyze, Lapse, provider
<1>6. \A w \in Workers : Crash(w) => appends' = appends
  BY DEF Crash, provider
<1>7. \A a \in TableActions : LandAppend(a) => appends' = appends
  BY DEF LandAppend
<1>8. OwnerStep => appends' = appends
  BY DEF OwnerStep
<1>9. UNCHANGED vars => appends' = appends
  BY DEF vars
<1>10. QED
  BY <1>2, <1>3, <1>4, <1>5, <1>6, <1>7, <1>8, <1>9
     DEF Next, EditRow, CopyRow, ChangeHeaders, SaveTable, DisableTable

LEMMA BackedStep ==
    ASSUME TypeOK, FoundInv, BackedInv, [Next]_vars
    PROVE  BackedInv'
<1>1. ASSUME NEW a \in receipts'  PROVE appends[a] > 0 /\ a \in TableActions
  <2>1. CASE a \in receipts
    BY <2>1 DEF BackedInv, TypeOK
  <2>2. CASE a \notin receipts
    <3>1. a \in Actions
      BY TypeStep, ActionsAssumption DEF TypeOK
    <3>2. Verified(a)
      BY <1>1, <2>2, <3>1, NextMoves
         DEF Moves, Still, Created, Decided, Started, Closed, Becoming,
             Cancellable
    <3>3. QED
      BY <3>2 DEF Verified, FoundInv, FoundWorker
  <2>3. QED
    BY <2>1, <2>2
<1>2. QED
  BY <1>1, AppendsGrow DEF BackedInv

(* The status of an action, its trail and its receipt agree.               *)
Agrees(a) == /\ event[a] \in EventsOf(row[a].status)
             /\ a \in receipts <=> row[a].status = "completed_verified"

AgreeInv == \A a \in Actions : Agrees(a)

LEMMA AgreeStep ==
    ASSUME HeldInv, AgreeInv, TypeOK, [Next]_vars
    PROVE  AgreeInv'
<1>1. SUFFICES ASSUME NEW a \in Actions  PROVE Agrees(a)'
  BY DEF AgreeInv
<1>2. Agrees(a) /\ Moves(a)
  BY NextMoves DEF AgreeInv
<1>3. CASE Still(a)
  BY <1>2, <1>3 DEF Still, Agrees, EventsOf
<1>4. CASE Created(a)
  BY <1>2, <1>4 DEF Created, Becoming, Agrees, EventsOf
<1>5. CASE Decided(a)
  BY <1>2, <1>5 DEF Decided, Becoming, Agrees, EventsOf, Cancellable
<1>6. CASE Started(a)
  <2>1. CASE Claimable(a) /\ Becoming(a, "running", event[a])
    BY <1>2, <2>1 DEF Claimable, Becoming, Agrees, EventsOf
  <2>2. CASE /\ \E w \in Workers : Holds(w, a)
             /\ row[a].status # "deleted"
             /\ Becoming(a, row[a].status, "started")
             /\ a \in receipts' <=> a \in receipts
    <3>1. row[a].status = "running"
      BY <2>2 DEF HeldInv
    <3>2. QED
      BY <1>2, <2>2, <3>1 DEF Becoming, Agrees, EventsOf
  <2>3. QED
    BY <1>6, <2>1, <2>2 DEF Started
<1>7. CASE Closed(a)
  <2>1. row[a].status = "running"
    BY <1>7 DEF HeldInv, Closed, Exists
  <2>2. QED
    BY <1>2, <1>7, <2>1 DEF Closed, Verified, Becoming, Agrees, EventsOf
<1>8. QED
  BY <1>2, <1>3, <1>4, <1>5, <1>6, <1>7 DEF Moves

LEMMA FoundInit == Init => FoundInv /\ BackedInv
<1> SUFFICES ASSUME Init  PROVE FoundInv /\ BackedInv
  OBVIOUS
<1>1. /\ \A a \in TableActions : inflight[a] = 0
      /\ \A a \in TableActions, n \in RowNumbers : sheet[a][n] = "empty"
      /\ receipts = {}
  BY DEF Init
<1>2. \A w \in Workers : worker[w].number = 0 /\ worker[w].stage = "idle"
  BY DEF Init, IdleWorker
<1>3. QED
  BY <1>1, <1>2 DEF FoundInv, FoundWorker, BackedInv, Keyed, Empty

LEMMA AgreeAlways ==
    ASSUME MayOverrun = FALSE
    PROVE  Spec => [](TypeOK /\ AgreeInv /\ FoundInv /\ BackedInv)
<1>1. Init => AgreeInv /\ FoundInv /\ BackedInv
  <2> SUFFICES ASSUME Init  PROVE AgreeInv /\ FoundInv /\ BackedInv
    OBVIOUS
  <2>1. AgreeInv
    <3>1. /\ \A a \in Actions : row[a].status = "absent" /\ event[a] = "none"
          /\ receipts = {}
      BY DEF Init
    <3>2. QED
      BY <3>1 DEF AgreeInv, Agrees, EventsOf
  <2>2. QED
    BY <2>1, FoundInit
<1>2. LeaseInv => HeldInv
  BY DEF LeaseInv
<1>3. /\ TypeOK /\ LeaseInv /\ AgreeInv /\ FoundInv /\ BackedInv
      /\ [Next]_vars
      => AgreeInv' /\ FoundInv' /\ BackedInv'
  BY <1>2, AgreeStep, FoundStep, BackedStep
<1>4. QED
  BY <1>1, <1>3, LeaseAlways, PTL DEF Spec

(* While no worker outlasts its lease, a receipt is stored for exactly the *)
(* actions shown as verified, and each of them was appended by this        *)
(* program (execute_table_plan, process_next_execution).                   *)
THEOREM ReceiptsTellTruth ==
    ASSUME MayOverrun = FALSE
    PROVE  Spec => []ReceiptIffVerified
<1>1. TypeOK /\ AgreeInv /\ BackedInv => ReceiptIffVerified
  BY ActionsAssumption DEF AgreeInv, Agrees, BackedInv, ReceiptIffVerified
<1>2. QED
  BY <1>1, AgreeAlways, PTL

(* While no worker outlasts its lease, the newest event of an execution    *)
(* says what its status says (add_event beside every change of status).     *)
THEOREM TrailTellsTruth ==
    ASSUME MayOverrun = FALSE
    PROVE  Spec => []TrailMatchesStatus
<1>1. AgreeInv => TrailMatchesStatus
  BY DEF AgreeInv, Agrees, TrailMatchesStatus
<1>2. QED
  BY <1>1, AgreeAlways, PTL

-----------------------------------------------------------------------------
(* The promise, kept step by step.                                         *)

(* The promise, over the state of TableAction.                             *)
Phases  == [a \in Actions |-> PhaseOf(row[a].status)]
Consent == {a \in Actions : row[a].approved}
Written == {a \in TableActions : appends[a] > 0}

LEMMA PromiseIs ==
    /\ Promise!promiseVars = <<Phases, Consent, Written>>
    /\ Promise!Init <=> /\ Phases = [a \in Actions |-> "absent"]
                        /\ Consent = {} /\ Written = {}
    /\ \A a \in Actions : \A from, to :
         Promise!Moves(a, from, to)
           <=> Phases[a] \in from /\ Phases' = [Phases EXCEPT ![a] = to]
BY DEF Promise!promiseVars, Promise!Init, Promise!Moves, Phases, Consent,
       Written

LEMMA PromiseRow ==
    ASSUME TypeOK, NEW a \in Actions, NEW c, SetRow(a, c), appends' = appends
    PROVE  /\ Phases' = [Phases EXCEPT ![a] = PhaseOf(c.status)]
           /\ c.approved = row[a].approved => Consent' = Consent
           /\ c.approved => Consent' = Consent \cup {a}
           /\ Written' = Written
           /\ Phases[a] = PhaseOf(row[a].status)
<1>1. row'[a] = c /\ \A b \in Actions : b # a => row'[b] = row[b]
  BY SetRowEffect
<1>2. Phases' = [b \in Actions |-> PhaseOf(row'[b].status)]
  BY DEF Phases, PhaseOf
<1>3. Phases' = [Phases EXCEPT ![a] = PhaseOf(c.status)]
  BY <1>1, <1>2 DEF Phases
<1>4. c.approved = row[a].approved => Consent' = Consent
  BY <1>1 DEF Consent
<1>5. c.approved => Consent' = Consent \cup {a}
  BY <1>1 DEF Consent
<1>. QED  BY <1>3, <1>4, <1>5 DEF Written, Phases

LEMMA PromiseSame ==
    ASSUME TypeOK, row' = row, appends' = appends
    PROVE  UNCHANGED Promise!promiseVars
BY DEF Promise!promiseVars, PhaseOf

LEMMA PromiseQuiet ==
    ASSUME TypeOK, NEW a \in Actions, NEW c, SetRow(a, c), appends' = appends,
           c.approved = row[a].approved,
           PhaseOf(c.status) = PhaseOf(row[a].status)
    PROVE  UNCHANGED Promise!promiseVars
<1>1. Phases' = Phases
  <2>1. Phases' = [Phases EXCEPT ![a] = Phases[a]]
    BY PromiseRow
  <2>. QED  BY <2>1 DEF Phases
<1>2. Consent' = Consent /\ Written' = Written
  BY PromiseRow
<1>. QED  BY <1>1, <1>2 DEF Promise!promiseVars, Phases, Consent, Written

(* A step that takes an action to another phase and asks nobody.           *)
LEMMA PromiseTurn ==
    ASSUME TypeOK, NEW a \in Actions, NEW c, SetRow(a, c), appends' = appends,
           c.approved = row[a].approved
    PROVE  /\ \A from : PhaseOf(row[a].status) \in from =>
                Promise!Moves(a, from, PhaseOf(c.status))
           /\ Consent' = Consent /\ Written' = Written
BY PromiseRow, PromiseIs

(* Only the demo tool ends as "succeeded".                                 *)
PlainInv == \A a \in TableActions : row[a].status # "succeeded"

LEMMA PlainStep ==
    ASSUME TypeOK, PlainInv, [Next]_vars
    PROVE  PlainInv'
<1>. SUFFICES ASSUME NEW a \in TableActions
     PROVE  row'[a].status # "succeeded"
  BY DEF PlainInv
<1>1. Moves(a) /\ row[a].status # "succeeded"
  BY NextMoves, ActionsAssumption DEF PlainInv
<1>2. CASE Still(a)
  BY <1>1, <1>2 DEF Still
<1>3. CASE Created(a) \/ Decided(a) \/ Started(a)
  BY <1>1, <1>3 DEF Created, Decided, Started, Becoming
<1>4. CASE Closed(a)
  BY <1>4 DEF Closed, Verified, Becoming
<1>. QED  BY <1>1, <1>2, <1>3, <1>4 DEF Moves

LEMMA Columns ==
    ASSUME NEW x \in Rows, NEW s, NEW l, NEW n
    PROVE  /\ [x EXCEPT !.status = s].approved = x.approved
           /\ [x EXCEPT !.status = s, !.schema = l].approved = x.approved
           /\ [x EXCEPT !.status = s, !.approved = TRUE].approved
           /\ [x EXCEPT !.status = s, !.lease = l].approved = x.approved
           /\ [x EXCEPT !.status = s, !.lease = l,
                        !.attempts = n].approved = x.approved
           /\ [x EXCEPT !.attempted = TRUE].approved = x.approved
           /\ [x EXCEPT !.lease = l].approved = x.approved
BY DEF Rows

PromiseStep == [Promise!Next]_(Promise!promiseVars)

LEMMA PromiseWeb ==
    ASSUME TypeOK, ChainInv, NEW r \in Requests,
           CommitCreate(r) \/ CommitApprove(r) \/ CommitCancel(r)
    PROVE  PromiseStep
<1>0. PICK a \in Actions : a = web[r].action
  BY DEF TypeOK, CommitCreate, CommitApprove, CommitCancel
<1>1. row[a] \in Rows /\ appends' = appends
  BY DEF TypeOK, CommitCreate, CommitApprove, CommitCancel, provider
<1>2. CASE row' = row
  BY <1>1, <1>2, PromiseSame DEF PromiseStep
<1>3. CASE CommitCreate(r) /\ row' # row
  <2>. DEFINE c == [row[a] EXCEPT !.status = "awaiting_approval",
                                  !.schema = web[r].schema]
  <2>1. row[a].status = "absent" /\ SetRow(a, c) /\ OlderGone(a)
    BY <1>0, <1>3 DEF CommitCreate, ChainInv
  <2>2. c.status = "awaiting_approval" /\ c.approved = row[a].approved
    BY <1>1, ColumnsSet, Columns
  <2>. HIDE DEF c
  <2>3. /\ Promise!Moves(a, {"absent"}, "proposed")
        /\ Consent' = Consent /\ Written' = Written
    BY <1>1, <2>1, <2>2, PromiseTurn DEF PhaseOf
  <2>4. \A b \in Older[a] : Phases[b] = "deleted"
    BY <1>1, <2>1, ActionsAssumption DEF OlderGone, Phases, PhaseOf
  <2>5. Promise!Propose(a)
    BY <2>3, <2>4 DEF Promise!Propose, Phases, Consent, Written
  <2>. QED  BY <1>1, <2>5 DEF PromiseStep, Promise!Next
<1>4. CASE CommitApprove(r) /\ row' # row
  <2>. DEFINE c == [row[a] EXCEPT !.status = "queued", !.approved = TRUE]
  <2>1. row[a].status = "awaiting_approval" /\ SetRow(a, c)
    BY <1>0, <1>4 DEF CommitApprove
  <2>2. c.status = "queued" /\ c.approved
    BY <1>1, ColumnsSet, Columns
  <2>. HIDE DEF c
  <2>3. /\ Phases[a] = "proposed"
        /\ Phases' = [Phases EXCEPT ![a] = "approved"]
        /\ Consent' = Consent \cup {a} /\ Written' = Written
    BY <1>1, <2>1, <2>2, PromiseRow DEF PhaseOf
  <2>4. Promise!Approve(a)
    <3>1. Promise!Moves(a, {"proposed"}, "approved")
      BY <1>1, <2>3, PromiseIs
    <3>. QED  BY <2>3, <3>1 DEF Promise!Approve, Consent, Written
  <2>. QED  BY <1>1, <2>4 DEF PromiseStep, Promise!Next
<1>5. CASE CommitCancel(r) /\ row' # row
  <2>. DEFINE c == [row[a] EXCEPT !.status = "cancelled"]
  <2>1. row[a].status \in Cancellable /\ SetRow(a, c)
    BY <1>0, <1>5 DEF CommitCancel
  <2>2. c.status = "cancelled" /\ c.approved = row[a].approved
    BY <1>1, ColumnsSet, Columns
  <2>. HIDE DEF c
  <2>3. /\ Promise!Moves(a, {"proposed", "approved"}, "cancelled")
        /\ Consent' = Consent /\ Written' = Written
    BY <1>1, <2>1, <2>2, PromiseTurn DEF PhaseOf, Cancellable
  <2>4. Promise!Cancel(a)
    BY <2>3 DEF Promise!Cancel, Consent, Written
  <2>. QED  BY <1>1, <2>4 DEF PromiseStep, Promise!Next
<1>. QED  BY <1>2, <1>3, <1>4, <1>5

LEMMA PromiseReanalyze ==
    ASSUME TypeOK, AgreeInv, PlainInv, NEW a \in Actions, Reanalyze(a)
    PROVE  PromiseStep
<1>. DEFINE c == [row[a] EXCEPT !.status = "deleted", !.lease = "none"]
<1>1. /\ row[a] \in Rows /\ appends' = appends
      /\ SetRow(a, c) /\ a \notin receipts /\ row[a].status # "deleted"
  BY DEF Reanalyze, TypeOK, provider, Current
<1>2. c.status = "deleted" /\ c.approved = row[a].approved
  BY <1>1, ColumnsSet, Columns
<1>. HIDE DEF c
<1>3. row[a].status \in Statuses
  BY <1>1 DEF Rows
<1>4. PhaseOf(row[a].status) \in {"absent", "proposed", "approved", "done",
                                  "stopped", "cancelled"}
  BY <1>1, <1>3 DEF PhaseOf, Statuses, Terminal, Cancellable
<1>5. /\ Promise!Moves(a, {"absent", "proposed", "approved", "done",
                           "stopped", "cancelled"}, "deleted")
      /\ Consent' = Consent /\ Written' = Written
  BY <1>1, <1>2, <1>4, PromiseTurn DEF PhaseOf
<1>6. a \in TableActions => Phases[a] # "done"
  <2>1. ASSUME a \in TableActions
        PROVE  row[a].status \notin {"succeeded", "completed_verified"}
    BY <1>1, <2>1 DEF AgreeInv, Agrees, PlainInv
  <2>. QED  BY <1>3, <2>1
            DEF Phases, PhaseOf, Statuses, Terminal, Cancellable
<1>7. Promise!Remove(a)
  BY <1>5, <1>6 DEF Promise!Remove, Phases, Consent, Written
<1>. QED  BY <1>7 DEF PromiseStep, Promise!Next

(* A run's outcome, of a row that is running under the lease.              *)
LEMMA PromiseEnds ==
    ASSUME TypeOK, HeldInv, NEW w \in Workers, NEW a \in Actions,
           worker[w].action = a, worker[w].stage \notin {"idle", "picked"},
           Exists(a), NEW s, NEW e, Ends(a, s, e), appends' = appends,
           \/ s \in {"succeeded", "completed_verified"}
              /\ (a \in TableActions => appends[a] > 0)
           \/ s \in {"queued", "failed", "verification_failed"}
    PROVE  PromiseStep
<1>. DEFINE c == [row[a] EXCEPT !.status = s, !.lease = "none"]
<1>1. SetRow(a, c) /\ row[a] \in Rows
  BY DEF Ends, TypeOK
<1>2. c.status = s /\ c.approved = row[a].approved
  BY <1>1, ColumnsSet, Columns
<1>. HIDE DEF c
<1>3. row[a].status = "running"
  BY DEF HeldInv, Holds, Exists
<1>4. PhaseOf(row[a].status) = "approved"
  BY <1>3 DEF PhaseOf
<1>5. /\ Promise!Moves(a, {"approved"}, PhaseOf(s))
      /\ Consent' = Consent /\ Written' = Written
  BY <1>1, <1>2, <1>4, PromiseTurn
<1>6. CASE s \in {"succeeded", "completed_verified"}
           /\ (a \in TableActions => appends[a] > 0)
  <2>1. PhaseOf(s) = "done"
    BY <1>6 DEF PhaseOf
  <2>2. Promise!Finish(a)
    BY <1>5, <1>6, <2>1 DEF Promise!Finish, Consent, Written
  <2>. QED  BY <2>2 DEF PromiseStep, Promise!Next
<1>7. CASE s \in {"failed", "verification_failed"}
  <2>1. PhaseOf(s) = "stopped"
    BY <1>7 DEF PhaseOf
  <2>2. Promise!Stop(a)
    BY <1>5, <2>1 DEF Promise!Stop, Consent, Written
  <2>. QED  BY <2>2 DEF PromiseStep, Promise!Next
<1>8. CASE s = "queued"
  <2>1. PhaseOf(s) = "approved"
    BY <1>8 DEF PhaseOf
  <2>. QED  BY <1>1, <1>2, <1>4, <2>1, PromiseQuiet DEF PromiseStep
<1>. QED  BY <1>6, <1>7, <1>8

LEMMA PromiseAppend ==
    ASSUME TypeOK, MarkInv, HeldInv, NEW w \in Workers, AppendRow(w)
    PROVE  PromiseStep
<1>0. worker[w].action \in TableActions
  BY OnTableHas DEF TypeOK, AppendRow
<1>p. PICK a \in TableActions : a = worker[w].action
  BY <1>0
<1>1. a \in Actions /\ worker[w].stage = "appending"
  BY ActionsAssumption DEF AppendRow
<1>2. row' = row /\ appends' = [appends EXCEPT ![a] = @ + 1]
  BY <1>p DEF AppendRow, db
<1>3. row[a].approved
  BY <1>p, <1>1 DEF MarkInv, ApprovedStages, Writing
<1>4. row[a].status \in {"deleted", "running"}
  BY <1>p, <1>1 DEF HeldInv, Holds
<1>5. /\ appends[a] \in Nat /\ appends'[a] = appends[a] + 1
      /\ \A b \in TableActions : b # a => appends'[b] = appends[b]
  BY <1>1, <1>2 DEF TypeOK
<1>6. Phases' = Phases /\ Consent' = Consent
  BY <1>2 DEF Phases, Consent, PhaseOf
<1>7. Written' = Written \cup {a}
  BY <1>1, <1>5 DEF Written
<1>8. CASE a \in Written
  <2>1. Written' = Written
    BY <1>7, <1>8
  <2>. QED  BY <1>6, <2>1, PromiseIs
            DEF PromiseStep, Promise!promiseVars, Phases, Consent, Written
<1>9. CASE a \notin Written
  <2>1. Phases[a] \in {"approved", "deleted"} /\ a \in Consent
    BY <1>1, <1>3, <1>4 DEF Phases, Consent, PhaseOf
  <2>2. Promise!Write(a)
    <3>1. a \in Consent \ Written /\ Written' = Written \cup {a}
      BY <1>7, <1>9, <2>1
    <3>. QED  BY <1>6, <2>1, <3>1, Zenon
              DEF Promise!Write, Phases, Consent, Written
  <2>. QED  BY <1>1, <2>2 DEF PromiseStep, Promise!Next
<1>. QED  BY <1>8, <1>9

LEMMA PromiseWorker ==
    ASSUME TypeOK, MarkInv, HeldInv, FoundInv, NEW w \in Workers, WorkerStep(w)
    PROVE  PromiseStep
<1>. DEFINE a == worker[w].action
<1>1. worker[w].stage # "idle" => a \in Actions /\ row[a] \in Rows
  BY DEF TypeOK
<1>2. CASE \E b \in Actions : Pick(w, b)
  BY <1>2, PromiseSame DEF Pick, db, provider, PromiseStep
<1>3. CASE Claim(w)
  <2>. DEFINE n == Counted(row[a].attempts)
              c == [row[a] EXCEPT !.status = "running", !.lease = "held",
                                  !.attempts = n]
  <2>1. /\ a \in Actions /\ row[a] \in Rows /\ appends' = appends
        /\ (Claimable(a) /\ SetRow(a, c)) \/ row' = row
    BY <1>1, <1>3 DEF Claim, provider
  <2>. HIDE DEF n
  <2>2. c.status = "running" /\ c.approved = row[a].approved
    BY <2>1, ColumnsSet, Columns
  <2>. HIDE DEF c
  <2>3. CASE Claimable(a) /\ SetRow(a, c)
    <3>1. PhaseOf(c.status) = PhaseOf(row[a].status)
      BY <2>2, <2>3 DEF Claimable, PhaseOf
    <3>. QED  BY <2>1, <2>2, <2>3, <3>1, PromiseQuiet DEF PromiseStep
  <2>. QED  BY <2>1, <2>3, PromiseSame DEF PromiseStep
<1>4. CASE Load(w) \/ Validate(w) \/ CheckHeaders(w) \/ FindKey(w)
  BY <1>4, PromiseSame
     DEF Load, Validate, CheckHeaders, FindKey, db, provider, PromiseStep
<1>5. CASE Decide(w)
  <2>. DEFINE c == [row[a] EXCEPT !.attempted = TRUE]
  <2>1. /\ a \in Actions /\ row[a] \in Rows /\ appends' = appends
        /\ row' = row \/ SetRow(a, c)
    BY <1>1, <1>5, DecideEffect DEF Decide, provider
  <2>2. c.status = row[a].status /\ c.approved = row[a].approved
    BY <2>1, ColumnsSet, Columns
  <2>. HIDE DEF c
  <2>. QED  BY <2>1, <2>2, PromiseQuiet, PromiseSame DEF PromiseStep
<1>6. CASE AppendRow(w)
  BY <1>6, PromiseAppend
<1>7. CASE Recheck(w) \/ ReadBack(w) \/ RunAgent(w) \/ Die(w)
  BY <1>7, PromiseSame DEF Recheck, ReadBack, RunAgent, Die, db, provider,
                           PromiseStep
<1>8. CASE Complete(w)
  <2>1. /\ a \in Actions /\ worker[w].stage = "verified" /\ Exists(a)
        /\ appends' = appends
        /\ \E s \in {"completed_verified", "succeeded"} :
             Ends(a, s, "tool_completed")
    BY <1>1, <1>8 DEF Complete, provider
  <2>2. a \in TableActions => appends[a] > 0
    BY <2>1 DEF FoundInv, FoundWorker
  <2>. QED  BY <2>1, <2>2, PromiseEnds
<1>9. CASE Retry(w) \/ Fail(w)
  <2>1. /\ a \in Actions /\ Exists(a) /\ appends' = appends
        /\ worker[w].stage \notin {"idle", "picked"}
        /\ \E s \in {"queued", "failed", "verification_failed"} :
             \E e : Ends(a, s, e)
    BY <1>1, <1>9 DEF Retry, Fail, provider
  <2>. QED  BY <2>1, PromiseEnds
<1>. QED  BY <1>2, <1>3, <1>4, <1>5, <1>6, <1>7, <1>8, <1>9 DEF WorkerStep

LEMMA PromiseNext ==
    ASSUME TypeOK, MarkInv, HeldInv, FoundInv, ChainInv, AgreeInv, PlainInv,
           [Next]_vars
    PROVE  PromiseStep
<1>1. CASE UNCHANGED vars
  BY <1>1, PromiseSame DEF vars, PromiseStep
<1>2. ASSUME NEW r \in Requests, NEW a \in Actions,
             BeginCreate(r, a) \/ BeginApprove(r, a) \/ BeginCancel(r, a)
      PROVE  PromiseStep
  BY <1>2, PromiseSame
     DEF BeginCreate, BeginApprove, BeginCancel, db, provider, PromiseStep
<1>3. ASSUME NEW a \in Actions, Lapse(a)
      PROVE  PromiseStep
  <2>. DEFINE c == [row[a] EXCEPT !.lease = "lapsed"]
  <2>1. SetRow(a, c) /\ appends' = appends /\ row[a] \in Rows
    BY <1>3 DEF Lapse, provider, TypeOK
  <2>2. c.status = row[a].status /\ c.approved = row[a].approved
    BY <2>1, ColumnsSet, Columns
  <2>. HIDE DEF c
  <2>. QED  BY <2>1, <2>2, PromiseQuiet DEF PromiseStep
<1>4. ASSUME NEW w \in Workers, Crash(w)
      PROVE  PromiseStep
  BY <1>4, PromiseSame DEF Crash, db, provider, PromiseStep
<1>5. ASSUME NEW a \in TableActions, LandAppend(a)
      PROVE  PromiseStep
  BY <1>5, PromiseSame DEF LandAppend, db, PromiseStep
<1>6. ASSUME OwnerStep
      PROVE  PromiseStep
  BY <1>6, PromiseSame DEF OwnerStep, db, PromiseStep
<1>. QED
  BY <1>1, <1>2, <1>3, <1>4, <1>5, <1>6, PromiseWeb, PromiseWorker,
     PromiseReanalyze
     DEF Next, EditRow, CopyRow, ChangeHeaders, SaveTable, DisableTable

(* While no worker outlasts its lease, the requests, workers, crashes and  *)
(* owners together do nothing but the one-step transitions of              *)
(* ActionPromise (create, approve, cancel, process_next_execution,         *)
(* execute_table_plan, analyze_email): consent before an append, an append *)
(* only while approved or already removed, no way out of an outcome.       *)
THEOREM PromiseKept ==
    ASSUME MayOverrun = FALSE
    PROVE  Spec => KeepsPromise
<1>1. Init => Promise!Init /\ PlainInv /\ ChainInv
  <2>. SUFFICES ASSUME Init PROVE Promise!Init /\ PlainInv /\ ChainInv
    OBVIOUS
  <2>1. /\ \A a \in Actions : row[a].status = "absent" /\ ~row[a].approved
        /\ \A a \in TableActions : appends[a] = 0
        /\ \A r \in Requests : web[r].stage = "idle"
        /\ receipts = {}
    BY DEF Init
  <2>2. Phases = [a \in Actions |-> "absent"] /\ Consent = {} /\ Written = {}
    <3>1. PhaseOf("absent") = "absent"
      BY DEF PhaseOf
    <3>2. Phases = [a \in Actions |-> "absent"]
      BY <2>1, <3>1 DEF Phases
    <3>3. Consent = {}
      BY <2>1 DEF Consent
    <3>4. Written = {}
      BY <2>1 DEF Written
    <3>. QED  BY <3>2, <3>3, <3>4
  <2>3. PlainInv
    BY <2>1, ActionsAssumption DEF PlainInv
  <2>4. ChainInv
    BY <2>1 DEF ChainInv, Exists
  <2>. QED  BY <2>2, <2>3, <2>4, PromiseIs
<1>2. TypeOK /\ PlainInv /\ ChainInv /\ [Next]_vars => PlainInv' /\ ChainInv'
  BY PlainStep, ChainStep
<1>3. Spec => [](PlainInv /\ ChainInv)
  BY <1>1, <1>2, TypeCorrect, PTL DEF Spec
<1>4. /\ TypeOK /\ MarkInv /\ LeaseInv /\ AgreeInv /\ FoundInv
      /\ PlainInv /\ ChainInv /\ [Next]_vars
      => PromiseStep
  BY PromiseNext DEF LeaseInv
<1>5. PromiseStep => [Promise!Next]_(Promise!promiseVars)
  BY DEF PromiseStep
<1>. QED
  BY <1>1, <1>3, <1>4, <1>5, LeaseAlways, AgreeAlways, PTL
     DEF Spec, KeepsPromise, Promise!Spec
=============================================================================
