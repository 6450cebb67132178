------------------------------ MODULE TableBound ------------------------------
(***************************************************************************)
(* Why the retry limit bounds the rows an action appends, without the      *)
(* lease: every append uses up a claim of its own.  Proved for every value *)
(* of the constants, with any finite number of workers.                    *)
(***************************************************************************)
EXTENDS TableReceipts, FiniteSetTheorems

(* The workers that may still append a row for an action, and those that   *)
(* claimed it and have not loaded it yet.                                  *)
Before(s) == s \in Checking \cup {"appending"}
Ahead(a)  == {w \in Workers : worker[w].action = a /\ Before(worker[w].stage)}
Fresh(a)  == {w \in Workers : worker[w].action = a
                              /\ worker[w].stage = "claimed"}

(* Appends made and still possible are covered by the attempts counted; a  *)
(* claim beyond the limit covers nothing, as its run ends in Load.         *)
Covered(a) ==
    /\ row[a].attempts <= MaxAttempts =>
         appends[a] + Cardinality(Ahead(a)) + Cardinality(Fresh(a))
           <= row[a].attempts
    /\ appends[a] + Cardinality(Ahead(a)) <= MaxAttempts

BoundInv == \A a \in TableActions : Covered(a)

-----------------------------------------------------------------------------
(* Sizes of the two sets of workers.                                       *)

LEMMA Sizes ==
    ASSUME IsFiniteSet(Workers), NEW S \in SUBSET Workers
    PROVE  IsFiniteSet(S) /\ Cardinality(S) \in Nat
<1>1. IsFiniteSet(S)
  BY FS_Subset
<1>2. QED
  BY <1>1, FS_CardinalityType

LEMMA Smaller ==
    ASSUME IsFiniteSet(Workers), NEW S \in SUBSET Workers,
           NEW T \in SUBSET S
    PROVE  Cardinality(T) <= Cardinality(S)
BY Sizes, FS_Subset

LEMMA OneMore ==
    ASSUME IsFiniteSet(Workers), NEW S \in SUBSET Workers,
           NEW T \in SUBSET Workers, NEW w, T \subseteq S \cup {w}
    PROVE  Cardinality(T) <= Cardinality(S) + 1
<1>1. IsFiniteSet(S) /\ Cardinality(S) \in Nat /\ Cardinality(T) \in Nat
  BY Sizes
<1>2. /\ IsFiniteSet(S \cup {w})
      /\ \/ Cardinality(S \cup {w}) = Cardinality(S)
         \/ Cardinality(S \cup {w}) = Cardinality(S) + 1
  BY <1>1, FS_AddElement
<1>3. Cardinality(T) <= Cardinality(S \cup {w})
  BY <1>2, FS_Subset
<1>4. QED
  BY <1>1, <1>2, <1>3

LEMMA OneLess ==
    ASSUME IsFiniteSet(Workers), NEW S \in SUBSET Workers, NEW w \in S,
           NEW T, T \subseteq S \ {w}
    PROVE  Cardinality(T) + 1 <= Cardinality(S)
<1>1. IsFiniteSet(S) /\ Cardinality(S) \in Nat /\ Cardinality(T) \in Nat
  BY Sizes
<1>2. IsFiniteSet(S \ {w}) /\ Cardinality(S \ {w}) = Cardinality(S) - 1
  BY <1>1, FS_RemoveElement
<1>3. Cardinality(T) <= Cardinality(S \ {w})
  BY <1>2, FS_Subset
<1>4. QED
  BY <1>1, <1>2, <1>3

LEMMA Counts ==
    ASSUME IsFiniteSet(Workers), TypeOK
    PROVE  \A a \in TableActions :
             /\ Ahead(a) \in SUBSET Workers /\ Fresh(a) \in SUBSET Workers
             /\ Cardinality(Ahead(a)) \in Nat /\ Cardinality(Fresh(a)) \in Nat
             /\ appends[a] \in Nat /\ row[a].attempts \in Nat
             /\ row[a] \in Rows /\ a \in Actions
             /\ MaxAttempts \in Nat
<1>1. \A a : Ahead(a) \in SUBSET Workers /\ Fresh(a) \in SUBSET Workers
  BY DEF Ahead, Fresh
<1>2. \A a \in TableActions :
        /\ appends[a] \in Nat /\ a \in Actions /\ row[a] \in Rows
        /\ MaxAttempts \in Nat
  BY ActionsAssumption, BoundsAssumption DEF TypeOK
<1>3. \A a \in TableActions : row[a].attempts \in Nat
  BY <1>2 DEF Rows
<1>4. QED
  BY <1>1, <1>2, <1>3, Sizes

-----------------------------------------------------------------------------
(* What each kind of step does to the count.                               *)

SameAttempts == \A a \in TableActions : row'[a].attempts = row[a].attempts

(* A worker that was not about to append anything new.                     *)
LEMMA BoundMove ==
    ASSUME IsFiniteSet(Workers), TypeOK, BoundInv, SameAttempts,
           appends' = appends, NEW w \in Workers,
           Before(worker'[w].stage) =>
             /\ Before(worker[w].stage)
             /\ worker'[w].action = worker[w].action,
           worker'[w].stage # "claimed",
           \A v \in Workers : v # w => worker'[v] = worker[v]
    PROVE  BoundInv'
<1>1. SUFFICES ASSUME NEW a \in TableActions  PROVE Covered(a)'
  BY DEF BoundInv
<1>2. Ahead(a)' \subseteq Ahead(a) /\ Fresh(a)' \subseteq Fresh(a)
  BY DEF Ahead, Fresh
<1>3. /\ Cardinality(Ahead(a)') <= Cardinality(Ahead(a))
      /\ Cardinality(Fresh(a)') <= Cardinality(Fresh(a))
      /\ Cardinality(Ahead(a)') \in Nat /\ Cardinality(Fresh(a)') \in Nat
  BY <1>2, Counts, Smaller, Sizes
<1>4. Covered(a)
  BY DEF BoundInv
<1>5. QED
  BY <1>3, <1>4, Counts DEF Covered, SameAttempts

(* No worker moves and no claim is counted.                                *)
LEMMA BoundRest ==
    ASSUME BoundInv, SameAttempts, appends' = appends, worker' = worker
    PROVE  BoundInv'
BY DEF BoundInv, Covered, Ahead, Fresh, SameAttempts

LEMMA BoundClaim ==
    ASSUME IsFiniteSet(Workers), TypeOK, BoundInv, NEW w \in Workers, Claim(w)
    PROVE  BoundInv'
<1> DEFINE b == worker[w].action
           n == Counted(row[b].attempts)
           c == [row[b] EXCEPT !.status = "running", !.lease = "held",
                               !.attempts = n]
<1>1. /\ worker[w].stage = "picked" /\ b \in Actions /\ row[b] \in Rows
      /\ appends' = appends
  BY DEF Claim, TypeOK, provider
<1>2. CASE Return(w) /\ row' = row
  <2>1. SameAttempts /\ worker'[w].stage = "idle"
        /\ \A v \in Workers : v # w => worker'[v] = worker[v]
    BY <1>2, ReturnEffect DEF SameAttempts
  <2>2. ~Before("idle")
    BY DEF Before, Checking
  <2>3. QED
    BY <1>1, <2>1, <2>2, BoundMove
<1>3. CASE SetRow(b, c) /\ Goto(w, "claimed")
  <2>1. c.attempts = n
    BY <1>1 DEF Rows
  <2>2. SetRow(b, c)
    BY <1>3
  <2>3. row[b].attempts \in Nat /\ MaxAttempts \in Nat
    BY <1>1, BoundsAssumption DEF Rows
  <2>4. n \in Nat /\ (n <= MaxAttempts => n = row[b].attempts + 1)
    BY <2>3 DEF Counted
  <2> HIDE DEF n, c
  <2>5. row'[b].attempts = n /\ \A a \in Actions : a # b => row'[a] = row[a]
    BY <1>1, <2>1, <2>2, SetRowEffect
  <2>6. /\ worker'[w].stage = "claimed" /\ worker'[w].action = b
        /\ \A v \in Workers : v # w => worker'[v] = worker[v]
    BY <1>3, GotoEffect
  <2>7. ASSUME NEW a \in TableActions  PROVE Covered(a)'
    <3>1. ~Before("claimed")
      BY DEF Before, Checking
    <3>2. Ahead(a)' \subseteq Ahead(a) /\ Fresh(a)' \subseteq Fresh(a) \cup {w}
      BY <2>6, <3>1 DEF Ahead, Fresh
    <3>3. a # b => Fresh(a)' \subseteq Fresh(a)
      BY <2>6 DEF Fresh
    <3>4. Fresh(a)' \in SUBSET Workers
      BY DEF Fresh
    <3>5. /\ Cardinality(Ahead(a)') <= Cardinality(Ahead(a))
          /\ Cardinality(Ahead(a)') \in Nat /\ Cardinality(Fresh(a)') \in Nat
          /\ Cardinality(Fresh(a)') <= Cardinality(Fresh(a)) + 1
      BY <3>2, <3>4, Counts, Smaller, Sizes, OneMore
    <3>6. a # b => Cardinality(Fresh(a)') <= Cardinality(Fresh(a))
      BY <3>3, Counts, Smaller
    <3>7. Covered(a)
      BY DEF BoundInv
    <3>8. CASE a # b
      <4>1. row'[a].attempts = row[a].attempts
        BY <2>5, <3>8, Counts
      <4>2. QED
        BY <1>1, <3>5, <3>6, <3>7, <3>8, <4>1, Counts DEF Covered
    <3>9. CASE a = b
      <4>1. row'[a].attempts = n
            /\ (n <= MaxAttempts => n = row[a].attempts + 1)
        BY <2>4, <2>5, <3>9
      <4>2. QED
        BY <1>1, <2>4, <3>5, <3>7, <4>1, Counts DEF Covered
    <3>10. QED
      BY <3>8, <3>9
  <2>8. QED
    BY <2>7 DEF BoundInv
<1>4. QED
  BY <1>2, <1>3 DEF Claim

LEMMA BoundLoad ==
    ASSUME IsFiniteSet(Workers), TypeOK, BoundInv, NEW w \in Workers, Load(w)
    PROVE  BoundInv'
<1> DEFINE b == worker[w].action
<1>1. /\ worker[w].stage = "claimed" /\ SameAttempts /\ appends' = appends
      /\ \A v \in Workers : v # w => worker'[v] = worker[v]
  BY LoadEffect DEF Load, provider, SameAttempts
<1>2. CASE ~Before(worker'[w].stage) /\ worker'[w].stage # "claimed"
  BY <1>1, <1>2, BoundMove
<1>3. CASE /\ worker'[w].stage = "ready" /\ worker'[w].action = b
           /\ ~(row[b].attempts > MaxAttempts)
  <2>1. ASSUME NEW a \in TableActions, a # b  PROVE Covered(a)'
    <3>1. Ahead(a)' \subseteq Ahead(a) /\ Fresh(a)' \subseteq Fresh(a)
      BY <1>1, <1>3, <2>1 DEF Ahead, Fresh
    <3>2. /\ Cardinality(Ahead(a)') <= Cardinality(Ahead(a))
          /\ Cardinality(Fresh(a)') <= Cardinality(Fresh(a))
          /\ Cardinality(Ahead(a)') \in Nat /\ Cardinality(Fresh(a)') \in Nat
      BY <3>1, Counts, Smaller, Sizes
    <3>3. Covered(a)
      BY DEF BoundInv
    <3>4. QED
      BY <1>1, <3>2, <3>3, Counts DEF Covered, SameAttempts
  <2>2. ASSUME NEW a \in TableActions, a = b  PROVE Covered(a)'
    <3>1. /\ w \in Fresh(a) /\ Fresh(a)' \subseteq Fresh(a) \ {w}
          /\ Ahead(a)' \subseteq Ahead(a) \cup {w}
          /\ Ahead(a)' \in SUBSET Workers /\ Fresh(a)' \in SUBSET Workers
      BY <1>1, <1>3, <2>2 DEF Ahead, Fresh
    <3>2. /\ Cardinality(Fresh(a)') + 1 <= Cardinality(Fresh(a))
          /\ Cardinality(Ahead(a)') <= Cardinality(Ahead(a)) + 1
          /\ Cardinality(Ahead(a)') \in Nat /\ Cardinality(Fresh(a)') \in Nat
      BY <3>1, Counts, Sizes, OneLess, OneMore
    <3>3. Covered(a) /\ row[a].attempts <= MaxAttempts
      BY <1>3, <2>2, Counts DEF BoundInv
    <3>4. QED
      BY <1>1, <3>2, <3>3, Counts DEF Covered, SameAttempts
  <2>3. QED
    BY <2>1, <2>2 DEF BoundInv
<1>4. \A s \in {"idle", "refuse", "fail", "agent"} : ~Before(s)
  BY DEF Before, Checking
<1>5. QED
  BY <1>2, <1>3, <1>4, LoadEffect, ReturnEffect

LEMMA BoundAppend ==
    ASSUME IsFiniteSet(Workers), TypeOK, BoundInv, NEW w \in Workers,
           AppendRow(w)
    PROVE  BoundInv'
<1> DEFINE b == worker[w].action
<1>1. /\ worker[w].stage = "appending" /\ b \in TableActions
      /\ SameAttempts
  BY OnTableHas DEF AppendRow, TypeOK, db, SameAttempts
<1>2. appends'[b] = appends[b] + 1
      /\ \A a \in TableActions : a # b => appends'[a] = appends[a]
  <2>1. appends' = [appends EXCEPT ![b] = @ + 1]
    BY DEF AppendRow
  <2> HIDE DEF b
  <2>2. QED
    BY <1>1, <2>1 DEF TypeOK
<1>3. /\ worker'[w].stage \in {"reading", "rechecking"}
      /\ \A v \in Workers : v # w => worker'[v] = worker[v]
  BY GotoEffect, NumberEffect DEF AppendRow
<1>4. Before("appending") /\ ~Before("reading") /\ ~Before("rechecking")
  BY DEF Before, Checking
<1>5. ASSUME NEW a \in TableActions  PROVE Covered(a)'
  <2>1. /\ Ahead(a)' \subseteq Ahead(a) \ {w} /\ Fresh(a)' \subseteq Fresh(a)
    BY <1>3, <1>4 DEF Ahead, Fresh
  <2>2. a = b => w \in Ahead(a)
    BY <1>1, <1>4 DEF Ahead
  <2>3. Ahead(a)' \in SUBSET Ahead(a)
    BY <2>1
  <2>4. /\ Cardinality(Ahead(a)') <= Cardinality(Ahead(a))
        /\ Cardinality(Fresh(a)') <= Cardinality(Fresh(a))
        /\ Cardinality(Ahead(a)') \in Nat /\ Cardinality(Fresh(a)') \in Nat
    BY <2>1, <2>3, Counts, Smaller, Sizes
  <2>5. a = b => Cardinality(Ahead(a)') + 1 <= Cardinality(Ahead(a))
    BY <2>1, <2>2, Counts, OneLess
  <2>6. Covered(a)
    BY DEF BoundInv
  <2>7. CASE a = b
    BY <1>1, <1>2, <2>4, <2>5, <2>6, <2>7, Counts DEF Covered, SameAttempts
  <2>8. CASE a # b
    BY <1>1, <1>2, <2>4, <2>6, <2>8, Counts DEF Covered, SameAttempts
  <2>9. QED
    BY <2>7, <2>8
<1>6. QED
  BY <1>5 DEF BoundInv

-----------------------------------------------------------------------------
(* Every other step leaves the count of attempts alone.                    *)

SameCount(x, y) == y.attempts = x.attempts

LEMMA ColumnsCount ==
    ASSUME NEW x \in Rows, NEW s, NEW l
    PROVE  /\ SameCount(x, [x EXCEPT !.status = s])
           /\ SameCount(x, [x EXCEPT !.status = s, !.schema = l])
           /\ SameCount(x, [x EXCEPT !.status = s, !.approved = TRUE])
           /\ SameCount(x, [x EXCEPT !.status = s, !.lease = l])
           /\ SameCount(x, [x EXCEPT !.attempted = TRUE])
           /\ SameCount(x, [x EXCEPT !.lease = l])
BY DEF Rows, SameCount

LEMMA SetRowCount ==
    ASSUME TypeOK, NEW a \in Actions, NEW c, SetRow(a, c),
           SameCount(row[a], c)
    PROVE  SameAttempts
BY SetRowEffect, ActionsAssumption DEF SameAttempts, SameCount

LEMMA SameRowCount ==
    ASSUME row' = row
    PROVE  SameAttempts
BY DEF SameAttempts

LEMMA EndsCount ==
    ASSUME TypeOK, NEW a \in Actions, NEW s, NEW e, Ends(a, s, e)
    PROVE  SameAttempts
BY SetRowCount, ColumnsCount DEF TypeOK, Ends

LEMMA CommitsCount ==
    ASSUME TypeOK, NEW r \in Requests,
           CommitCreate(r) \/ CommitApprove(r) \/ CommitCancel(r)
    PROVE  SameAttempts
<1> DEFINE a == web[r].action
<1>1. a \in Actions /\ row[a] \in Rows
  BY DEF TypeOK, CommitCreate, CommitApprove, CommitCancel
<1>2. CASE CommitCreate(r)
  BY <1>1, <1>2, SameRowCount, SetRowCount, ColumnsCount DEF CommitCreate
<1>3. CASE CommitApprove(r)
  BY <1>1, <1>3, SameRowCount, SetRowCount, ColumnsCount DEF CommitApprove
<1>4. CASE CommitCancel(r)
  BY <1>1, <1>4, SameRowCount, SetRowCount, ColumnsCount DEF CommitCancel
<1>5. QED
  BY <1>2, <1>3, <1>4

LEMMA BoundWorker ==
    ASSUME IsFiniteSet(Workers), TypeOK, BoundInv, NEW w \in Workers,
           WorkerStep(w)
    PROVE  BoundInv'
<1> DEFINE a == worker[w].action
<1>1. worker[w].stage # "idle" => a \in Actions /\ row[a] \in Rows
  BY DEF TypeOK
<1>2. /\ \A s \in {"ready", "heading", "finding", "found", "appending"} :
           Before(s)
      /\ \A s \in {"idle", "picked", "reading", "rechecking", "verified",
                   "retry", "refuse", "fail"} : ~Before(s)
  BY DEF Before, Checking
<1>3. ASSUME Return(w), SameAttempts, appends' = appends  PROVE BoundInv'
  BY <1>2, <1>3, ReturnEffect, BoundMove
<1>4. ASSUME NEW s, worker'[w].stage = s, worker'[w].action = a,
             \A v \in Workers : v # w => worker'[v] = worker[v],
             Before(s) => Before(worker[w].stage), s # "claimed",
             row' = row, appends' = appends
      PROVE  BoundInv'
  BY <1>4, BoundMove, SameRowCount
<1>5. ASSUME NEW b \in Actions, Pick(w, b)  PROVE BoundInv'
  <2>1. row' = row /\ appends' = appends
    BY <1>5 DEF Pick, db, provider
  <2>2. QED
    BY <1>2, <1>5, <2>1, PickEffect, BoundMove, SameRowCount
<1>6. CASE Validate(w)
  <2>1. row' = row /\ appends' = appends /\ worker[w].stage = "ready"
    BY <1>6 DEF Validate, db, provider
  <2>2. QED
    BY <1>2, <1>4, <1>6, <2>1, ValidateEffect
<1>7. CASE CheckHeaders(w) \/ FindKey(w) \/ Recheck(w) \/ ReadBack(w)
             \/ RunAgent(w)
  <2>1. row' = row /\ appends' = appends
    BY <1>7 DEF CheckHeaders, FindKey, Recheck, ReadBack, RunAgent, db, provider
  <2>2. /\ worker'[w].action = a
        /\ \A v \in Workers : v # w => worker'[v] = worker[v]
        /\ \/ worker[w].stage \in {"heading", "finding"}
              /\ worker'[w].stage \in {"finding", "found", "refuse", "retry"}
           \/ worker'[w].stage \in {"reading", "refuse", "retry", "verified",
                                    "fail"}
    BY <1>7, GotoEffect, NumberEffect
       DEF CheckHeaders, FindKey, Recheck, ReadBack, RunAgent
  <2>3. QED
    BY <1>2, <1>4, <2>1, <2>2
<1>8. CASE Decide(w)
  <2>1. appends' = appends /\ worker[w].stage = "found"
    BY <1>8 DEF Decide, provider
  <2>2. SameAttempts
    BY <1>1, <1>8, <2>1, DecideEffect, SameRowCount, SetRowCount, ColumnsCount
  <2>3. /\ worker'[w].stage \in {"reading", "refuse", "retry", "appending"}
        /\ worker'[w].action = a
        /\ \A v \in Workers : v # w => worker'[v] = worker[v]
    BY <1>8, DecideEffect
  <2>4. QED
    BY <1>2, <2>1, <2>2, <2>3, BoundMove
<1>9. CASE Complete(w) \/ Retry(w) \/ Fail(w)
  <2>1. /\ Return(w) /\ appends' = appends
        /\ worker[w].stage # "idle"
    BY <1>9 DEF Complete, Retry, Fail, provider
  <2>2. \E s, e : Ends(a, s, e)
    BY <1>9 DEF Complete, Retry, Fail
  <2>3. QED
    BY <1>1, <1>3, <2>1, <2>2, EndsCount
<1>10. CASE Die(w)
  BY <1>3, <1>10, SameRowCount DEF Die, db, provider
<1>11. QED
  BY <1>5, <1>6, <1>7, <1>8, <1>9, <1>10, BoundClaim, BoundLoad, BoundAppend
     DEF WorkerStep

LEMMA BoundStep ==
    ASSUME IsFiniteSet(Workers), TypeOK, BoundInv, [Next]_vars
    PROVE  BoundInv'
<1>1. CASE UNCHANGED vars
  BY <1>1, BoundRest, SameRowCount DEF vars
<1>2. ASSUME NEW r \in Requests, NEW a \in Actions,
             BeginCreate(r, a) \/ BeginApprove(r, a) \/ BeginCancel(r, a)
      PROVE  BoundInv'
  BY <1>2, BoundRest, SameRowCount
     DEF BeginCreate, BeginApprove, BeginCancel, db, provider
<1>3. ASSUME NEW r \in Requests,
             CommitCreate(r) \/ CommitApprove(r) \/ CommitCancel(r)
      PROVE  BoundInv'
  BY <1>3, CommitsCount, BoundRest
     DEF CommitCreate, CommitApprove, CommitCancel, provider
<1>4. ASSUME NEW a \in Actions, Reanalyze(a) \/ Lapse(a)  PROVE BoundInv'
  <2>1. row[a] \in Rows
    BY DEF TypeOK
  <2>2. SameAttempts
    BY <1>4, <2>1, SetRowCount, ColumnsCount DEF Reanalyze, Lapse
  <2>3. QED
    BY <1>4, <2>2, BoundRest DEF Reanalyze, Lapse, provider
<1>5. ASSUME NEW w \in Workers, Crash(w)  PROVE BoundInv'
  <2>1. /\ Return(w) /\ row' = row /\ appends' = appends
    BY <1>5 DEF Crash, db, provider
  <2>2. ~Before("idle")
    BY DEF Before, Checking
  <2>3. QED
    BY <2>1, <2>2, ReturnEffect, BoundMove, SameRowCount
<1>6. ASSUME NEW a \in TableActions, LandAppend(a)  PROVE BoundInv'
  BY <1>6, BoundRest, SameRowCount DEF LandAppend, db
<1>7. ASSUME OwnerStep  PROVE BoundInv'
  BY <1>7, BoundRest, SameRowCount DEF OwnerStep, db
<1>8. QED
  BY <1>1, <1>2, <1>3, <1>4, <1>5, <1>6, <1>7, BoundWorker
     DEF Next, EditRow, CopyRow, ChangeHeaders, SaveTable, DisableTable

(* However many workers overlap and outlast their leases, an action        *)
(* appends at most TABLE_MAX_ATTEMPTS rows, and no receipt lacks a row     *)
(* (process_next_execution, execute_table_plan).                           *)
THEOREM LimitBoundsAppends ==
    ASSUME IsFiniteSet(Workers)
    PROVE  Spec => []AppendsBounded
<1>1. Init => TypeOK /\ BoundInv /\ FoundInv /\ BackedInv
  <2> SUFFICES ASSUME Init  PROVE TypeOK /\ BoundInv /\ FoundInv /\ BackedInv
    OBVIOUS
  <2>1. /\ \A a \in TableActions : appends[a] = 0 /\ row[a].attempts = 0
        /\ \A w \in Workers : worker[w].stage = "idle"
    BY ActionsAssumption DEF Init, IdleWorker
  <2>2. \A a \in TableActions : Ahead(a) = {} /\ Fresh(a) = {}
    BY <2>1 DEF Ahead, Fresh, Before, Checking
  <2>3. BoundInv
    BY <2>1, <2>2, FS_EmptySet, BoundsAssumption DEF BoundInv, Covered
  <2>4. QED
    BY <2>3, TypeInit, FoundInit
<1>2. TypeOK /\ BoundInv /\ FoundInv /\ BackedInv /\ [Next]_vars
        => TypeOK' /\ BoundInv' /\ FoundInv' /\ BackedInv'
  BY TypeStep, BoundStep, FoundStep, BackedStep
<1>3. TypeOK /\ BoundInv /\ BackedInv => AppendsBounded
  <2> SUFFICES ASSUME TypeOK, BoundInv, BackedInv, NEW a \in TableActions
               PROVE  /\ appends[a] <= MaxAttempts
                      /\ a \in receipts => appends[a] > 0
    BY DEF AppendsBounded
  <2>1. Covered(a)
    BY DEF BoundInv
  <2>2. QED
    BY <2>1, Counts DEF Covered, BackedInv
<1>4. QED
  BY <1>1, <1>2, <1>3, PTL DEF Spec
=============================================================================
