--------------------------- MODULE GmailSyncProofs ---------------------------
(***************************************************************************)
(* For any mailbox, page sizes, workers and numbers of faults: GmailSync   *)
(* is well typed, and its queue, its attempt markers, its statuses and its *)
(* cursor say what they should.                                            *)
(***************************************************************************)
EXTENDS GmailSync, FiniteSetTheorems, TLAPS

-----------------------------------------------------------------------------
(* The rows and the copies of them.                                        *)

LEMMA FlushTyped ==
    /\ \A x, y, z \in Columns : Flush(x, y, z) \in Columns
    /\ \A x, y, z \in Credentials : Flush(x, y, z) \in Credentials
BY DEF Flush, Columns, Credentials

(* Nobody else wrote the row since: the copy is what is committed.         *)
LEMMA FlushSame ==
    /\ \A x, y \in Columns : Flush(x, y, x) = y
    /\ \A x, y \in Credentials : Flush(x, y, x) = y
BY DEF Flush, Columns, Credentials

LEMMA NewTyped ==
    /\ NewColumns \in Columns
    /\ NewCredential \in Credentials
    /\ IdleWorker \in WorkerStates
    /\ IdleWorker.stage = "idle"
<1>1. /\ 0 \in Tokens /\ NoCursor \in Cursors /\ 0 \in 0..PageLimit
      /\ NoJob = 0 /\ NoToken = 0
  BY SizesAssumption DEF Tokens, Cursors, NoCursor, NoJob, NoToken
<1>2. NewColumns \in Columns /\ NewCredential \in Credentials
  BY <1>1 DEF NewColumns, NewCredential, Columns, Credentials
<1>3. /\ "idle" \in Stages /\ {} \in SUBSET Messages
      /\ NoJob \in Jobs \cup {NoJob} /\ NoToken \in Tokens
  BY <1>1 DEF Stages
<1>. HIDE DEF Stages, Messages, Jobs
<1>. QED  BY <1>1, <1>2, <1>3 DEF IdleWorker, WorkerStates

LEMMA WorkerFields ==
    ASSUME TypeOK, NEW w \in Workers
    PROVE  /\ worker[w] \in WorkerStates
           /\ worker[w].stage \in Stages
           /\ worker[w].job \in Jobs \cup {NoJob}
           /\ worker[w].copy \in Columns
           /\ worker[w].cred \in Credentials
           /\ worker[w].page \subseteq Messages
           /\ worker[w].next \in Tokens
           /\ worker[w].at \in Cursors
           /\ worker[w].pages \in 0..PageLimit
           /\ worker[w].batch \subseteq Messages
           /\ worker[w].stage # "idle" => worker[w].job \in Jobs
BY DEF TypeOK, WorkerStates

-----------------------------------------------------------------------------
(* TypeOK.                                                                 *)

(* What a step of a worker may leave it with.                              *)
GoodWorker(x) == x \in WorkerStates /\ (x.stage # "idle" => x.job \in Jobs)

WorkersTyped ==
    /\ worker \in [Workers -> WorkerStates]
    /\ \A w \in Workers : worker[w].stage # "idle" => worker[w].job \in Jobs

LEMMA SetWorkerTyped ==
    ASSUME TypeOK, NEW w \in Workers, NEW x, GoodWorker(x), SetWorker(w, x)
    PROVE  WorkersTyped'
BY DEF TypeOK, GoodWorker, SetWorker, WorkersTyped

LEMMA ReturnTyped ==
    ASSUME TypeOK, NEW w \in Workers, Return(w)
    PROVE  WorkersTyped'
<1>1. GoodWorker(IdleWorker)
  BY NewTyped DEF GoodWorker
<1>. QED  BY <1>1, SetWorkerTyped DEF Return

LEMMA WriteJobTyped ==
    ASSUME TypeOK, NEW w \in Workers, worker[w].stage # "idle",
           NEW columns \in Columns, WriteJob(w, columns)
    PROVE  cols' \in [Jobs -> Columns]
<1>1. worker[w].copy \in Columns /\ worker[w].job \in Jobs
  BY WorkerFields
<1>2. cols[worker[w].job] \in Columns
  BY <1>1 DEF TypeOK
<1>3. Flush(worker[w].copy, columns, cols[worker[w].job]) \in Columns
  BY <1>1, <1>2, FlushTyped
<1>. QED  BY <1>3 DEF TypeOK, WriteJob

LEMMA WriteCredTyped ==
    ASSUME TypeOK, NEW w \in Workers, NEW columns \in Credentials,
           WriteCred(w, columns)
    PROVE  cred' \in Credentials
<1>1. worker[w].cred \in Credentials
  BY WorkerFields
<1>. QED  BY <1>1, FlushTyped DEF TypeOK, WriteCred

LEMMA HeartbeatTyped ==
    ASSUME TypeOK, NEW j \in Jobs, Heartbeat(j)
    PROVE  jobs' \in [Jobs -> JobRows]
<1>1. [jobs[j] EXCEPT !.lease = "held"] \in JobRows
  BY DEF TypeOK, JobRows
<1>. QED  BY <1>1 DEF TypeOK, Heartbeat

LEMMA FinishTyped ==
    ASSUME TypeOK, NEW j \in Jobs, NEW s \in Ended, Finish(j, s)
    PROVE  jobs' \in [Jobs -> JobRows]
<1>1. [status |-> s, active |-> FALSE, lease |-> "none"] \in JobRows
  BY DEF JobRows, Ended
<1>. QED  BY <1>1 DEF TypeOK, Finish

LEMMA TypeInit == Init => TypeOK
<1>. SUFFICES ASSUME Init PROVE TypeOK
  OBVIOUS
<1>1. arrived \in 0..MaxMessages /\ connected \in BOOLEAN
  BY DEF Init
<1>2. cred \in Credentials /\ base \in Cursors
  BY NewTyped, SizesAssumption DEF Init, Cursors, NoCursor
<1>3. jobs \in [Jobs -> JobRows]
  BY DEF Init, JobRows
<1>4. cols \in [Jobs -> Columns]
  BY NewTyped DEF Init
<1>5. email \in [Messages -> Emails]
  BY DEF Init, Emails
<1>6. /\ worker \in [Workers -> WorkerStates]
      /\ \A w \in Workers : worker[w].stage # "idle" => worker[w].job \in Jobs
  BY NewTyped DEF Init
<1>7. calls \in [Messages -> Nat] /\ spent \in [Kinds -> Nat]
  BY DEF Init
<1>. QED  BY <1>1, <1>2, <1>3, <1>4, <1>5, <1>6, <1>7 DEF TypeOK

(* The steps of a worker, without the tables they leave alone.             *)
LEMMA TypeClaim ==
    ASSUME TypeOK, NEW w \in Workers, NEW j \in Jobs, Claim(w, j)
    PROVE  TypeOK'
<1> DEFINE x == [IdleWorker EXCEPT !.stage = "listing", !.job = j,
                                   !.copy = cols[j], !.cred = cred]
<1>1. cols[j] \in Columns /\ cred \in Credentials
  BY DEF TypeOK
<1>2. x \in WorkerStates
  <2>1. "listing" \in Stages /\ j \in Jobs \cup {NoJob}
    BY DEF Stages
  <2>. HIDE DEF Stages, Jobs
  <2>. QED  BY <1>1, <2>1, NewTyped DEF WorkerStates
<1>3. SetWorker(w, x)
  BY DEF Claim
<1>4. x.stage # "idle" => x.job \in Jobs
  BY NewTyped DEF WorkerStates
<1>. HIDE DEF x
<1>5. WorkersTyped'
  BY <1>2, <1>3, <1>4, SetWorkerTyped DEF GoodWorker
<1>6. [jobs[j] EXCEPT !.status = "running", !.lease = "held"] \in JobRows
  BY DEF TypeOK, JobRows
<1>7. jobs' \in [Jobs -> JobRows]
  BY <1>6 DEF TypeOK, Claim
<1>. QED  BY <1>5, <1>7 DEF TypeOK, Claim, mail, WorkersTyped

LEMMA ListedTyped ==
    ASSUME TypeOK, NEW w \in Workers, worker[w].stage = "listing",
           NEW page, page \subseteq Messages, NEW next \in Tokens,
           NEW at \in Cursors, Listed(w, page, next, at)
    PROVE  WorkersTyped'
<1> DEFINE fetched == {m \in page : ~Stored(m)}
           x == [worker[w] EXCEPT !.stage = "fetching", !.page = fetched,
                                  !.next = next, !.at = at]
<1>1. fetched \subseteq Messages /\ "fetching" \in Stages
  BY DEF Stages
<1>. HIDE DEF fetched
<1>2. x \in WorkerStates /\ x.job = worker[w].job
  <2>. HIDE DEF Stages, Messages, Jobs
  <2>. QED  BY <1>1, WorkerFields DEF WorkerStates
<1>3. SetWorker(w, x)
  BY DEF Listed, fetched
<1>4. worker[w].job \in Jobs
  BY WorkerFields
<1>. HIDE DEF x
<1>. QED  BY <1>2, <1>3, <1>4, SetWorkerTyped DEF GoodWorker

LEMMA TypeList ==
    ASSUME TypeOK, NEW w \in Workers, ListHistory(w) \/ ListInbox(w)
    PROVE  TypeOK'
<1>1. arrived \in Cursors /\ NoCursor \in Cursors /\ NoToken \in Tokens
  BY SizesAssumption DEF TypeOK, Cursors, NoCursor, Tokens, NoToken
<1>2. \A m \in 1..arrived : m \in Messages /\ m \in Tokens
  BY SizesAssumption DEF TypeOK, Messages, Tokens
<1>3. \E page \in SUBSET (1..arrived), next \in Tokens, at \in Cursors :
         Listed(w, page, next, at)
  <2>1. CASE ListHistory(w)
    <3> DEFINE me   == worker[w]
               from == IF me.copy.start # NoCursor THEN me.copy.start
                                                   ELSE me.cred.history
               new  == {m \in 1..arrived : m > from /\ m > me.copy.token}
               page == Smallest(new, PageSize)
    <3>1. page \subseteq 1..arrived
      BY DEF Smallest
    <3>2. \/ Listed(w, page, NoToken, MailboxCursor)
          \/ \E last \in page : Listed(w, page, last, MailboxCursor)
      BY <2>1 DEF ListHistory
    <3>. HIDE DEF page
    <3>. QED  BY <1>1, <1>2, <3>1, <3>2 DEF MailboxCursor
  <2>2. CASE ListInbox(w)
    <3> DEFINE me    == worker[w]
               token == IF me.copy.token # NoToken THEN me.copy.token
                                                   ELSE me.cred.resume
               old   == {m \in (1..arrived) \ Bulk :
                           token # NoToken => m < token}
               page  == Largest(old, PageSize)
    <3>1. page \subseteq 1..arrived
      BY DEF Largest
    <3>2. \/ Listed(w, page, NoToken, NoCursor)
          \/ \E last \in page : Listed(w, page, last, NoCursor)
      BY <2>2 DEF ListInbox
    <3>. HIDE DEF page
    <3>. QED  BY <1>1, <1>2, <3>1, <3>2
  <2>. QED  BY <2>1, <2>2
<1>4. worker[w].stage = "listing"
  BY DEF ListHistory, ListInbox
<1>5. WorkersTyped'
  BY <1>2, <1>3, <1>4, ListedTyped
<1>. QED  BY <1>5 DEF TypeOK, WorkersTyped, ListHistory, ListInbox, mail

LEMMA TypeExpire ==
    ASSUME TypeOK, NEW w \in Workers, ExpireHistory(w)
    PROVE  TypeOK'
<1> DEFINE columns == [worker[w].copy EXCEPT !.mode = "bootstrap",
                                             !.start = NoCursor,
                                             !.token = NoToken]
           x == [worker[w] EXCEPT !.copy = columns, !.cred = NewCredential]
<1>1. NoCursor \in Cursors /\ NoToken \in Tokens
  BY SizesAssumption DEF Cursors, NoCursor, Tokens, NoToken
<1>2. columns \in Columns
  BY <1>1, WorkerFields DEF Columns
<1>3. /\ WriteJob(w, columns) /\ WriteCred(w, NewCredential)
      /\ SetWorker(w, x) /\ worker[w].stage = "listing"
  BY DEF ExpireHistory
<1>. HIDE DEF columns
<1>4. x \in WorkerStates /\ x.job = worker[w].job
  <2>. HIDE DEF Messages, Jobs, Stages
  <2>. QED  BY <1>2, NewTyped, WorkerFields DEF WorkerStates
<1>5. worker[w].job \in Jobs
  BY <1>3, WorkerFields
<1>. HIDE DEF x
<1>6. WorkersTyped'
  BY <1>3, <1>4, <1>5, SetWorkerTyped DEF GoodWorker
<1>7. cols' \in [Jobs -> Columns] /\ cred' \in Credentials
  BY <1>2, <1>3, WriteJobTyped, WriteCredTyped, NewTyped
<1>8. spent' \in [Kinds -> Nat]
  BY DEF ExpireHistory, TypeOK, Kinds
<1>. QED  BY <1>6, <1>7, <1>8 DEF TypeOK, WorkersTyped, ExpireHistory, mail

LEMMA MessagesFinite ==
    ASSUME NEW S, S \subseteq Messages
    PROVE  IsFiniteSet(S) /\ Cardinality(S) \in Nat
<1>1. IsFiniteSet(Messages)
  BY FS_Interval, SizesAssumption DEF Messages
<1>. QED  BY <1>1, FS_Subset, FS_CardinalityType

LEMMA TypeStore ==
    ASSUME TypeOK, NEW w \in Workers, StorePage(w)
    PROVE  TypeOK'
<1> DEFINE me == worker[w]
<1>1. PICK bad \in SUBSET me.page :
        LET columns == [me.copy EXCEPT !.failures = @ \/ bad # {}] IN
        /\ spent' = [spent EXCEPT !["faults"] = @ + Cardinality(bad)]
        /\ email' = [m \in Messages |->
                       IF m \in me.page \ (bad \cup Bulk) /\ ~Stored(m)
                       THEN [email[m] EXCEPT !.job = me.job] ELSE email[m]]
        /\ WriteJob(w, columns)
        /\ SetWorker(w, [me EXCEPT !.stage = "stored", !.copy = columns,
                                   !.page = {}])
  BY DEF StorePage
<1> DEFINE columns == [me.copy EXCEPT !.failures = @ \/ bad # {}]
           x == [me EXCEPT !.stage = "stored", !.copy = columns, !.page = {}]
<1>2. me.stage = "fetching" /\ me.job \in Jobs
  BY WorkerFields DEF StorePage
<1>3. columns \in Columns
  BY WorkerFields DEF Columns
<1>. HIDE DEF columns
<1>4. x \in WorkerStates /\ x.job = me.job
  <2>1. "stored" \in Stages /\ {} \in SUBSET Messages
    BY DEF Stages
  <2>. HIDE DEF Messages, Jobs, Stages
  <2>. QED  BY <1>3, <2>1, WorkerFields DEF WorkerStates
<1>5. SetWorker(w, x) /\ WriteJob(w, columns)
  BY <1>1 DEF columns
<1>. HIDE DEF x
<1>6. WorkersTyped'
  BY <1>2, <1>4, <1>5, SetWorkerTyped DEF GoodWorker
<1>7. cols' \in [Jobs -> Columns]
  BY <1>2, <1>3, <1>5, WriteJobTyped
<1>8. spent' \in [Kinds -> Nat]
  <2>1. bad \subseteq Messages
    BY <1>1, WorkerFields
  <2>2. Cardinality(bad) \in Nat
    BY <2>1, MessagesFinite
  <2>. QED  BY <1>1, <2>2 DEF TypeOK, Kinds
<1>9. email' \in [Messages -> Emails]
  <2>1. \A m \in Messages : [email[m] EXCEPT !.job = me.job] \in Emails
    BY <1>2 DEF TypeOK, Emails
  <2>2. \A m \in Messages : email[m] \in Emails
    BY DEF TypeOK
  <2>. QED  BY <1>1, <2>1, <2>2
<1>. QED  BY <1>6, <1>7, <1>8, <1>9 DEF TypeOK, WorkersTyped, StorePage, mail

LEMMA TypeSave ==
    ASSUME TypeOK, NEW w \in Workers, SavePosition(w)
    PROVE  TypeOK'
<1> DEFINE me == worker[w]
           columns == [me.copy EXCEPT
                         !.token = me.next,
                         !.pending = IF me.at # NoCursor THEN me.at ELSE @]
           x == [me EXCEPT !.stage = "analyzing", !.copy = columns]
<1>1. /\ WriteJob(w, columns) /\ SetWorker(w, x) /\ Heartbeat(me.job)
      /\ me.stage = "stored" /\ me.job \in Jobs
  BY WorkerFields DEF SavePosition
<1>2. columns \in Columns
  BY WorkerFields DEF Columns
<1>. HIDE DEF columns
<1>3. x \in WorkerStates /\ x.job = me.job
  <2>1. "analyzing" \in Stages
    BY DEF Stages
  <2>. HIDE DEF Messages, Jobs, Stages
  <2>. QED  BY <1>2, <2>1, WorkerFields DEF WorkerStates
<1>. HIDE DEF x
<1>4. WorkersTyped'
  BY <1>1, <1>3, SetWorkerTyped DEF GoodWorker
<1>5. cols' \in [Jobs -> Columns] /\ jobs' \in [Jobs -> JobRows]
  BY <1>1, <1>2, WriteJobTyped, HeartbeatTyped
<1>. QED  BY <1>4, <1>5 DEF TypeOK, WorkersTyped, SavePosition, mail

LEMMA TypePick ==
    ASSUME TypeOK, NEW w \in Workers, PickBatch(w)
    PROVE  TypeOK'
<1> DEFINE me == worker[w]
           batch == Smallest(Waiting(me.job), BatchSize)
           x == [me EXCEPT !.stage = "marking", !.batch = batch]
<1>1. SetWorker(w, x) /\ me.stage = "analyzing" /\ me.job \in Jobs
  BY WorkerFields DEF PickBatch
<1>2. batch \subseteq Messages
  BY DEF Smallest, Waiting
<1>. HIDE DEF batch
<1>3. x \in WorkerStates /\ x.job = me.job
  <2>1. "marking" \in Stages
    BY DEF Stages
  <2>. HIDE DEF Messages, Jobs, Stages
  <2>. QED  BY <1>2, <2>1, WorkerFields DEF WorkerStates
<1>. HIDE DEF x
<1>4. WorkersTyped'
  BY <1>1, <1>3, SetWorkerTyped DEF GoodWorker
<1>. QED  BY <1>4 DEF TypeOK, WorkersTyped, PickBatch, mail

LEMMA TypeMark ==
    ASSUME TypeOK, NEW w \in Workers, MarkBatch(w)
    PROVE  TypeOK'
<1> DEFINE me == worker[w]
           x == [me EXCEPT !.stage = "calling"]
<1>1. /\ SetWorker(w, x) /\ Heartbeat(me.job)
      /\ me.stage = "marking" /\ me.job \in Jobs
  BY WorkerFields DEF MarkBatch
<1>2. /\ email' = [m \in Messages |->
                     IF m \in me.batch THEN [email[m] EXCEPT !.attempted = TRUE]
                                       ELSE email[m]]
      /\ calls' = [m \in Messages |-> IF m \in me.batch THEN calls[m] + 1
                                                        ELSE calls[m]]
  BY DEF MarkBatch
<1>3. x \in WorkerStates /\ x.job = me.job
  <2>1. "calling" \in Stages
    BY DEF Stages
  <2>. HIDE DEF Messages, Jobs, Stages
  <2>. QED  BY <2>1, WorkerFields DEF WorkerStates
<1>. HIDE DEF x
<1>4. WorkersTyped' /\ jobs' \in [Jobs -> JobRows]
  BY <1>1, <1>3, SetWorkerTyped, HeartbeatTyped DEF GoodWorker
<1>5. calls' \in [Messages -> Nat]
  BY <1>2 DEF TypeOK
<1>6. email' \in [Messages -> Emails]
  <2>1. \A m \in Messages : /\ [email[m] EXCEPT !.attempted = TRUE] \in Emails
                            /\ email[m] \in Emails
    BY DEF TypeOK, Emails
  <2>. QED  BY <1>2, <2>1
<1>. QED  BY <1>4, <1>5, <1>6 DEF TypeOK, WorkersTyped, MarkBatch

(* The three ways a result is written or lost leave a worker with the rest *)
(* of its batch.                                                           *)
LEMMA TypeProject ==
    ASSUME TypeOK, NEW w \in Workers, Project(w)
    PROVE  TypeOK'
<1> DEFINE me == worker[w]
           Left(m) == IF Alive(w) THEN me.batch \ {m} ELSE {}
           After(next, rest) ==
             [next EXCEPT !.batch = rest,
                          !.stage = IF rest = {} THEN "analyzing" ELSE @]
<1>1. me.stage = "calling" /\ me.job \in Jobs
  BY WorkerFields DEF Project
<1>2. PICK m \in me.batch :
        \/ /\ SetWorker(w, After(me, me.batch \ {m}))
           /\ UNCHANGED <<email, jobs>>
        \/ /\ email' = [email EXCEPT ![m].analyzed = TRUE]
           /\ SetWorker(w, After(me, Left(m)))
           /\ UNCHANGED jobs \/ Heartbeat(me.job)
        \/ /\ SetWorker(w, After([me EXCEPT !.copy = cols[me.job],
                                            !.cred = cred], Left(m)))
           /\ UNCHANGED jobs \/ Heartbeat(me.job)
           /\ UNCHANGED email
  BY DEF Project
<1>3. ASSUME NEW next \in WorkerStates, next.job = me.job,
             NEW rest, rest \subseteq me.batch
      PROVE  GoodWorker(After(next, rest))
  <2>1. rest \in SUBSET Messages /\ "analyzing" \in Stages
    BY <1>3, WorkerFields DEF Stages
  <2>. HIDE DEF Messages, Jobs, Stages
  <2>2. After(next, rest) \in WorkerStates /\ After(next, rest).job = me.job
    BY <1>3, <2>1 DEF WorkerStates
  <2>. QED  BY <1>1, <2>2 DEF GoodWorker
<1>4. me \in WorkerStates
  BY WorkerFields
<1>5. /\ [me EXCEPT !.copy = cols[me.job], !.cred = cred] \in WorkerStates
      /\ [me EXCEPT !.copy = cols[me.job], !.cred = cred].job = me.job
  <2>1. cols[me.job] \in Columns /\ cred \in Credentials
    BY <1>1 DEF TypeOK
  <2>. HIDE DEF Messages, Jobs, Stages
  <2>. QED  BY <1>4, <2>1 DEF WorkerStates
<1>6. Left(m) \subseteq me.batch /\ me.batch \ {m} \subseteq me.batch
  OBVIOUS
<1>. HIDE DEF After, Left
<1>7. WorkersTyped'
  BY <1>2, <1>3, <1>4, <1>5, <1>6, SetWorkerTyped
<1>8. jobs' \in [Jobs -> JobRows]
  BY <1>1, <1>2, HeartbeatTyped DEF TypeOK
<1>9. email' \in [Messages -> Emails]
  <2>1. m \in Messages
    BY WorkerFields
  <2>2. [email[m] EXCEPT !.analyzed = TRUE] \in Emails
    BY <2>1 DEF TypeOK, Emails
  <2>. QED  BY <1>2, <2>1, <2>2 DEF TypeOK
<1>. QED  BY <1>7, <1>8, <1>9 DEF TypeOK, WorkersTyped, Project, mail

LEMMA TypeEnd ==
    ASSUME TypeOK, NEW w \in Workers, EndAnalysis(w)
    PROVE  TypeOK'
<1> DEFINE me == worker[w]
           columns == [me.copy EXCEPT
                         !.unread = \E m \in Messages :
                                      /\ email[m].job = me.job
                                      /\ ~email[m].analyzed]
           x == [me EXCEPT !.stage = "paged", !.copy = columns]
<1>1. /\ WriteJob(w, columns) /\ SetWorker(w, x)
      /\ me.stage = "analyzing" /\ me.job \in Jobs
  BY WorkerFields DEF EndAnalysis
<1>2. columns \in Columns
  BY WorkerFields DEF Columns
<1>. HIDE DEF columns
<1>3. x \in WorkerStates /\ x.job = me.job
  <2>1. "paged" \in Stages
    BY DEF Stages
  <2>. HIDE DEF Messages, Jobs, Stages
  <2>. QED  BY <1>2, <2>1, WorkerFields DEF WorkerStates
<1>. HIDE DEF x
<1>4. WorkersTyped' /\ cols' \in [Jobs -> Columns]
  BY <1>1, <1>2, <1>3, SetWorkerTyped, WriteJobTyped DEF GoodWorker
<1>. QED  BY <1>4 DEF TypeOK, WorkersTyped, EndAnalysis, mail

LEMMA TypeNext ==
    ASSUME TypeOK, NEW w \in Workers, NextPage(w)
    PROVE  TypeOK'
<1> DEFINE me == worker[w]
           x == [me EXCEPT !.stage = "listing",
                           !.pages = IF @ < PageLimit THEN @ + 1 ELSE @]
<1>1. /\ SetWorker(w, x) /\ Heartbeat(me.job)
      /\ me.stage = "paged" /\ me.job \in Jobs
  BY WorkerFields DEF NextPage
<1>2. x \in WorkerStates /\ x.job = me.job
  <2>1. /\ "listing" \in Stages
        /\ (IF me.pages < PageLimit THEN me.pages + 1 ELSE me.pages)
              \in 0..PageLimit
    BY WorkerFields, SizesAssumption DEF Stages
  <2>. HIDE DEF Messages, Jobs, Stages
  <2>. QED  BY <2>1, WorkerFields DEF WorkerStates
<1>. HIDE DEF x
<1>3. WorkersTyped' /\ jobs' \in [Jobs -> JobRows]
  BY <1>1, <1>2, SetWorkerTyped, HeartbeatTyped DEF GoodWorker
<1>. QED  BY <1>3 DEF TypeOK, WorkersTyped, NextPage, mail

LEMMA TypeRequeue ==
    ASSUME TypeOK, NEW w \in Workers, Requeue(w)
    PROVE  TypeOK'
<1> DEFINE me == worker[w]
           columns == [me.cred EXCEPT !.resume = me.next]
<1>1. /\ WriteCred(w, columns) /\ Return(w) /\ me.job \in Jobs
      /\ jobs' = [jobs EXCEPT ![me.job].status = "queued",
                              ![me.job].lease = "none"]
  BY WorkerFields DEF Requeue
<1>2. columns \in Credentials
  BY WorkerFields DEF Credentials
<1>. HIDE DEF columns
<1>3. WorkersTyped' /\ cred' \in Credentials
  BY <1>1, <1>2, ReturnTyped, WriteCredTyped
<1>4. [jobs[me.job] EXCEPT !.status = "queued", !.lease = "none"] \in JobRows
  BY <1>1 DEF TypeOK, JobRows
<1>5. jobs' \in [Jobs -> JobRows]
  BY <1>1, <1>4 DEF TypeOK
<1>. QED  BY <1>3, <1>5 DEF TypeOK, WorkersTyped, Requeue, mail

LEMMA TypeFinish ==
    ASSUME TypeOK, NEW w \in Workers, FinishJob(w)
    PROVE  TypeOK'
<1> DEFINE me == worker[w]
<1>1. Return(w) /\ Finish(me.job, Outcome(me.copy)) /\ me.job \in Jobs
  BY WorkerFields DEF FinishJob
<1>2. Outcome(me.copy) \in Ended
  BY DEF Outcome, Ended
<1>3. WorkersTyped' /\ jobs' \in [Jobs -> JobRows]
  BY <1>1, <1>2, ReturnTyped, FinishTyped
<1>4. arrived \in Cursors /\ NoToken \in Tokens
  BY SizesAssumption DEF TypeOK, Cursors, Tokens, NoToken
<1>5. cred' \in Credentials /\ base' \in Cursors
  <2>1. CASE /\ WriteCred(w, [history |-> MailboxCursor, resume |-> NoToken])
             /\ base' = MailboxCursor
    <3>1. [history |-> MailboxCursor, resume |-> NoToken] \in Credentials
      BY <1>4 DEF Credentials, MailboxCursor
    <3>. QED  BY <1>4, <2>1, <3>1, WriteCredTyped DEF MailboxCursor
  <2>2. CASE /\ WriteCred(w, [me.cred EXCEPT
                               !.history = IF me.copy.pending # NoCursor
                                             THEN me.copy.pending ELSE @])
             /\ UNCHANGED base
    <3>1. me.copy.pending \in Cursors
      BY WorkerFields DEF Columns
    <3>2. [me.cred EXCEPT !.history = IF me.copy.pending # NoCursor
                                       THEN me.copy.pending ELSE @]
            \in Credentials
      BY <3>1, WorkerFields DEF Credentials
    <3>. QED  BY <2>2, <3>2, WriteCredTyped DEF TypeOK
  <2>3. CASE UNCHANGED <<cred, base>>
    BY <2>3 DEF TypeOK
  <2>. QED  BY <2>1, <2>2, <2>3 DEF FinishJob
<1>. QED  BY <1>3, <1>5 DEF TypeOK, WorkersTyped, FinishJob

LEMMA TypeStop ==
    ASSUME TypeOK, NEW w \in Workers, FailJob(w) \/ Abandon(w) \/ Crash(w)
    PROVE  TypeOK'
<1>1. WorkersTyped'
  BY ReturnTyped DEF FailJob, Abandon, Crash
<1>2. CASE FailJob(w)
  <2>1. worker[w].job \in Jobs /\ "failed" \in Ended
    BY <1>2, WorkerFields DEF FailJob, Ended
  <2>2. jobs' \in [Jobs -> JobRows]
    BY <1>2, <2>1, FinishTyped DEF FailJob
  <2>. QED  BY <1>1, <1>2, <2>2 DEF TypeOK, WorkersTyped, FailJob, mail
<1>3. CASE Abandon(w)
  BY <1>1, <1>3 DEF TypeOK, WorkersTyped, Abandon, mail
<1>4. CASE Crash(w)
  BY <1>1, <1>4 DEF TypeOK, WorkersTyped, Crash, mail, Kinds
<1>. QED  BY <1>2, <1>3, <1>4

LEMMA TypeWorker ==
    ASSUME TypeOK, NEW w \in Workers, WorkerStep(w) \/ Crash(w)
    PROVE  TypeOK'
BY TypeClaim, TypeList, TypeExpire, TypeStore, TypeSave, TypePick, TypeMark,
   TypeProject, TypeEnd, TypeNext, TypeRequeue, TypeFinish, TypeStop DEF WorkerStep

LEMMA TypeWeb ==
    ASSUME TypeOK,
           \/ \E j \in Jobs : Enqueue(j) \/ Lapse(j)
           \/ \E m \in Messages : UserAnalyze(m)
           \/ Disconnect \/ Connect \/ Arrive
    PROVE  TypeOK'
<1>1. ASSUME NEW j \in Jobs, Enqueue(j) PROVE TypeOK'
  <2> DEFINE columns == IF cred.history # NoCursor
                          THEN [NewColumns EXCEPT !.mode = "history",
                                                  !.start = cred.history]
                          ELSE [NewColumns EXCEPT !.token = cred.resume]
  <2>1. cred.history \in Cursors /\ cred.resume \in Tokens
    BY DEF TypeOK, Credentials
  <2>2. columns \in Columns
    BY <2>1, NewTyped DEF Columns
  <2>3. cols' = [cols EXCEPT ![j] = columns]
    BY <1>1 DEF Enqueue
  <2>. HIDE DEF columns
  <2>4. cols' \in [Jobs -> Columns]
    BY <2>2, <2>3 DEF TypeOK
  <2>5. jobs' \in [Jobs -> JobRows]
    <3>1. [status |-> "queued", active |-> TRUE, lease |-> "none"] \in JobRows
      BY DEF JobRows
    <3>. QED  BY <1>1, <3>1 DEF TypeOK, Enqueue
  <2>. QED  BY <1>1, <2>4, <2>5 DEF TypeOK, Enqueue, mail
<1>2. ASSUME NEW j \in Jobs, Lapse(j) PROVE TypeOK'
  <2>1. [jobs[j] EXCEPT !.lease = "lapsed"] \in JobRows
    BY DEF TypeOK, JobRows
  <2>2. jobs' \in [Jobs -> JobRows]
    BY <1>2, <2>1 DEF TypeOK, Lapse
  <2>. QED  BY <1>2, <2>2 DEF TypeOK, Lapse, mail
<1>3. ASSUME NEW m \in Messages, UserAnalyze(m) PROVE TypeOK'
  <2>1. [email[m] EXCEPT !.analyzed = TRUE] \in Emails
    BY DEF TypeOK, Emails
  <2>2. email' \in [Messages -> Emails]
    BY <1>3, <2>1 DEF TypeOK, UserAnalyze
  <2>. QED  BY <1>3, <2>2 DEF TypeOK, UserAnalyze, mail
<1>4. CASE Disconnect
  <2>1. [status |-> "deleted", active |-> FALSE, lease |-> "none"] \in JobRows
    BY DEF JobRows
  <2>2. jobs' \in [Jobs -> JobRows]
    BY <1>4, <2>1 DEF TypeOK, Disconnect
  <2>3. cred' \in Credentials /\ base' \in Cursors
    BY <1>4, NewTyped, SizesAssumption DEF Disconnect, Cursors, NoCursor
  <2>4. spent' \in [Kinds -> Nat]
    BY <1>4 DEF TypeOK, Disconnect, Kinds
  <2>5. connected' \in BOOLEAN
    BY <1>4 DEF Disconnect
  <2>. QED  BY <1>4, <2>2, <2>3, <2>4, <2>5 DEF TypeOK, Disconnect
<1>5. CASE Connect
  BY <1>5 DEF TypeOK, Connect, mail
<1>6. CASE Arrive
  BY <1>6, SizesAssumption DEF TypeOK, Arrive
<1>. QED  BY <1>1, <1>2, <1>3, <1>4, <1>5, <1>6

LEMMA TypeStep == TypeOK /\ [Next]_vars => TypeOK'
<1>1. TypeOK /\ UNCHANGED vars => TypeOK'
  BY DEF TypeOK, vars
<1>. QED  BY <1>1, TypeWorker, TypeWeb DEF Next

(* Every reachable state of the queue, the tables and the workers is well  *)
(* typed.                                                                  *)
THEOREM SyncTypes == Spec => []TypeOK
BY TypeInit, TypeStep, PTL DEF Spec

-----------------------------------------------------------------------------
(* What each action leaves its worker with.                                *)

Busy(w) == worker[w].stage # "idle"

Stays(w, stage) ==
    /\ Busy(w)
    /\ worker'[w].stage = stage
    /\ worker'[w].job = worker[w].job
    /\ \A v \in Workers : v # w => worker'[v] = worker[v]

SameRows(w) == /\ worker'[w].copy = worker[w].copy
               /\ worker'[w].cred = worker[w].cred

SamePage(w) == /\ worker'[w].next = worker[w].next
               /\ worker'[w].at = worker[w].at

LEMMA SetWorkerEffect ==
    ASSUME TypeOK, NEW w \in Workers, NEW x, SetWorker(w, x)
    PROVE  /\ worker'[w] = x
           /\ \A v \in Workers : v # w => worker'[v] = worker[v]
BY DEF SetWorker, TypeOK

LEMMA ReturnEffect ==
    ASSUME TypeOK, NEW w \in Workers, Return(w)
    PROVE  /\ ~Busy(w)'
           /\ \A v \in Workers : v # w => worker'[v] = worker[v]
BY SetWorkerEffect, NewTyped DEF Return, Busy

LEMMA ClaimEffect ==
    ASSUME TypeOK, NEW w \in Workers, NEW j \in Jobs, Claim(w, j)
    PROVE  /\ worker'[w].stage = "listing" /\ worker'[w].job = j
           /\ worker'[w].copy = cols[j] /\ worker'[w].cred = cred
           /\ \A v \in Workers : v # w => worker'[v] = worker[v]
<1>. DEFINE x == [IdleWorker EXCEPT !.stage = "listing", !.job = j,
                                    !.copy = cols[j], !.cred = cred]
<1>1. SetWorker(w, x)
  BY DEF Claim
<1>2. /\ x.stage = "listing" /\ x.job = j
      /\ x.copy = cols[j] /\ x.cred = cred
  BY NewTyped DEF WorkerStates
<1>. HIDE DEF x
<1>. QED  BY <1>1, <1>2, SetWorkerEffect

LEMMA ListedEffect ==
    ASSUME TypeOK, NEW w \in Workers, worker[w].stage = "listing",
           NEW page, NEW next, NEW at, Listed(w, page, next, at)
    PROVE  /\ Stays(w, "fetching") /\ SameRows(w)
           /\ worker'[w].page = {m \in page : ~Stored(m)}
           /\ worker'[w].next = next /\ worker'[w].at = at
<1>. DEFINE fetched == {m \in page : ~Stored(m)}
            x == [worker[w] EXCEPT !.stage = "fetching", !.page = fetched,
                                   !.next = next, !.at = at]
<1>1. SetWorker(w, x)
  BY DEF Listed
<1>. HIDE DEF fetched
<1>2. /\ x.stage = "fetching" /\ x.job = worker[w].job
      /\ x.copy = worker[w].copy /\ x.cred = worker[w].cred
      /\ x.page = fetched /\ x.next = next /\ x.at = at
  BY WorkerFields DEF WorkerStates
<1>. HIDE DEF x
<1>. QED  BY <1>1, <1>2, SetWorkerEffect DEF Stays, SameRows, Busy, fetched

LEMMA ListEffect ==
    ASSUME TypeOK, NEW w \in Workers, ListHistory(w) \/ ListInbox(w)
    PROVE  Stays(w, "fetching") /\ SameRows(w)
<1>1. PICK page, next, at : Listed(w, page, next, at)
  BY DEF ListHistory, ListInbox
<1>. QED  BY <1>1, ListedEffect DEF ListHistory, ListInbox

LEMMA ExpireEffect ==
    ASSUME TypeOK, NEW w \in Workers, ExpireHistory(w)
    PROVE  /\ Stays(w, "listing")
           /\ \E c \in Columns :
                /\ WriteJob(w, c) /\ worker'[w].copy = c
                /\ c.mode = "bootstrap"
           /\ WriteCred(w, NewCredential)
           /\ worker'[w].cred = NewCredential
<1>. DEFINE c == [worker[w].copy EXCEPT !.mode = "bootstrap",
                                        !.start = NoCursor, !.token = NoToken]
            x == [worker[w] EXCEPT !.copy = c, !.cred = NewCredential]
<1>1. NoCursor \in Cursors /\ NoToken \in Tokens
  BY SizesAssumption DEF Cursors, NoCursor, Tokens, NoToken
<1>2. c \in Columns /\ c.mode = "bootstrap"
  BY <1>1, WorkerFields DEF Columns
<1>3. /\ SetWorker(w, x) /\ WriteJob(w, c) /\ WriteCred(w, NewCredential)
      /\ worker[w].stage = "listing"
  BY DEF ExpireHistory
<1>. HIDE DEF c
<1>4. /\ x.stage = worker[w].stage /\ x.job = worker[w].job
      /\ x.copy = c /\ x.cred = NewCredential
  BY WorkerFields DEF WorkerStates
<1>. HIDE DEF x
<1>. QED  BY <1>2, <1>3, <1>4, SetWorkerEffect DEF Stays, Busy

LEMMA StoreEffect ==
    ASSUME TypeOK, NEW w \in Workers, StorePage(w)
    PROVE  /\ Stays(w, "stored") /\ SamePage(w)
           /\ worker'[w].cred = worker[w].cred
           /\ worker'[w].copy \in Columns
           /\ WriteJob(w, worker'[w].copy)
           /\ \E bad \in SUBSET worker[w].page :
                /\ worker'[w].copy =
                     [worker[w].copy EXCEPT !.failures = @ \/ bad # {}]
                /\ email' =
                     [m \in Messages |->
                        IF m \in worker[w].page \ (bad \cup Bulk) /\ ~Stored(m)
                        THEN [email[m] EXCEPT !.job = worker[w].job]
                        ELSE email[m]]
<1>1. PICK bad \in SUBSET worker[w].page :
        LET c == [worker[w].copy EXCEPT !.failures = @ \/ bad # {}] IN
        /\ WriteJob(w, c)
        /\ SetWorker(w, [worker[w] EXCEPT !.stage = "stored", !.copy = c,
                                          !.page = {}])
        /\ email' =
             [m \in Messages |->
                IF m \in worker[w].page \ (bad \cup Bulk) /\ ~Stored(m)
                THEN [email[m] EXCEPT !.job = worker[w].job] ELSE email[m]]
  BY DEF StorePage
<1>. DEFINE c == [worker[w].copy EXCEPT !.failures = @ \/ bad # {}]
            x == [worker[w] EXCEPT !.stage = "stored", !.copy = c, !.page = {}]
<1>2. c \in Columns
  BY WorkerFields DEF Columns
<1>3. SetWorker(w, x) /\ WriteJob(w, c) /\ worker[w].stage = "fetching"
  BY <1>1 DEF StorePage
<1>. HIDE DEF c
<1>4. /\ x.stage = "stored" /\ x.job = worker[w].job
      /\ x.copy = c /\ x.cred = worker[w].cred
      /\ x.next = worker[w].next /\ x.at = worker[w].at
  BY WorkerFields DEF WorkerStates
<1>. HIDE DEF x
<1>5. /\ Stays(w, "stored") /\ SamePage(w)
      /\ worker'[w].cred = worker[w].cred /\ worker'[w].copy = c
  BY <1>3, <1>4, SetWorkerEffect DEF Stays, SamePage, Busy
<1>. QED  BY <1>1, <1>2, <1>3, <1>5 DEF c

LEMMA SaveEffect ==
    ASSUME TypeOK, NEW w \in Workers, SavePosition(w)
    PROVE  /\ Stays(w, "analyzing") /\ SamePage(w)
           /\ worker'[w].cred = worker[w].cred
           /\ worker'[w].copy \in Columns
           /\ WriteJob(w, worker'[w].copy)
           /\ worker'[w].copy =
                [worker[w].copy EXCEPT
                   !.token = worker[w].next,
                   !.pending = IF worker[w].at # NoCursor THEN worker[w].at
                                                          ELSE @]
<1>. DEFINE c == [worker[w].copy EXCEPT
                    !.token = worker[w].next,
                    !.pending = IF worker[w].at # NoCursor THEN worker[w].at
                                                           ELSE @]
            x == [worker[w] EXCEPT !.stage = "analyzing", !.copy = c]
<1>1. c \in Columns
  BY WorkerFields DEF Columns
<1>2. SetWorker(w, x) /\ WriteJob(w, c) /\ worker[w].stage = "stored"
  BY DEF SavePosition
<1>. HIDE DEF c
<1>3. /\ x.stage = "analyzing" /\ x.job = worker[w].job
      /\ x.copy = c /\ x.cred = worker[w].cred
      /\ x.next = worker[w].next /\ x.at = worker[w].at
  BY WorkerFields DEF WorkerStates
<1>. HIDE DEF x
<1>4. /\ Stays(w, "analyzing") /\ SamePage(w)
      /\ worker'[w].cred = worker[w].cred /\ worker'[w].copy = c
  BY <1>2, <1>3, SetWorkerEffect DEF Stays, SamePage, Busy
<1>. QED  BY <1>1, <1>2, <1>4 DEF c

LEMMA PickEffect ==
    ASSUME TypeOK, NEW w \in Workers, PickBatch(w)
    PROVE  /\ Stays(w, "marking") /\ SameRows(w) /\ SamePage(w)
           /\ worker'[w].batch = Smallest(Waiting(worker[w].job), BatchSize)
<1>1. PICK b : /\ SetWorker(w, [worker[w] EXCEPT !.stage = "marking",
                                                !.batch = b])
               /\ b = Smallest(Waiting(worker[w].job), BatchSize)
  BY DEF PickBatch
<1>. DEFINE x == [worker[w] EXCEPT !.stage = "marking", !.batch = b]
<1>2. /\ x.stage = "marking" /\ x.job = worker[w].job /\ x.batch = b
      /\ x.copy = worker[w].copy /\ x.cred = worker[w].cred
      /\ x.next = worker[w].next /\ x.at = worker[w].at
  BY WorkerFields DEF WorkerStates
<1>3. SetWorker(w, x) /\ worker[w].stage = "analyzing"
  BY <1>1 DEF PickBatch
<1>. HIDE DEF x
<1>. QED
  BY <1>1, <1>2, <1>3, SetWorkerEffect DEF Stays, SameRows, SamePage, Busy

LEMMA MarkEffect ==
    ASSUME TypeOK, NEW w \in Workers, MarkBatch(w)
    PROVE  Stays(w, "calling") /\ SameRows(w) /\ SamePage(w)
<1>. DEFINE x == [worker[w] EXCEPT !.stage = "calling"]
<1>1. /\ x.stage = "calling" /\ x.job = worker[w].job
      /\ x.copy = worker[w].copy /\ x.cred = worker[w].cred
      /\ x.next = worker[w].next /\ x.at = worker[w].at
  BY WorkerFields DEF WorkerStates
<1>2. SetWorker(w, x) /\ worker[w].stage = "marking"
  BY DEF MarkBatch
<1>. HIDE DEF x
<1>. QED  BY <1>1, <1>2, SetWorkerEffect DEF Stays, SameRows, SamePage, Busy

(* After a rollback the worker has the rows as they are now.               *)
LEMMA ProjectEffect ==
    ASSUME TypeOK, NEW w \in Workers, Project(w)
    PROVE  /\ Stays(w, "calling") \/ Stays(w, "analyzing")
           /\ SamePage(w)
           /\ \/ SameRows(w)
              \/ /\ worker'[w].copy = cols[worker[w].job]
                 /\ worker'[w].cred = cred
<1>. DEFINE me == worker[w]
            again == [me EXCEPT !.copy = cols[me.job], !.cred = cred]
            After(n, rest) ==
              [n EXCEPT !.batch = rest,
                        !.stage = IF rest = {} THEN "analyzing" ELSE @]
<1>1. PICK n \in {me, again} : \E rest : SetWorker(w, After(n, rest))
  BY DEF Project
<1>2. me \in WorkerStates /\ me.stage = "calling"
  BY WorkerFields DEF Project
<1>3. /\ DOMAIN again = DOMAIN me
      /\ again.stage = me.stage /\ again.job = me.job
      /\ again.copy = cols[me.job] /\ again.cred = cred
      /\ again.next = me.next /\ again.at = me.at
  BY <1>2 DEF WorkerStates
<1>4. DOMAIN me = {"stage", "job", "copy", "cred", "page", "next", "at",
                   "pages", "batch"}
  BY <1>2 DEF WorkerStates
<1>. HIDE DEF again, me
<1>5. PICK rest : SetWorker(w, After(n, rest))
  BY <1>1
<1>6. /\ After(n, rest).stage \in {"calling", "analyzing"}
      /\ After(n, rest).job = me.job
      /\ After(n, rest).copy = n.copy /\ After(n, rest).cred = n.cred
      /\ After(n, rest).next = me.next /\ After(n, rest).at = me.at
  BY <1>2, <1>3, <1>4
<1>. HIDE DEF After
<1>7. /\ worker'[w] = After(n, rest)
      /\ \A v \in Workers : v # w => worker'[v] = worker[v]
  BY <1>5, SetWorkerEffect
<1>. QED  BY <1>2, <1>3, <1>6, <1>7
          DEF Stays, SameRows, SamePage, Busy, me

LEMMA EndEffect ==
    ASSUME TypeOK, NEW w \in Workers, EndAnalysis(w)
    PROVE  /\ Stays(w, "paged") /\ SamePage(w)
           /\ worker'[w].cred = worker[w].cred
           /\ worker'[w].copy \in Columns
           /\ WriteJob(w, worker'[w].copy)
           /\ worker'[w].copy =
                [worker[w].copy EXCEPT
                   !.unread = \E m \in Messages :
                                /\ email[m].job = worker[w].job
                                /\ ~email[m].analyzed]
<1>. DEFINE c == [worker[w].copy EXCEPT
                    !.unread = \E m \in Messages :
                                 /\ email[m].job = worker[w].job
                                 /\ ~email[m].analyzed]
            x == [worker[w] EXCEPT !.stage = "paged", !.copy = c]
<1>1. c \in Columns
  BY WorkerFields DEF Columns
<1>2. SetWorker(w, x) /\ WriteJob(w, c) /\ worker[w].stage = "analyzing"
  BY DEF EndAnalysis
<1>. HIDE DEF c
<1>3. /\ x.stage = "paged" /\ x.job = worker[w].job
      /\ x.copy = c /\ x.cred = worker[w].cred
      /\ x.next = worker[w].next /\ x.at = worker[w].at
  BY WorkerFields DEF WorkerStates
<1>. HIDE DEF x
<1>4. /\ Stays(w, "paged") /\ SamePage(w)
      /\ worker'[w].cred = worker[w].cred /\ worker'[w].copy = c
  BY <1>2, <1>3, SetWorkerEffect DEF Stays, SamePage, Busy
<1>. QED  BY <1>1, <1>2, <1>4 DEF c

LEMMA NextEffect ==
    ASSUME TypeOK, NEW w \in Workers, NextPage(w)
    PROVE  Stays(w, "listing") /\ SameRows(w)
<1>1. PICK n : SetWorker(w, [worker[w] EXCEPT !.stage = "listing", !.pages = n])
  BY DEF NextPage
<1>. DEFINE x == [worker[w] EXCEPT !.stage = "listing", !.pages = n]
<1>2. /\ x.stage = "listing" /\ x.job = worker[w].job
      /\ x.copy = worker[w].copy /\ x.cred = worker[w].cred
  BY WorkerFields DEF WorkerStates
<1>3. SetWorker(w, x) /\ worker[w].stage = "paged"
  BY <1>1 DEF NextPage
<1>. HIDE DEF x
<1>. QED  BY <1>2, <1>3, SetWorkerEffect DEF Stays, SameRows, Busy

-----------------------------------------------------------------------------
(* OneActiveJob.                                                           *)

Waits(j) == jobs[j].status \in {"queued", "running"}

(* A worker with a job that is still there has its lease, and no other     *)
(* worker has the job; the active slot is taken exactly while a job waits  *)
(* or runs, and the unique key keeps a second one out.                     *)
LeaseInv ==
    /\ \A v, w \in Workers :
         Busy(v) /\ Busy(w) /\ worker[v].job = worker[w].job => v = w
    /\ \A w \in Workers : Busy(w) /\ Alive(w) =>
         /\ jobs[worker[w].job].status = "running"
         /\ jobs[worker[w].job].lease = "held"
    /\ \A j \in Jobs : jobs[j].active <=> Waits(j)
    /\ OneActiveJob

(* The job that a step takes, keeps or gives up, and what it does to it.   *)
Takes(w, j) ==
    /\ ~Busy(w) /\ Claimable(j)
    /\ worker'[w].stage = "listing" /\ worker'[w].job = j
    /\ jobs' = [jobs EXCEPT ![j].status = "running", ![j].lease = "held"]

Keeps(w) ==
    /\ Busy(w) /\ worker'[w].stage # "idle"
    /\ worker'[w].job = worker[w].job
    /\ UNCHANGED jobs \/ (Alive(w) /\ Heartbeat(worker[w].job))

Leaves(w) ==
    /\ Busy(w) /\ worker'[w].stage = "idle"
    /\ \/ UNCHANGED jobs
       \/ /\ Alive(w)
          /\ jobs' = [jobs EXCEPT ![worker[w].job].status = "queued",
                                  ![worker[w].job].lease = "none"]
       \/ Alive(w) /\ \E s \in Ended : Finish(worker[w].job, s)

LEMMA WorkerMoves ==
    ASSUME TypeOK, NEW w \in Workers, WorkerStep(w) \/ Crash(w)
    PROVE  /\ \A v \in Workers : v # w => worker'[v] = worker[v]
           /\ Keeps(w) \/ Leaves(w) \/ \E j \in Jobs : Takes(w, j)
<1>1. ASSUME NEW j \in Jobs, Claim(w, j)
      PROVE  Takes(w, j) /\ \A v \in Workers : v # w => worker'[v] = worker[v]
  BY <1>1, ClaimEffect DEF Claim, Takes, Busy
<1>2. ASSUME NEW stage, stage # "idle", Stays(w, stage),
             UNCHANGED jobs \/ (Alive(w) /\ Heartbeat(worker[w].job))
      PROVE  Keeps(w) /\ \A v \in Workers : v # w => worker'[v] = worker[v]
  BY <1>2 DEF Keeps, Stays
<1>3. CASE ListHistory(w) \/ ListInbox(w)
  BY <1>2, <1>3, ListEffect DEF ListHistory, ListInbox
<1>4. CASE ExpireHistory(w)
  BY <1>2, <1>4, ExpireEffect DEF ExpireHistory
<1>5. CASE StorePage(w)
  BY <1>2, <1>5, StoreEffect DEF StorePage
<1>6. CASE SavePosition(w)
  BY <1>2, <1>6, SaveEffect DEF SavePosition
<1>7. CASE MarkBatch(w)
  BY <1>2, <1>7, MarkEffect DEF MarkBatch
<1>16. CASE PickBatch(w)
  BY <1>2, <1>16, PickEffect DEF PickBatch
<1>8. CASE Project(w)
  <2>1. UNCHANGED jobs \/ (Alive(w) /\ Heartbeat(worker[w].job))
    BY <1>8 DEF Project
  <2>. QED  BY <1>2, <1>8, <2>1, ProjectEffect
<1>9. CASE EndAnalysis(w)
  BY <1>2, <1>9, EndEffect DEF EndAnalysis
<1>10. CASE NextPage(w)
  BY <1>2, <1>10, NextEffect DEF NextPage
<1>11. CASE Requeue(w)
  BY <1>11, ReturnEffect DEF Requeue, Leaves, Busy
<1>12. CASE FinishJob(w)
  <2>1. Outcome(worker[w].copy) \in Ended
    BY DEF Outcome, Ended
  <2>. QED  BY <1>12, <2>1, ReturnEffect DEF FinishJob, Leaves, Busy
<1>13. CASE FailJob(w)
  BY <1>13, ReturnEffect DEF FailJob, Leaves, Busy, Ended
<1>14. CASE Abandon(w) \/ Crash(w)
  BY <1>14, ReturnEffect DEF Abandon, Crash, Leaves, Busy
<1>15. ASSUME \E j \in Jobs : Claim(w, j)
       PROVE  /\ \A v \in Workers : v # w => worker'[v] = worker[v]
              /\ \E j \in Jobs : Takes(w, j)
  BY <1>1, <1>15
<1>. QED  BY <1>3, <1>4, <1>5, <1>6, <1>7, <1>8, <1>9, <1>10, <1>11, <1>12,
             <1>13, <1>14, <1>15, <1>16 DEF WorkerStep

LEMMA LeaseWorker ==
    ASSUME TypeOK, LeaseInv, NEW w \in Workers, WorkerStep(w) \/ Crash(w)
    PROVE  LeaseInv'
<1>. DEFINE j == worker[w].job
<1>0. /\ \A v \in Workers : v # w => worker'[v] = worker[v]
      /\ \A v \in Workers : Busy(v) => worker[v].job \in Jobs
      /\ jobs \in [Jobs -> JobRows]
  BY WorkerMoves, WorkerFields DEF Busy, TypeOK
<1>1. \A i, k \in Jobs : jobs[i].active /\ jobs[k].active => i = k
  BY DEF LeaseInv, OneActiveJob, Waits
<1>2. CASE Keeps(w)
  <2>1. \A i \in Jobs : /\ jobs'[i].status = jobs[i].status
                        /\ jobs'[i].active = jobs[i].active
                        /\ jobs'[i].lease \in {jobs[i].lease, "held"}
    BY <1>0, <1>2 DEF Keeps, Heartbeat, JobRows
  <2>2. /\ worker'[w].job = j /\ Busy(w)
        /\ Busy(w)'
    BY <1>2 DEF Keeps, Busy
  <2>. QED  BY <1>0, <2>1, <2>2 DEF LeaseInv, OneActiveJob, Waits, Busy, Alive
<1>3. CASE Leaves(w)
  <2>1. ~Busy(w)' /\ Busy(w) /\ j \in Jobs
    BY <1>0, <1>3 DEF Leaves, Busy
  <2>2. /\ \A i \in Jobs : i # j => jobs'[i] = jobs[i]
        /\ \/ jobs'[j] = jobs[j]
           \/ /\ Alive(w)
              /\ \/ /\ jobs'[j].status = "queued"
                    /\ jobs'[j].active = jobs[j].active
                 \/ /\ jobs'[j].status \in Ended
                    /\ jobs'[j].active = FALSE
    <3>1. CASE UNCHANGED jobs
      BY <3>1
    <3>2. CASE /\ Alive(w)
               /\ jobs' = [jobs EXCEPT ![j].status = "queued",
                                       ![j].lease = "none"]
      BY <1>0, <2>1, <3>2 DEF JobRows
    <3>3. CASE Alive(w) /\ \E s \in Ended : Finish(j, s)
      <4>. PICK s \in Ended :
             jobs' = [jobs EXCEPT ![j] = [status |-> s, active |-> FALSE,
                                          lease |-> "none"]]
        BY <3>3 DEF Finish
      <4>. QED  BY <1>0, <2>1, <3>3
    <3>. QED  BY <1>3, <3>1, <3>2, <3>3 DEF Leaves
  <2>3. Alive(w) => jobs[j].status = "running" /\ jobs[j].active
    BY <2>1 DEF LeaseInv, Waits
  <2>4. \A i \in Jobs : jobs'[i].active <=> Waits(i)'
    <3>1. CASE jobs'[j] = jobs[j]
      BY <2>2, <3>1 DEF LeaseInv, Waits
    <3>2. CASE jobs'[j].status = "queued" /\ jobs'[j].active
      BY <2>2, <3>2 DEF LeaseInv, Waits
    <3>3. CASE jobs'[j].status \in Ended /\ ~jobs'[j].active
      BY <2>2, <3>3 DEF LeaseInv, Waits, Ended
    <3>. QED  BY <2>2, <2>3, <3>1, <3>2, <3>3
  <2>5. \A i \in Jobs : Waits(i)' => Waits(i)
    BY <2>2, <2>3 DEF Waits
  <2>6. \A v \in Workers : Busy(v)' =>
           v # w /\ Busy(v) /\ worker'[v] = worker[v] /\ worker[v].job # j
    BY <1>0, <2>1 DEF LeaseInv, Busy
  <2>. QED  BY <1>0, <2>2, <2>4, <2>5, <2>6
            DEF LeaseInv, OneActiveJob, Waits, Busy, Alive
<1>4. ASSUME NEW i \in Jobs, Takes(w, i) PROVE LeaseInv'
  <2>1. /\ ~Busy(w) /\ Busy(w)' /\ worker'[w].job = i /\ Claimable(i)
        /\ jobs'[i].status = "running" /\ jobs'[i].lease = "held"
        /\ jobs'[i].active = jobs[i].active
        /\ \A k \in Jobs : k # i => jobs'[k] = jobs[k]
    BY <1>0, <1>4 DEF Takes, Busy, JobRows
  <2>2. Waits(i) /\ \A v \in Workers : Busy(v) => worker[v].job # i
    BY <2>1 DEF Claimable, LeaseInv, Waits, Alive
  <2>3. \A k \in Jobs : Waits(k)' <=> Waits(k)
    BY <2>1, <2>2 DEF Waits
  <2>4. \A k \in Jobs : jobs'[k].active = jobs[k].active
    BY <2>1
  <2>5. OneActiveJob' /\ \A k \in Jobs : jobs'[k].active <=> Waits(k)'
    BY <2>3, <2>4 DEF LeaseInv, OneActiveJob, Waits
  <2>6. \A v \in Workers : v # w /\ Busy(v)' =>
           Busy(v) /\ worker'[v] = worker[v] /\ worker[v].job # i
    BY <1>0, <2>2 DEF Busy
  <2>. QED  BY <1>0, <2>1, <2>5, <2>6 DEF LeaseInv, Busy, Alive
<1>. QED  BY <1>2, <1>3, <1>4, WorkerMoves

LEMMA LeaseStep ==
    ASSUME MayOverrun = FALSE, TypeOK, LeaseInv, [Next]_vars
    PROVE  LeaseInv'
<1>1. ASSUME UNCHANGED <<jobs, worker>> PROVE LeaseInv'
  BY <1>1 DEF LeaseInv, OneActiveJob, Waits, Busy, Alive
<1>2. /\ \A w \in Workers : Busy(w) => worker[w].job \in Jobs
      /\ jobs \in [Jobs -> JobRows]
  BY WorkerFields DEF Busy, TypeOK
<1>3. ASSUME NEW j \in Jobs, Enqueue(j) PROVE LeaseInv'
  <2>1. /\ jobs'[j].status = "queued" /\ jobs'[j].active = TRUE
        /\ \A i \in Jobs : ~jobs[i].active
        /\ \A i \in Jobs : i # j => jobs'[i] = jobs[i]
        /\ jobs[j].status = "absent" /\ UNCHANGED worker
    BY <1>2, <1>3 DEF Enqueue
  <2>2. \A i \in Jobs : ~Waits(i)
    BY <2>1 DEF LeaseInv
  <2>3. \A w \in Workers : Busy(w) => ~Alive(w) /\ worker[w].job # j
    BY <1>2, <2>1, <2>2 DEF LeaseInv, Waits, Alive
  <2>. QED  BY <1>2, <2>1, <2>2, <2>3
            DEF LeaseInv, OneActiveJob, Waits, Busy, Alive
<1>4. ASSUME NEW j \in Jobs, Lapse(j) PROVE LeaseInv'
  <2>1. /\ \A w \in Workers : Busy(w) => worker[w].job # j
        /\ jobs'[j].status = jobs[j].status /\ jobs'[j].active = jobs[j].active
        /\ \A i \in Jobs : i # j => jobs'[i] = jobs[i]
        /\ UNCHANGED worker
    BY <1>2, <1>4 DEF Lapse, Holds, Busy, JobRows
  <2>. QED  BY <1>2, <2>1 DEF LeaseInv, OneActiveJob, Waits, Busy, Alive
<1>5. CASE Disconnect
  <2>1. /\ \A i \in Jobs : /\ jobs'[i].status \in {"absent", "deleted"}
                           /\ jobs'[i].active = FALSE
                           /\ jobs[i].status # "absent" =>
                                jobs'[i].status = "deleted"
        /\ UNCHANGED worker
    <3>1. \A i \in Jobs : jobs[i].status = "absent" => jobs[i].active = FALSE
      BY <1>2 DEF LeaseInv, Waits, JobRows
    <3>. QED  BY <1>5, <3>1 DEF Disconnect
  <2>2. \A w \in Workers : Busy(w) => jobs[worker[w].job].status # "absent"
    BY DEF LeaseInv, Alive
  <2>. QED  BY <1>2, <2>1, <2>2 DEF LeaseInv, OneActiveJob, Waits, Busy, Alive
<1>6. CASE Connect \/ Arrive \/ \E m \in Messages : UserAnalyze(m)
  BY <1>1, <1>6 DEF Connect, Arrive, UserAnalyze
<1>7. CASE UNCHANGED vars
  BY <1>1, <1>7 DEF vars
<1>. QED  BY <1>3, <1>4, <1>5, <1>6, <1>7, LeaseWorker DEF Next

LEMMA LeaseInit == Init => LeaseInv
BY NewTyped DEF Init, LeaseInv, OneActiveJob, Waits, Busy, Alive

LEMMA LeaseAlways ==
    ASSUME MayOverrun = FALSE
    PROVE  Spec => [](TypeOK /\ LeaseInv)
<1>1. TypeOK /\ LeaseInv /\ [Next]_vars => (TypeOK /\ LeaseInv)'
  BY TypeStep, LeaseStep
<1>2. Init => TypeOK /\ LeaseInv
  BY TypeInit, LeaseInit
<1>. QED  BY <1>1, <1>2, PTL DEF Spec

(* While workers keep to their leases, an account has one job at a time    *)
(* that waits or runs, over crashes, requeues and disconnects.             *)
THEOREM OneJobAtATime ==
    ASSUME MayOverrun = FALSE
    PROVE  Spec => []OneActiveJob
<1>1. LeaseInv => OneActiveJob
  BY DEF LeaseInv
<1>. QED  BY <1>1, LeaseAlways, PTL

-----------------------------------------------------------------------------
(* While leases are kept, one worker at most has a job that is still       *)
(* there, and it is the only one that writes the job and the credential:   *)
(* its copies never go stale.                                              *)
At(w) == Busy(w) /\ Alive(w)

CopyInv ==
    \A w \in Workers : At(w) =>
        /\ worker[w].copy = cols[worker[w].job]
        /\ worker[w].cred = cred

LEMMA OneAtWork ==
    ASSUME TypeOK, LeaseInv, NEW v \in Workers, NEW w \in Workers, At(v), At(w)
    PROVE  v = w
<1>1. worker[v].job \in Jobs /\ worker[w].job \in Jobs
  BY WorkerFields DEF At, Busy
<1>. QED  BY <1>1 DEF LeaseInv, OneActiveJob, At

(* A worker whose job is gone leaves the tables to the others.             *)
LEMMA GoneStep ==
    ASSUME NEW w \in Workers, WorkerStep(w) \/ Crash(w), Busy(w), ~Alive(w)
    PROVE  UNCHANGED <<cols, cred, base, jobs>>
BY DEF WorkerStep, Busy, Claim, ListHistory, ExpireHistory, ListInbox,
   StorePage, SavePosition, PickBatch, MarkBatch, Project, EndAnalysis,
   NextPage, Requeue, FinishJob, FailJob, Abandon, Crash, mail

(* Who is at work after the step of another worker was so before it, and   *)
(* then that other one was not.                                            *)
LEMMA OthersAtWork ==
    ASSUME TypeOK, LeaseInv, NEW w \in Workers, WorkerStep(w) \/ Crash(w),
           NEW v \in Workers, v # w, At(v)'
    PROVE  /\ At(v) /\ worker'[v] = worker[v]
           /\ Busy(w) /\ ~Alive(w)
<1>1. worker'[v] = worker[v] /\ Busy(v)
  BY WorkerMoves DEF At, Busy
<1>2. worker[v].job \in Jobs /\ (Busy(w) => worker[w].job \in Jobs)
  BY <1>1, WorkerFields DEF Busy
<1>3. jobs \in [Jobs -> JobRows]
  BY DEF TypeOK
<1>4. Busy(w) => worker[v].job # worker[w].job
  BY <1>1 DEF LeaseInv
<1>5. ASSUME NEW j \in Jobs, Takes(w, j), Alive(v) PROVE FALSE
  <2>1. Waits(j) /\ Waits(worker[v].job)
    BY <1>1, <1>5 DEF Takes, Claimable, LeaseInv, Waits
  <2>2. worker[v].job = j
    BY <1>2, <2>1 DEF LeaseInv, OneActiveJob, Waits
  <2>. QED  BY <1>1, <1>5, <2>2 DEF LeaseInv, Takes, Claimable
<1>6. Alive(v)
  <2>1. CASE Keeps(w)
    BY <1>1, <1>2, <1>3, <1>4, <2>1 DEF Keeps, Heartbeat, At, Alive
  <2>2. CASE Leaves(w)
    <3>1. jobs'[worker[v].job] = jobs[worker[v].job]
      BY <1>2, <1>3, <1>4, <2>2 DEF Leaves, Finish
    <3>. QED  BY <1>1, <3>1 DEF At, Alive
  <2>3. ASSUME NEW j \in Jobs, Takes(w, j) PROVE Alive(v)
    <3>1. worker[v].job = j \/ jobs'[worker[v].job] = jobs[worker[v].job]
      BY <1>2, <1>3, <2>3 DEF Takes
    <3>2. jobs[j].status # "deleted"
      BY <2>3 DEF Takes, Claimable
    <3>. QED  BY <1>1, <3>1, <3>2 DEF At, Alive
  <2>. QED  BY <2>1, <2>2, <2>3, WorkerMoves
<1>7. Busy(w)
  BY <1>5, <1>6, WorkerMoves DEF Keeps, Leaves
<1>. QED  BY <1>1, <1>6, <1>7, OneAtWork DEF At

LEMMA AtBefore ==
    ASSUME TypeOK, NEW w \in Workers, Keeps(w), At(w)'
    PROVE  At(w) /\ worker[w].job \in Jobs /\ worker'[w].job = worker[w].job
<1>1. worker[w].job \in Jobs /\ jobs \in [Jobs -> JobRows]
  BY WorkerFields DEF Keeps, Busy, TypeOK
<1>. QED  BY <1>1 DEF At, Busy, Alive, Keeps, Heartbeat

(* What a worker at work commits of its job and of the credential is what  *)
(* it has in hand.                                                         *)
LEMMA AtWrites ==
    ASSUME TypeOK, CopyInv, NEW w \in Workers, At(w)
    PROVE  /\ \A c \in Columns : WriteJob(w, c) =>
                 cols' = [cols EXCEPT ![worker[w].job] = c]
           /\ \A c \in Credentials : WriteCred(w, c) => cred' = c
<1>1. /\ worker[w].copy = cols[worker[w].job] /\ worker[w].cred = cred
      /\ worker[w].copy \in Columns /\ worker[w].cred \in Credentials
  BY WorkerFields DEF CopyInv
<1>. QED  BY <1>1, FlushSame DEF WriteJob, WriteCred

LEMMA CopyWorker ==
    ASSUME TypeOK, LeaseInv, CopyInv, NEW w \in Workers,
           WorkerStep(w) \/ Crash(w)
    PROVE  CopyInv'
<1>. DEFINE Fresh(v) == /\ worker'[v].copy = cols'[worker'[v].job]
                        /\ worker'[v].cred = cred'
<1>1. ASSUME NEW v \in Workers, v # w, At(v)' PROVE Fresh(v)
  BY <1>1, OthersAtWork, GoneStep DEF CopyInv
<1>2. ASSUME NEW j \in Jobs, Claim(w, j) PROVE Fresh(w)
  BY <1>2, ClaimEffect DEF Claim
<1>3. ASSUME At(w), worker[w].job \in Jobs, ~Return(w),
             \A j \in Jobs : ~Claim(w, j)
      PROVE  Fresh(w)
  <2>1. /\ worker[w].copy = cols[worker[w].job] /\ worker[w].cred = cred
        /\ cols \in [Jobs -> Columns]
    BY <1>3 DEF CopyInv, TypeOK
  <2>2. ASSUME worker'[w].copy \in Columns, WriteJob(w, worker'[w].copy),
               UNCHANGED cred, worker'[w].cred = worker[w].cred,
               worker'[w].job = worker[w].job
        PROVE  Fresh(w)
    BY <1>3, <2>1, <2>2, AtWrites
  <2>3. ASSUME SameRows(w), UNCHANGED <<cols, cred>>,
               worker'[w].job = worker[w].job
        PROVE  Fresh(w)
    BY <2>1, <2>3 DEF SameRows
  <2>4. CASE ListHistory(w) \/ ListInbox(w)
    BY <2>3, <2>4, ListEffect DEF ListHistory, ListInbox, Stays
  <2>5. CASE ExpireHistory(w)
    BY <1>3, <2>1, <2>5, ExpireEffect, AtWrites, NewTyped DEF Stays
  <2>6. CASE StorePage(w)
    BY <2>2, <2>6, StoreEffect DEF StorePage, Stays
  <2>7. CASE SavePosition(w)
    BY <2>2, <2>7, SaveEffect DEF SavePosition, Stays
  <2>8. CASE MarkBatch(w)
    BY <2>3, <2>8, MarkEffect DEF MarkBatch, Stays
  <2>12. CASE PickBatch(w)
    BY <2>3, <2>12, PickEffect DEF PickBatch, Stays
  <2>9. CASE Project(w)
    <3>1. UNCHANGED <<cols, cred>> /\ worker'[w].job = worker[w].job
      BY <2>9, ProjectEffect DEF Project, Stays
    <3>. QED  BY <2>1, <2>9, <3>1, ProjectEffect DEF SameRows
  <2>10. CASE EndAnalysis(w)
    BY <2>2, <2>10, EndEffect DEF EndAnalysis, Stays
  <2>11. CASE NextPage(w)
    BY <2>3, <2>11, NextEffect DEF NextPage, Stays
  <2>. QED  BY <1>3, <2>4, <2>5, <2>6, <2>7, <2>8, <2>9, <2>10, <2>11, <2>12
            DEF WorkerStep, Requeue, FinishJob, FailJob, Abandon, Crash
<1>4. ASSUME At(w)' PROVE Fresh(w)
  <2>1. ~Return(w)
    BY <1>4, ReturnEffect DEF At
  <2>2. CASE Keeps(w)
    <3>. SUFFICES ASSUME \A j \in Jobs : ~Claim(w, j) PROVE Fresh(w)
      BY <1>2
    <3>. QED  BY <1>3, <1>4, <2>1, <2>2, AtBefore
  <2>3. CASE \E j \in Jobs : Takes(w, j)
    BY <1>2, <2>1, <2>3 DEF Takes, Busy, WorkerStep, ListHistory,
       ExpireHistory, ListInbox, StorePage, SavePosition, PickBatch, MarkBatch,
       Project, EndAnalysis, NextPage, Requeue, FinishJob, FailJob, Abandon, Crash
  <2>. QED  BY <1>4, <2>2, <2>3, WorkerMoves DEF Leaves, At, Busy
<1>. QED  BY <1>1, <1>4 DEF CopyInv

LEMMA CopyStep ==
    ASSUME TypeOK, LeaseInv, CopyInv, [Next]_vars
    PROVE  CopyInv'
<1>1. \A w \in Workers : Busy(w) => worker[w].job \in Jobs
  BY WorkerFields DEF Busy
<1>2. ASSUME UNCHANGED <<worker, cols, cred>>,
             \A i \in Jobs : jobs[i].status = "deleted" =>
                               jobs'[i].status = "deleted"
      PROVE  CopyInv'
  BY <1>1, <1>2 DEF CopyInv, At, Busy, Alive
<1>3. ASSUME NEW j \in Jobs, Enqueue(j) PROVE CopyInv'
  <2>1. /\ \A w \in Workers : Busy(w) => ~Alive(w) /\ worker[w].job # j
        /\ UNCHANGED <<worker, cred>>
    BY <1>1, <1>3 DEF Enqueue, LeaseInv, Waits, Alive
  <2>2. \A i \in Jobs : i # j => jobs'[i] = jobs[i]
    BY <1>3 DEF Enqueue, TypeOK
  <2>. QED  BY <1>1, <2>1, <2>2 DEF CopyInv, At, Busy, Alive
<1>4. ASSUME NEW j \in Jobs, Lapse(j) PROVE CopyInv'
  <2>1. \A i \in Jobs : jobs'[i].status = jobs[i].status
    BY <1>4 DEF Lapse, TypeOK, JobRows
  <2>. QED  BY <1>2, <1>4, <2>1 DEF Lapse
<1>5. CASE Disconnect
  <2>1. \A w \in Workers : ~At(w)'
    BY <1>1, <1>5 DEF Disconnect, LeaseInv, At, Busy, Alive
  <2>. QED  BY <2>1 DEF CopyInv
<1>6. CASE Connect \/ Arrive \/ \E m \in Messages : UserAnalyze(m)
  BY <1>2, <1>6 DEF Connect, Arrive, UserAnalyze
<1>7. CASE UNCHANGED vars
  BY <1>2, <1>7 DEF vars
<1>. QED  BY <1>3, <1>4, <1>5, <1>6, <1>7, CopyWorker DEF Next

LEMMA CopyAlways ==
    ASSUME MayOverrun = FALSE
    PROVE  Spec => [](TypeOK /\ LeaseInv /\ CopyInv)
<1>1. Init => CopyInv
  BY NewTyped DEF Init, CopyInv, At, Busy
<1>2. TypeOK /\ LeaseInv /\ CopyInv /\ [Next]_vars => CopyInv'
  BY CopyStep
<1>. QED  BY <1>1, <1>2, LeaseAlways, PTL DEF Spec

-----------------------------------------------------------------------------
(* SucceededMeansAnalyzed.                                                 *)

AllRead(j) == \A m \in Messages : email[m].job = j => email[m].analyzed

(* What a worker has counted at the end of a page stays true until it ends *)
(* the job or lists again: nobody else stores emails under its job.        *)
ReadInv ==
    /\ SucceededMeansAnalyzed
    /\ \A w \in Workers :
         worker[w].stage = "paged" /\ ~worker[w].copy.unread =>
           AllRead(worker[w].job)

(* An email is stored once, by a StorePage, and analyzed once.             *)
LEMMA EmailSteps ==
    ASSUME TypeOK, [Next]_vars, NEW m \in Messages
    PROVE  /\ email[m].analyzed => email'[m].analyzed
           /\ \/ email'[m].job = email[m].job
              \/ /\ email[m].job = NoJob
                 /\ \E w \in Workers :
                      StorePage(w) /\ email'[m].job = worker[w].job
<1>0. email \in [Messages -> Emails]
  BY DEF TypeOK
<1>1. ASSUME UNCHANGED email PROVE
        email'[m].job = email[m].job /\ email'[m].analyzed = email[m].analyzed
  BY <1>1
<1>2. ASSUME NEW w \in Workers, StorePage(w)
      PROVE  /\ email'[m].analyzed = email[m].analyzed
             /\ \/ email'[m].job = email[m].job
                \/ email[m].job = NoJob /\ email'[m].job = worker[w].job
  <2>1. \/ email'[m] = email[m]
        \/ ~Stored(m) /\ email'[m] = [email[m] EXCEPT !.job = worker[w].job]
    BY <1>2, StoreEffect
  <2>. QED  BY <1>0, <2>1 DEF Emails, Stored
<1>3. ASSUME NEW w \in Workers, MarkBatch(w)
      PROVE  /\ email'[m].job = email[m].job
             /\ email'[m].analyzed = email[m].analyzed
  BY <1>0, <1>3 DEF MarkBatch, Emails
<1>4. ASSUME NEW k, email' = [email EXCEPT ![k].analyzed = TRUE]
      PROVE  /\ email'[m].job = email[m].job
             /\ email[m].analyzed => email'[m].analyzed
  BY <1>0, <1>4 DEF Emails
<1>5. ASSUME NEW w \in Workers, Project(w)
      PROVE  /\ email'[m].job = email[m].job
             /\ email[m].analyzed => email'[m].analyzed
  <2>1. UNCHANGED email \/ \E k : email' = [email EXCEPT ![k].analyzed = TRUE]
    BY <1>5 DEF Project
  <2>. QED  BY <1>1, <1>4, <2>1
<1>6. ASSUME NEW w \in Workers, WorkerStep(w),
             ~StorePage(w), ~MarkBatch(w), ~Project(w)
      PROVE  UNCHANGED email
  BY <1>6 DEF WorkerStep, Claim, ListHistory, ExpireHistory, ListInbox,
     SavePosition, PickBatch, EndAnalysis, NextPage, Requeue, FinishJob, FailJob, Abandon
<1>7. ASSUME NEW k \in Messages, UserAnalyze(k)
      PROVE  /\ email'[m].job = email[m].job
             /\ email[m].analyzed => email'[m].analyzed
  BY <1>4, <1>7 DEF UserAnalyze
<1>8. ASSUME \/ \E j \in Jobs : Enqueue(j) \/ Lapse(j)
             \/ Disconnect \/ Connect \/ Arrive
             \/ (\E w \in Workers : Crash(w)) \/ UNCHANGED vars
      PROVE  UNCHANGED email
  BY <1>8 DEF Enqueue, Lapse, Disconnect, Connect, Arrive, Crash, vars
<1>. QED  BY <1>1, <1>2, <1>3, <1>5, <1>6, <1>7, <1>8 DEF Next

(* Who is at the end of a page was there before or has just counted.       *)
LEMMA PagedSteps ==
    ASSUME TypeOK, [Next]_vars, NEW w \in Workers, worker'[w].stage = "paged"
    PROVE  worker'[w] = worker[w] \/ EndAnalysis(w)
<1>1. ASSUME NEW v \in Workers, WorkerStep(v) \/ Crash(v), v # w
      PROVE  worker'[w] = worker[w]
  BY <1>1, WorkerMoves
<1>2. ASSUME \E j \in Jobs : Claim(w, j) PROVE FALSE
  BY <1>2, ClaimEffect
<1>3. ASSUME Return(w) PROVE FALSE
  BY <1>3, ReturnEffect DEF Busy
<1>4. ASSUME NEW stage, Stays(w, stage) PROVE stage = "paged"
  BY <1>4 DEF Stays
<1>5. ASSUME WorkerStep(w) \/ Crash(w) PROVE EndAnalysis(w)
  <2>1. /\ ~ListHistory(w) /\ ~ListInbox(w) /\ ~ExpireHistory(w)
        /\ ~StorePage(w) /\ ~SavePosition(w)
    BY <1>4, ListEffect, ExpireEffect, StoreEffect, SaveEffect
  <2>2. ~PickBatch(w) /\ ~MarkBatch(w) /\ ~Project(w) /\ ~NextPage(w)
    BY <1>4, PickEffect, MarkEffect, ProjectEffect, NextEffect
  <2>. QED  BY <1>2, <1>3, <1>5, <2>1, <2>2
            DEF WorkerStep, Requeue, FinishJob, FailJob, Abandon, Crash
<1>6. ASSUME \/ \E j \in Jobs : Enqueue(j) \/ Lapse(j)
             \/ \E m \in Messages : UserAnalyze(m)
             \/ Disconnect \/ Connect \/ Arrive \/ UNCHANGED vars
      PROVE  UNCHANGED worker
  BY <1>6 DEF Enqueue, Lapse, UserAnalyze, Disconnect, Connect, Arrive, vars
<1>. QED  BY <1>1, <1>5, <1>6 DEF Next

(* A job becomes "succeeded" only by FinishJob.                            *)
LEMMA SucceededSteps ==
    ASSUME TypeOK, [Next]_vars, NEW j \in Jobs, jobs'[j].status = "succeeded"
    PROVE  \/ jobs[j].status = "succeeded"
           \/ \E w \in Workers : FinishJob(w) /\ worker[w].job = j
<1>0. jobs \in [Jobs -> JobRows]
  BY DEF TypeOK
<1>. SUFFICES ASSUME jobs[j].status # "succeeded"
              PROVE  \E w \in Workers : FinishJob(w) /\ worker[w].job = j
  OBVIOUS
<1>1. ASSUME NEW w \in Workers, WorkerStep(w) \/ Crash(w)
      PROVE  FinishJob(w) /\ worker[w].job = j
  <2>1. ~Keeps(w) /\ \A i \in Jobs : ~Takes(w, i)
    BY <1>0 DEF Keeps, Takes, Heartbeat, JobRows
  <2>2. Leaves(w)
    BY <1>1, <2>1, WorkerMoves
  <2>3. worker[w].job = j
    BY <1>0, <2>2 DEF Leaves, Finish
  <2>4. ~FailJob(w) /\ ~Requeue(w) /\ ~Abandon(w) /\ ~Crash(w)
    BY <1>0, <2>3 DEF FailJob, Finish, Requeue, Abandon, Crash, JobRows
  <2>5. ~(\E i \in Jobs : Claim(w, i)) /\ ~ExpireHistory(w) /\ ~ListInbox(w)
        /\ ~ListHistory(w) /\ ~StorePage(w) /\ ~SavePosition(w)
    BY <2>2, ClaimEffect, ListEffect, ExpireEffect, StoreEffect, SaveEffect
       DEF Leaves, Stays
  <2>6. /\ ~PickBatch(w) /\ ~MarkBatch(w) /\ ~Project(w)
        /\ ~EndAnalysis(w) /\ ~NextPage(w)
    BY <2>2, PickEffect, MarkEffect, ProjectEffect, EndEffect, NextEffect
       DEF Leaves, Stays
  <2>. QED  BY <1>1, <2>3, <2>4, <2>5, <2>6 DEF WorkerStep
<1>2. ASSUME \/ \E i \in Jobs : Enqueue(i) \/ Lapse(i)
             \/ \E m \in Messages : UserAnalyze(m)
             \/ Disconnect \/ Connect \/ Arrive \/ UNCHANGED vars
      PROVE  FALSE
  BY <1>0, <1>2 DEF Enqueue, Lapse, UserAnalyze, Disconnect, Connect, Arrive,
     vars, JobRows
<1>. QED  BY <1>1, <1>2 DEF Next

LEMMA ReadStep ==
    ASSUME TypeOK, LeaseInv, ReadInv, [Next]_vars
    PROVE  ReadInv'
<1>1. ASSUME NEW j \in Jobs, AllRead(j),
             \A w \in Workers : StorePage(w) => worker[w].job # j
      PROVE  AllRead(j)'
  <2>. SUFFICES ASSUME NEW m \in Messages, email'[m].job = j
                PROVE  email'[m].analyzed
    BY DEF AllRead
  <2>1. email[m].job = j
    BY <1>1, EmailSteps
  <2>. QED  BY <1>1, <2>1, EmailSteps DEF AllRead
<1>2. ASSUME NEW j \in Jobs, jobs'[j].status = "succeeded" PROVE AllRead(j)'
  <2>1. ASSUME jobs[j].status = "succeeded" PROVE AllRead(j)'
    <3>1. AllRead(j)
      BY <2>1 DEF ReadInv, SucceededMeansAnalyzed, AllRead
    <3>2. \A w \in Workers : StorePage(w) => worker[w].job # j
      BY <2>1 DEF LeaseInv, StorePage, Busy
    <3>. QED  BY <1>1, <3>1, <3>2
  <2>2. ASSUME NEW w \in Workers, FinishJob(w), worker[w].job = j
        PROVE  AllRead(j)'
    <3>1. jobs' = [jobs EXCEPT ![j] = [status |-> Outcome(worker[w].copy),
                                       active |-> FALSE, lease |-> "none"]]
      BY <2>2 DEF FinishJob, Finish
    <3>2. Outcome(worker[w].copy) = "succeeded"
      BY <1>2, <3>1 DEF TypeOK
    <3>3. AllRead(j)
      BY <2>2, <3>2 DEF Outcome, FinishJob, ReadInv
    <3>. QED  BY <2>2, <3>3 DEF AllRead, FinishJob
  <2>. QED  BY <1>2, <2>1, <2>2, SucceededSteps
<1>3. ASSUME NEW w \in Workers, worker'[w].stage = "paged",
             ~worker'[w].copy.unread
      PROVE  AllRead(worker[w].job)'
  <2>1. ASSUME EndAnalysis(w) PROVE AllRead(worker[w].job)'
    <3>. PICK j : j = worker[w].job
      OBVIOUS
    <3>1. /\ worker'[w].job = j
          /\ worker'[w].copy =
               [worker[w].copy EXCEPT
                  !.unread = \E m \in Messages :
                                 email[m].job = j /\ ~email[m].analyzed]
          /\ worker[w].copy \in Columns
      BY <2>1, EndEffect, WorkerFields DEF Stays
    <3>2. ~\E m \in Messages : email[m].job = j /\ ~email[m].analyzed
      BY <1>3, <3>1 DEF Columns
    <3>. QED  BY <2>1, <3>1, <3>2 DEF AllRead, EndAnalysis
  <2>2. ASSUME worker'[w] = worker[w] PROVE AllRead(worker[w].job)'
    <3>. PICK j : j = worker[w].job
      OBVIOUS
    <3>1. AllRead(j) /\ j \in Jobs /\ Busy(w)
      BY <1>3, <2>2, WorkerFields DEF ReadInv, Busy
    <3>2. ASSUME NEW v \in Workers, StorePage(v), worker[v].job = j
          PROVE  FALSE
      <4>1. v = w
        BY <3>1, <3>2 DEF LeaseInv, StorePage, Busy
      <4>2. worker'[v].stage = "stored"
        BY <3>2, StoreEffect DEF Stays
      <4>. QED  BY <1>3, <4>1, <4>2
    <3>3. AllRead(j)'
      BY <1>1, <3>1, <3>2
    <3>. QED  BY <2>2, <3>3 DEF AllRead
  <2>. QED  BY <1>3, <2>1, <2>2, PagedSteps
<1>. QED  BY <1>2, <1>3 DEF ReadInv, SucceededMeansAnalyzed, AllRead

(* While workers keep to their leases, a job that is shown as succeeded    *)
(* left no email unread, also not one that a killed run of it had stored.  *)
THEOREM SuccessIsRead ==
    ASSUME MayOverrun = FALSE
    PROVE  Spec => []SucceededMeansAnalyzed
<1>1. Init => ReadInv
  BY NewTyped DEF Init, ReadInv, SucceededMeansAnalyzed
<1>2. TypeOK /\ LeaseInv /\ ReadInv /\ [Next]_vars => ReadInv'
  BY ReadStep
<1>3. ReadInv => SucceededMeansAnalyzed
  BY DEF ReadInv
<1>. QED  BY <1>1, <1>2, <1>3, LeaseAlways, PTL DEF Spec

-----------------------------------------------------------------------------
(* AnalyzedOnce.                                                           *)

(* Exactly the emails that carry the attempt marker were sent to the model *)
(* by a worker, and those once.                                            *)
CallsInv ==
    \A m \in Messages : calls[m] = IF email[m].attempted THEN 1 ELSE 0

(* What a worker selected waits still when it comes to mark it: only the   *)
(* worker of a job marks the emails of the job.                            *)
PickedWaits(w) ==
    worker[w].stage = "marking" =>
        \A m \in worker[w].batch :
            email[m].job = worker[w].job /\ ~email[m].attempted

MarkInv == CallsInv /\ \A w \in Workers : PickedWaits(w)

(* A marker is set by MarkBatch, for the batch.                            *)
LEMMA AttemptSteps ==
    ASSUME TypeOK, [Next]_vars, NEW m \in Messages
    PROVE  \/ email'[m].attempted = email[m].attempted
           \/ \E w \in Workers : MarkBatch(w) /\ m \in worker[w].batch
<1>0. email \in [Messages -> Emails]
  BY DEF TypeOK
<1>. DEFINE Same == email'[m].attempted = email[m].attempted
<1>1. ASSUME UNCHANGED email PROVE Same
  BY <1>1
<1>2. ASSUME NEW w \in Workers, StorePage(w) PROVE Same
  <2>1. \/ email'[m] = email[m]
        \/ email'[m] = [email[m] EXCEPT !.job = worker[w].job]
    BY <1>2, StoreEffect
  <2>. QED  BY <1>0, <2>1 DEF Emails
<1>3. ASSUME NEW w \in Workers, MarkBatch(w), m \notin worker[w].batch
      PROVE  Same
  BY <1>3 DEF MarkBatch
<1>4. ASSUME NEW k, email' = [email EXCEPT ![k].analyzed = TRUE] PROVE Same
  BY <1>0, <1>4 DEF Emails
<1>5. ASSUME NEW w \in Workers, Project(w) PROVE Same
  <2>1. UNCHANGED email \/ \E k : email' = [email EXCEPT ![k].analyzed = TRUE]
    BY <1>5 DEF Project
  <2>. QED  BY <1>1, <1>4, <2>1
<1>6. ASSUME NEW w \in Workers, WorkerStep(w),
             ~StorePage(w), ~MarkBatch(w), ~Project(w)
      PROVE  UNCHANGED email
  BY <1>6 DEF WorkerStep, Claim, ListHistory, ExpireHistory, ListInbox,
     SavePosition, PickBatch, EndAnalysis, NextPage, Requeue, FinishJob,
     FailJob, Abandon
<1>7. ASSUME NEW k \in Messages, UserAnalyze(k) PROVE Same
  BY <1>4, <1>7 DEF UserAnalyze
<1>8. ASSUME \/ \E j \in Jobs : Enqueue(j) \/ Lapse(j)
             \/ Disconnect \/ Connect \/ Arrive
             \/ (\E w \in Workers : Crash(w)) \/ UNCHANGED vars
      PROVE  UNCHANGED email
  BY <1>8 DEF Enqueue, Lapse, Disconnect, Connect, Arrive, Crash, vars
<1>. HIDE DEF Same
<1>. QED  BY <1>1, <1>2, <1>3, <1>5, <1>6, <1>7, <1>8 DEF Next, Same

(* Who is about to mark was so before or has just selected.                *)
LEMMA MarkingSteps ==
    ASSUME TypeOK, [Next]_vars, NEW w \in Workers, worker'[w].stage = "marking"
    PROVE  worker'[w] = worker[w] \/ PickBatch(w)
<1>1. ASSUME NEW v \in Workers, WorkerStep(v) \/ Crash(v), v # w
      PROVE  worker'[w] = worker[w]
  BY <1>1, WorkerMoves
<1>2. ASSUME \E j \in Jobs : Claim(w, j) PROVE FALSE
  BY <1>2, ClaimEffect
<1>3. ASSUME Return(w) PROVE FALSE
  BY <1>3, ReturnEffect DEF Busy
<1>4. ASSUME NEW stage, Stays(w, stage) PROVE stage = "marking"
  BY <1>4 DEF Stays
<1>5. ASSUME WorkerStep(w) \/ Crash(w) PROVE PickBatch(w)
  <2>1. /\ ~ListHistory(w) /\ ~ListInbox(w) /\ ~ExpireHistory(w)
        /\ ~StorePage(w) /\ ~SavePosition(w)
    BY <1>4, ListEffect, ExpireEffect, StoreEffect, SaveEffect
  <2>2. ~MarkBatch(w) /\ ~Project(w) /\ ~EndAnalysis(w) /\ ~NextPage(w)
    BY <1>4, MarkEffect, ProjectEffect, EndEffect, NextEffect
  <2>. QED  BY <1>2, <1>3, <1>5, <2>1, <2>2
            DEF WorkerStep, Requeue, FinishJob, FailJob, Abandon, Crash
<1>6. ASSUME \/ \E j \in Jobs : Enqueue(j) \/ Lapse(j)
             \/ \E m \in Messages : UserAnalyze(m)
             \/ Disconnect \/ Connect \/ Arrive \/ UNCHANGED vars
      PROVE  UNCHANGED worker
  BY <1>6 DEF Enqueue, Lapse, UserAnalyze, Disconnect, Connect, Arrive, vars
<1>. QED  BY <1>1, <1>5, <1>6 DEF Next

LEMMA CallsStep ==
    ASSUME TypeOK, MarkInv, [Next]_vars
    PROVE  CallsInv'
<1>1. ASSUME NEW w \in Workers, MarkBatch(w) PROVE CallsInv'
  <2>1. \A m \in worker[w].batch : ~email[m].attempted
    BY <1>1 DEF MarkInv, PickedWaits, MarkBatch
  <2>2. /\ email' = [m \in Messages |->
                      IF m \in worker[w].batch
                      THEN [email[m] EXCEPT !.attempted = TRUE] ELSE email[m]]
        /\ calls' = [m \in Messages |-> IF m \in worker[w].batch
                                        THEN calls[m] + 1 ELSE calls[m]]
    BY <1>1 DEF MarkBatch
  <2>. QED  BY <2>1, <2>2 DEF MarkInv, CallsInv, TypeOK, Emails
<1>2. ASSUME \A w \in Workers : ~MarkBatch(w) PROVE CallsInv'
  <2>3. ASSUME NEW w \in Workers, WorkerStep(w) PROVE UNCHANGED calls
    <3>1. ~MarkBatch(w)
      BY <1>2
    <3>2. CASE \/ \E j \in Jobs : Claim(w, j)
               \/ ListHistory(w) \/ ExpireHistory(w) \/ ListInbox(w)
               \/ StorePage(w) \/ SavePosition(w) \/ PickBatch(w)
      BY <3>2 DEF Claim, ListHistory, ExpireHistory, ListInbox, StorePage,
         SavePosition, PickBatch, mail
    <3>3. CASE \/ Project(w) \/ EndAnalysis(w) \/ NextPage(w) \/ Requeue(w)
               \/ FinishJob(w) \/ FailJob(w) \/ Abandon(w)
      BY <3>3 DEF Project, EndAnalysis, NextPage, Requeue, FinishJob, FailJob,
         Abandon, mail
    <3>. QED  BY <2>3, <3>1, <3>2, <3>3 DEF WorkerStep
  <2>4. ASSUME \/ \E j \in Jobs : Enqueue(j) \/ Lapse(j)
               \/ \E m \in Messages : UserAnalyze(m)
               \/ Disconnect \/ Connect \/ Arrive
               \/ (\E w \in Workers : Crash(w)) \/ UNCHANGED vars
        PROVE  UNCHANGED calls
    BY <2>4 DEF Enqueue, Lapse, UserAnalyze, Disconnect, Connect, Arrive,
       Crash, mail, vars
  <2>1. UNCHANGED calls
    BY <2>3, <2>4 DEF Next
  <2>2. \A m \in Messages : email'[m].attempted = email[m].attempted
    BY <1>2, AttemptSteps
  <2>. QED  BY <2>1, <2>2 DEF MarkInv, CallsInv
<1>. QED  BY <1>1, <1>2

LEMMA PickedStep ==
    ASSUME TypeOK, LeaseInv, MarkInv, [Next]_vars, NEW w \in Workers
    PROVE  PickedWaits(w)'
<1>. SUFFICES ASSUME worker'[w].stage = "marking", NEW m \in worker'[w].batch
              PROVE  email'[m].job = worker'[w].job /\ ~email'[m].attempted
  BY DEF PickedWaits
<1>1. CASE PickBatch(w)
  <2>1. /\ worker'[w].job = worker[w].job /\ UNCHANGED email
        /\ m \in Smallest(Waiting(worker[w].job), BatchSize)
    BY <1>1, PickEffect DEF Stays, PickBatch
  <2>. QED  BY <2>1 DEF Smallest, Waiting
<1>2. CASE worker'[w] = worker[w]
  <2>1. /\ worker[w].stage = "marking" /\ m \in worker[w].batch
        /\ email[m].job = worker[w].job /\ ~email[m].attempted
    BY <1>2 DEF MarkInv, PickedWaits
  <2>2. Busy(w) /\ worker[w].job \in Jobs /\ m \in Messages
    BY <2>1, WorkerFields DEF Busy
  <2>3. email[m].job # NoJob
    BY <2>1, <2>2, SizesAssumption DEF Jobs, NoJob
  <2>4. email'[m].job = email[m].job
    BY <2>2, <2>3, EmailSteps
  <2>5. ASSUME NEW v \in Workers, MarkBatch(v), m \in worker[v].batch
        PROVE  FALSE
    <3>1. Busy(v) /\ email[m].job = worker[v].job
      BY <2>5 DEF MarkBatch, Busy, MarkInv, PickedWaits
    <3>2. v = w
      BY <2>1, <2>2, <3>1 DEF LeaseInv
    <3>3. worker'[w].stage = "calling"
      BY <2>5, <3>2, MarkEffect DEF Stays
    <3>. QED  BY <3>3
  <2>6. email'[m].attempted = email[m].attempted
    BY <2>2, <2>5, AttemptSteps
  <2>. QED  BY <1>2, <2>1, <2>4, <2>6
<1>. QED  BY <1>1, <1>2, MarkingSteps

(* While workers keep to their leases, none asks for an email again: the   *)
(* marker is committed before the call and never taken back by a crash or  *)
(* a later job, and what is marked was selected by the one worker of its   *)
(* job, between whose select and commit nobody else marks it.              *)
THEOREM AskedOnce ==
    ASSUME MayOverrun = FALSE
    PROVE  Spec => []AnalyzedOnce
<1>1. Init => MarkInv
  BY NewTyped DEF Init, MarkInv, CallsInv, PickedWaits
<1>2. TypeOK /\ LeaseInv /\ MarkInv /\ [Next]_vars => MarkInv'
  BY CallsStep, PickedStep DEF MarkInv
<1>3. MarkInv => AnalyzedOnce
  BY DEF MarkInv, CallsInv, AnalyzedOnce
<1>. QED  BY <1>1, <1>2, <1>3, LeaseAlways, PTL DEF Spec

-----------------------------------------------------------------------------
(* HistoryHasNoGap.                                                        *)

Imported(n) == \A m \in Messages \ Bulk : base < m /\ m <= n => Stored(m)

(* How far the listing of a worker has come.                               *)
Reach(x) == IF x.next = NoToken THEN x.at ELSE x.next

(* A history job that has no failure imported everything up to its token.  *)
JobReads(c) ==
    c.mode = "history" =>
        /\ c.start = cred.history /\ c.start # NoCursor
        /\ ~c.failures => Imported(c.token)

(* Its worker holds, at each stage, what it still owes of the page.        *)
PageReads(x) ==
    /\ x.stage # "listing" => x.at # NoCursor
    /\ x.stage = "fetching" /\ ~x.copy.failures =>
         \A m \in Messages \ Bulk :
            base < m /\ m <= Reach(x) => Stored(m) \/ m \in x.page
    /\ x.stage \in {"stored", "analyzing", "marking", "calling", "paged"}
         /\ ~x.copy.failures => Imported(Reach(x))
    /\ x.stage \in {"analyzing", "marking", "calling", "paged"} =>
         x.copy.token = x.next /\ x.copy.pending = x.at

GapInv ==
    /\ HistoryHasNoGap
    /\ \A j \in Jobs : Waits(j) => JobReads(cols[j])
    /\ \A w \in Workers :
         At(w) /\ worker[w].copy.mode = "history" => PageReads(worker[w])

(* The page of a listing leaves out none that is older than its last one.  *)
LEMMA SmallestUpTo ==
    ASSUME NEW S, S \subseteq Messages, NEW n \in Nat,
           NEW last \in Smallest(S, n), NEW m \in S, m <= last
    PROVE  m \in Smallest(S, n)
<1>. DEFINE Below(k) == {i \in S : i < k}
<1>1. last \in S /\ Cardinality(Below(last)) < n
  BY DEF Smallest
<1>2. Below(m) \subseteq Below(last) /\ Below(last) \subseteq Messages
  <2>1. S \subseteq Int /\ last \in Int /\ m \in Int
    BY <1>1, SizesAssumption DEF Messages
  <2>2. \A i \in Int : i < m => i < last
    BY <2>1
  <2>. QED  BY <2>1, <2>2
<1>3. /\ IsFiniteSet(Below(last))
      /\ Cardinality(Below(last)) \in Nat /\ Cardinality(Below(m)) \in Nat
  BY <1>2, MessagesFinite
<1>4. Cardinality(Below(m)) <= Cardinality(Below(last))
  <2>. HIDE DEF Below
  <2>. QED  BY <1>2, <1>3, FS_Subset
<1>5. Cardinality(Below(m)) < n
  <2>. HIDE DEF Below
  <2>. QED  BY <1>1, <1>3, <1>4
<1>. QED  BY <1>5 DEF Smallest

LEMMA StoredKept ==
    ASSUME TypeOK, [Next]_vars, NEW m \in Messages, Stored(m)
    PROVE  Stored(m)'
BY EmailSteps DEF Stored

(* Nothing the three parts rest on is taken back.                          *)
LEMMA GapKept ==
    ASSUME TypeOK, GapInv, [Next]_vars, UNCHANGED base,
           cred'.history = cred.history
    PROVE  /\ HistoryHasNoGap'
           /\ \A n : Imported(n) => Imported(n)'
           /\ \A c : JobReads(c) => JobReads(c)'
           /\ \A x : PageReads(x) => PageReads(x)'
<1>1. HistoryHasNoGap'
  BY StoredKept DEF GapInv, HistoryHasNoGap
<1>2. \A n : Imported(n) => Imported(n)'
  BY StoredKept DEF Imported
<1>3. \A c : JobReads(c) => JobReads(c)'
  BY <1>2 DEF JobReads
<1>4. ASSUME NEW x, PageReads(x) PROVE PageReads(x)'
  <2>1. ASSUME NEW m \in Messages \ Bulk, x.stage = "fetching",
               ~x.copy.failures, base < m, m <= Reach(x)
        PROVE  Stored(m)' \/ m \in x.page
    BY <1>4, <2>1, StoredKept DEF PageReads
  <2>. QED  BY <1>2, <1>4, <2>1 DEF PageReads, Reach
<1>. QED  BY <1>1, <1>2, <1>3, <1>4

LEMMA HistoryWorker ==
    ASSUME TypeOK, LeaseInv, CopyInv, GapInv, NEW w \in Workers, At(w),
           worker[w].copy.mode = "history"
    PROVE  /\ worker[w].copy.start = cred.history
           /\ worker[w].cred = cred
           /\ cred.history # NoCursor
           /\ ~worker[w].copy.failures => Imported(worker[w].copy.token)
           /\ PageReads(worker[w])
<1>1. worker[w].job \in Jobs /\ Waits(worker[w].job)
  BY WorkerFields DEF At, Busy, LeaseInv, Waits
<1>. QED  BY <1>1 DEF GapInv, CopyInv, JobReads

LEMMA GapListHistory ==
    ASSUME TypeOK, LeaseInv, CopyInv, GapInv, NEW w \in Workers, At(w),
           worker[w].copy.mode = "history", ListHistory(w)
    PROVE  PageReads(worker[w])'
<1>. DEFINE me    == worker[w]
            token == me.copy.token
            from  == IF me.copy.start # NoCursor THEN me.copy.start
                                                 ELSE me.cred.history
            new   == {m \in 1..arrived : m > from /\ m > token}
            page  == Smallest(new, PageSize)
<1>1. /\ from = cred.history
      /\ ~me.copy.failures => Imported(token)
      /\ from \in Int /\ token \in Int /\ arrived \in Nat /\ arrived <= MaxMessages
      /\ base \in Int
  <2>1. from = cred.history /\ (~me.copy.failures => Imported(token))
    BY HistoryWorker
  <2>2. cred.history \in Int /\ token \in Int /\ base \in Int
    BY WorkerFields DEF TypeOK, Credentials, Columns, Cursors, Tokens
  <2>. QED  BY <2>1, <2>2, SizesAssumption DEF TypeOK
<1>2. me.stage = "listing" /\ UNCHANGED <<email, base>>
  BY DEF ListHistory, mail
<1>3. new \subseteq Messages
  BY <1>1, SizesAssumption DEF Messages
<1>4. ASSUME NEW next, NEW to \in Int, Listed(w, page, next, arrived),
             to <= arrived, to = IF next = NoToken THEN arrived ELSE next,
             \A m \in new : m <= to => m \in page
      PROVE  PageReads(worker[w])'
  <2>1. /\ worker'[w].stage = "fetching" /\ worker'[w].copy = me.copy
        /\ worker'[w].page = {m \in page : ~Stored(m)}
        /\ worker'[w].next = next /\ worker'[w].at = arrived
    <3>. HIDE DEF page
    <3>1. /\ Stays(w, "fetching") /\ SameRows(w)
          /\ worker'[w].page = {m \in page : ~Stored(m)}
          /\ worker'[w].next = next /\ worker'[w].at = arrived
      BY <1>2, <1>4, ListedEffect
    <3>. QED  BY <3>1 DEF Stays, SameRows
  <2>2. Reach(worker'[w]) = to
    BY <1>4, <2>1 DEF Reach
  <2>3. ASSUME NEW m \in Messages \ Bulk, base < m, m <= to, ~me.copy.failures
        PROVE  Stored(m) \/ m \in worker'[w].page
    <3>1. CASE m <= from
      BY <1>1, <2>3, <3>1 DEF GapInv, HistoryHasNoGap
    <3>2. CASE m <= token
      BY <1>1, <2>3, <3>2 DEF Imported
    <3>3. CASE m > from /\ m > token
      <4>1. m \in 1..arrived
        BY <1>1, <1>4, <2>3 DEF Messages
      <4>2. m \in new
        BY <3>3, <4>1
      <4>. QED  BY <1>4, <2>1, <2>3, <4>2
    <3>. QED  BY <1>1, <3>1, <3>2, <3>3 DEF Messages
  <2>4. arrived # NoCursor
    BY <1>1 DEF NoCursor
  <2>. HIDE DEF me, page
  <2>. QED  BY <1>2, <2>1, <2>2, <2>3, <2>4 DEF PageReads, Stored, Reach
<1>5. CASE page = new /\ Listed(w, page, NoToken, MailboxCursor)
  BY <1>1, <1>4, <1>5 DEF MailboxCursor
<1>6. ASSUME NEW last \in page, Listed(w, page, last, MailboxCursor)
      PROVE  PageReads(worker[w])'
  <2>1. last \in new
    BY DEF Smallest
  <2>2. last \in Int /\ last <= arrived /\ last # NoToken
    BY <1>1, <2>1 DEF NoToken
  <2>3. \A m \in new : m <= last => m \in page
    <3>. HIDE DEF new
    <3>. QED  BY <1>3, SizesAssumption, SmallestUpTo
  <2>. HIDE DEF page, new
  <2>. QED  BY <1>4, <1>6, <2>2, <2>3 DEF MailboxCursor
<1>7. \/ page = new /\ Listed(w, page, NoToken, MailboxCursor)
      \/ \E last \in page : Listed(w, page, last, MailboxCursor)
  BY DEF ListHistory
<1>. HIDE DEF page, new
<1>. QED  BY <1>5, <1>6, <1>7

(* What a worker at work leaves in its copy of the job.                    *)
LEMMA JobReadsKept ==
    ASSUME TypeOK, LeaseInv, CopyInv, GapInv, [Next]_vars,
           UNCHANGED <<base, cred>>, NEW w \in Workers, At(w), NEW c,
           c.mode = worker[w].copy.mode, c.start = worker[w].copy.start,
           worker[w].copy.failures => c.failures,
           \/ c.token = worker[w].copy.token
           \/ ~worker[w].copy.failures => Imported(c.token)
    PROVE  JobReads(c)'
<1>1. CASE c.mode = "history"
  <2>1. /\ c.start = cred.history /\ c.start # NoCursor
        /\ ~c.failures => Imported(c.token)
    BY <1>1, HistoryWorker
  <2>2. JobReads(c)
    BY <2>1 DEF JobReads
  <2>. QED  BY <2>2, GapKept
<1>. QED  BY <1>1 DEF JobReads

LEMMA GapStorePage ==
    ASSUME TypeOK, LeaseInv, CopyInv, GapInv, [Next]_vars, NEW w \in Workers,
           At(w), worker[w].copy.mode = "history", StorePage(w)
    PROVE  /\ PageReads(worker[w])'
           /\ worker'[w].copy.mode = "history"
           /\ worker'[w].copy.start = worker[w].copy.start
           /\ worker'[w].copy.token = worker[w].copy.token
           /\ worker[w].copy.failures => worker'[w].copy.failures
<1>1. /\ worker[w].stage = "fetching" /\ UNCHANGED <<base, cred>>
      /\ PageReads(worker[w]) /\ worker[w].copy \in Columns
      /\ worker[w].job \in Jobs /\ NoJob \notin Jobs
      /\ email \in [Messages -> Emails]
  BY HistoryWorker, WorkerFields, SizesAssumption
     DEF StorePage, mail, At, Busy, TypeOK, Jobs, NoJob
<1>2. PICK bad \in SUBSET worker[w].page :
        /\ worker'[w].copy =
             [worker[w].copy EXCEPT !.failures = @ \/ bad # {}]
        /\ email' =
             [m \in Messages |->
                IF m \in worker[w].page \ (bad \cup Bulk) /\ ~Stored(m)
                THEN [email[m] EXCEPT !.job = worker[w].job] ELSE email[m]]
  BY StoreEffect
<1>3. /\ worker'[w].copy.mode = "history"
      /\ worker'[w].copy.start = worker[w].copy.start
      /\ worker'[w].copy.token = worker[w].copy.token
      /\ worker'[w].copy.failures <=> worker[w].copy.failures \/ bad # {}
  BY <1>1, <1>2 DEF Columns
<1>4. /\ worker'[w].stage = "stored" /\ worker'[w].next = worker[w].next
      /\ worker'[w].at = worker[w].at
  BY StoreEffect DEF Stays, SamePage
<1>5. ASSUME NEW m \in Messages \ Bulk, m \in worker[w].page, bad = {}
      PROVE  Stored(m)'
  <2>1. CASE Stored(m)
    BY <2>1, StoredKept
  <2>2. CASE ~Stored(m)
    <3>1. email'[m] = [email[m] EXCEPT !.job = worker[w].job]
      BY <1>2, <1>5, <2>2
    <3>. QED  BY <1>1, <3>1 DEF Stored, Emails
  <2>. QED  BY <2>1, <2>2
<1>6. ASSUME ~worker'[w].copy.failures, NEW m \in Messages \ Bulk,
             base < m, m <= Reach(worker[w])
      PROVE  Stored(m)'
  <2>1. bad = {} /\ ~worker[w].copy.failures
    BY <1>3, <1>6
  <2>2. Stored(m) \/ m \in worker[w].page
    BY <1>1, <1>6, <2>1 DEF PageReads
  <2>. QED  BY <1>5, <2>1, <2>2, StoredKept
<1>7. PageReads(worker[w])'
  BY <1>1, <1>3, <1>4, <1>6 DEF PageReads, Reach, Imported
<1>. QED  BY <1>3, <1>7

(* A listed page of history, once it is stored, is all there is up to its  *)
(* token; the worker then only carries that on.                            *)
LEMMA GapCarried ==
    ASSUME TypeOK, LeaseInv, CopyInv, GapInv, [Next]_vars,
           UNCHANGED <<base, cred>>, NEW w \in Workers,
           At(w), worker[w].copy.mode = "history",
           worker[w].stage \in {"stored", "analyzing", "marking", "calling"},
           worker'[w].stage \in {"analyzing", "marking", "calling", "paged"},
           SamePage(w), worker[w].copy.failures <=> worker'[w].copy.failures,
           /\ worker'[w].copy.token = worker[w].next
           /\ worker'[w].copy.pending = worker[w].at
    PROVE  PageReads(worker[w])'
<1>1. /\ PageReads(worker[w])
      /\ Reach(worker[w])' = Reach(worker[w])
  BY HistoryWorker DEF SamePage, Reach
<1>2. ~worker'[w].copy.failures => Imported(Reach(worker[w]))
  BY <1>1 DEF PageReads
<1>3. \A n : Imported(n) => Imported(n)'
  BY GapKept
<1>4. PICK r : r = Reach(worker[w])
  OBVIOUS
<1>5. ~worker'[w].copy.failures => Imported(r)'
  BY <1>2, <1>3, <1>4
<1>6. ~worker'[w].copy.failures => Imported(Reach(worker[w]))'
  BY <1>1, <1>4, <1>5 DEF Imported
<1>. QED  BY <1>1, <1>6 DEF PageReads, SamePage

(* A step of the worker within a page of its job.                          *)
Within(w) ==
    \/ ListHistory(w) \/ ListInbox(w) \/ StorePage(w) \/ SavePosition(w)
    \/ PickBatch(w) \/ MarkBatch(w) \/ Project(w) \/ EndAnalysis(w)
    \/ NextPage(w)

LEMMA WithinFrame ==
    ASSUME TypeOK, CopyInv, NEW w \in Workers, At(w), Within(w)
    PROVE  /\ UNCHANGED <<base, cred>>
           /\ worker'[w].job = worker[w].job
           /\ worker'[w].stage # "idle"
           /\ \A j \in Jobs : j # worker[w].job => cols'[j] = cols[j]
<1>1. UNCHANGED <<base, cred>>
  BY DEF Within, ListHistory, ListInbox, StorePage, SavePosition, PickBatch,
     MarkBatch, Project, EndAnalysis, NextPage, mail
<1>2. worker'[w].job = worker[w].job /\ worker'[w].stage # "idle"
  BY ListEffect, StoreEffect, SaveEffect, PickEffect, MarkEffect,
     ProjectEffect, EndEffect, NextEffect DEF Within, Stays
<1>3. CASE \E c : WriteJob(w, c)
  BY <1>1, <1>2, <1>3 DEF WriteJob, TypeOK
<1>4. CASE UNCHANGED cols
  BY <1>1, <1>2, <1>4
<1>5. UNCHANGED cols \/ \E c : WriteJob(w, c)
  BY StoreEffect, SaveEffect, EndEffect
     DEF Within, ListHistory, ListInbox, PickBatch, MarkBatch, Project,
         NextPage
<1>. QED  BY <1>3, <1>4, <1>5

LEMMA GapWithin ==
    ASSUME TypeOK, LeaseInv, CopyInv, GapInv, [Next]_vars, NEW w \in Workers,
           At(w), Within(w)
    PROVE  /\ JobReads(worker[w].copy)'
           /\ worker'[w].copy.mode = "history" => PageReads(worker[w])'
<1>. DEFINE me == worker[w]
<1>1. /\ UNCHANGED <<base, cred>> /\ me.copy \in Columns
      /\ me.copy = cols[me.job] /\ me.cred = cred
      /\ me.next \in Tokens /\ me.at \in Cursors
  BY WithinFrame, WorkerFields DEF CopyInv
<1>2. PICK c : c = worker'[w].copy
  OBVIOUS
<1>3. ASSUME c = me.copy PROVE JobReads(me.copy)'
  BY <1>1, <1>2, <1>3, JobReadsKept DEF JobReads
<1>4. ASSUME c = me.copy, me.copy.mode = "history", SamePage(w),
             me.stage \in {"analyzing", "marking", "calling"},
             worker'[w].stage \in {"analyzing", "marking", "calling", "paged"}
      PROVE  PageReads(me)'
  <2>1. me.copy.token = me.next /\ me.copy.pending = me.at
    BY <1>4, HistoryWorker DEF PageReads
  <2>. QED  BY <1>1, <1>2, <1>4, <2>1, GapCarried
<1>5. CASE ListHistory(w)
  <2>1. c = me.copy
    BY <1>2, <1>5, ListEffect DEF SameRows
  <2>. QED  BY <1>2, <1>3, <1>5, <2>1, GapListHistory
<1>6. CASE ListInbox(w)
  <2>1. c = me.copy
    BY <1>2, <1>6, ListEffect DEF SameRows
  <2>2. me.copy.mode # "history"
    BY <1>6, HistoryWorker DEF ListInbox, ReadsHistory
  <2>. QED  BY <1>2, <1>3, <2>1, <2>2
<1>7. CASE StorePage(w)
  <2>1. PICK bad : c = [me.copy EXCEPT !.failures = @ \/ bad # {}]
    BY <1>2, <1>7, StoreEffect
  <2>2. c.mode = me.copy.mode
    BY <1>1, <2>1 DEF Columns
  <2>3. CASE me.copy.mode = "history"
    BY <1>1, <1>2, <1>7, <2>3, GapStorePage, JobReadsKept DEF JobReads
  <2>4. CASE me.copy.mode # "history"
    BY <1>2, <2>2, <2>4 DEF JobReads
  <2>. QED  BY <2>3, <2>4
<1>8. CASE SavePosition(w)
  <2>1. c = [me.copy EXCEPT !.token = me.next,
                            !.pending = IF me.at # NoCursor THEN me.at ELSE @]
    BY <1>2, <1>8, SaveEffect
  <2>2. /\ c.mode = me.copy.mode /\ c.start = me.copy.start
        /\ c.failures = me.copy.failures /\ c.token = me.next
        /\ me.at # NoCursor => c.pending = me.at
    BY <1>1, <2>1 DEF Columns
  <2>3. me.stage = "stored" /\ worker'[w].stage = "analyzing" /\ SamePage(w)
    BY <1>8, SaveEffect DEF SavePosition, Stays
  <2>4. CASE me.copy.mode = "history"
    <3>1. PageReads(me)
      BY <2>4, HistoryWorker
    <3>2. me.at # NoCursor /\ (~me.copy.failures => Imported(Reach(me)))
      BY <2>3, <3>1 DEF PageReads
    <3>3. ~me.copy.failures => Imported(me.next)
      <4>1. CASE me.next = NoToken
        <5>1. \A m \in Messages : ~(m <= me.next)
          BY <4>1, SizesAssumption DEF Messages, NoToken
        <5>. QED  BY <5>1 DEF Imported
      <4>2. CASE me.next # NoToken
        BY <3>2, <4>2 DEF Reach
      <4>. QED  BY <4>1, <4>2
    <3>4. PageReads(me)'
      BY <1>1, <1>2, <2>2, <2>3, <2>4, <3>2, GapCarried
    <3>5. JobReads(c)'
      BY <1>1, <2>2, <3>3, JobReadsKept
    <3>. QED  BY <1>2, <3>4, <3>5 DEF JobReads
  <2>5. CASE me.copy.mode # "history"
    BY <1>2, <2>2, <2>5 DEF JobReads
  <2>. QED  BY <2>4, <2>5
<1>9. CASE MarkBatch(w)
  <2>1. /\ c = me.copy /\ SamePage(w) /\ me.stage = "marking"
        /\ worker'[w].stage = "calling"
    BY <1>2, <1>9, MarkEffect DEF MarkBatch, SameRows, Stays
  <2>. QED  BY <1>2, <1>3, <1>4, <2>1
<1>13. CASE PickBatch(w)
  <2>1. /\ c = me.copy /\ SamePage(w) /\ me.stage = "analyzing"
        /\ worker'[w].stage = "marking"
    BY <1>2, <1>13, PickEffect DEF PickBatch, SameRows, Stays
  <2>. QED  BY <1>2, <1>3, <1>4, <2>1
<1>10. CASE Project(w)
  <2>1. /\ c = me.copy /\ SamePage(w) /\ me.stage = "calling"
        /\ worker'[w].stage \in {"analyzing", "calling"}
    BY <1>1, <1>2, <1>10, ProjectEffect DEF Project, SameRows, Stays
  <2>. QED  BY <1>2, <1>3, <1>4, <2>1
<1>11. CASE EndAnalysis(w)
  <2>1. PICK unread : c = [me.copy EXCEPT !.unread = unread]
    BY <1>2, <1>11, EndEffect
  <2>2. /\ c.mode = me.copy.mode /\ c.start = me.copy.start
        /\ c.failures = me.copy.failures /\ c.token = me.copy.token
        /\ c.pending = me.copy.pending
    BY <1>1, <2>1 DEF Columns
  <2>3. SamePage(w) /\ me.stage = "analyzing" /\ worker'[w].stage = "paged"
    BY <1>11, EndEffect DEF EndAnalysis, Stays
  <2>4. ASSUME me.copy.mode = "history" PROVE PageReads(me)'
    <3>1. me.copy.token = me.next /\ me.copy.pending = me.at
      BY <2>3, <2>4, HistoryWorker DEF PageReads
    <3>. QED  BY <1>1, <1>2, <2>2, <2>3, <2>4, <3>1, GapCarried
  <2>5. JobReads(c)'
    BY <1>1, <2>2, JobReadsKept
  <2>. QED  BY <1>2, <2>2, <2>4, <2>5 DEF JobReads
<1>12. CASE NextPage(w)
  <2>1. c = me.copy /\ worker'[w].stage = "listing"
    BY <1>2, <1>12, NextEffect DEF SameRows, Stays
  <2>. QED  BY <1>3, <2>1 DEF PageReads
<1>. QED  BY <1>5, <1>6, <1>7, <1>8, <1>9, <1>10, <1>11, <1>12, <1>13 DEF Within

(* A job that waits or runs after a step of a worker did so before it.     *)
LEMMA WaitsBefore ==
    ASSUME TypeOK, LeaseInv, NEW w \in Workers, WorkerStep(w) \/ Crash(w),
           NEW j \in Jobs, Waits(j)'
    PROVE  Waits(j)
<1>1. jobs \in [Jobs -> JobRows] /\ (Busy(w) => worker[w].job \in Jobs)
  BY WorkerFields DEF TypeOK, Busy
<1>2. CASE Keeps(w)
  BY <1>1, <1>2 DEF Keeps, Heartbeat, Waits, JobRows
<1>3. ASSUME NEW i \in Jobs, Takes(w, i) PROVE Waits(j)
  BY <1>1, <1>3 DEF Takes, Claimable, Waits, JobRows
<1>4. CASE Leaves(w)
  <2>1. ASSUME NEW s \in Ended, Finish(worker[w].job, s) PROVE Waits(j)
    BY <1>1, <1>4, <2>1 DEF Leaves, Finish, Waits, JobRows, Ended
  <2>2. CASE UNCHANGED jobs
    BY <2>2 DEF Waits
  <2>3. CASE /\ Alive(w)
             /\ jobs' = [jobs EXCEPT ![worker[w].job].status = "queued",
                                     ![worker[w].job].lease = "none"]
    BY <1>1, <1>4, <2>3 DEF Leaves, LeaseInv, Waits, JobRows
  <2>. QED  BY <1>4, <2>1, <2>2, <2>3 DEF Leaves
<1>. QED  BY <1>2, <1>3, <1>4, WorkerMoves

(* A step that moves neither the cursor nor the base disturbs at most the  *)
(* job of its worker and what this worker holds of it.                     *)
LEMMA GapQuiet ==
    ASSUME TypeOK, LeaseInv, CopyInv, GapInv, [Next]_vars, NEW w \in Workers,
           WorkerStep(w) \/ Crash(w),
           UNCHANGED base, cred'.history = cred.history,
           \A j \in Jobs : Waits(j)' /\ cols'[j] # cols[j] => JobReads(cols[j])',
           At(w)' /\ worker'[w].copy.mode = "history" => PageReads(worker[w])'
    PROVE  GapInv'
<1>1. ASSUME NEW j \in Jobs, Waits(j)', cols'[j] = cols[j]
      PROVE  JobReads(cols[j])'
  <2>1. PICK c : c = cols[j]
    OBVIOUS
  <2>2. JobReads(c)
    BY <1>1, <2>1, WaitsBefore DEF GapInv
  <2>3. JobReads(c)'
    BY <2>2, GapKept
  <2>. QED  BY <1>1, <2>1, <2>3 DEF JobReads
<1>2. ASSUME NEW v \in Workers, v # w, At(v)',
             worker'[v].copy.mode = "history"
      PROVE  PageReads(worker[v])'
  <2>1. At(v) /\ worker'[v] = worker[v]
    BY <1>2, OthersAtWork
  <2>2. PICK x : x = worker[v]
    OBVIOUS
  <2>3. PageReads(x)
    BY <1>2, <2>1, <2>2 DEF GapInv
  <2>4. PageReads(x)'
    BY <2>3, GapKept
  <2>. QED  BY <2>1, <2>2, <2>4 DEF PageReads, Reach
<1>3. HistoryHasNoGap'
  BY GapKept
<1>. QED  BY <1>1, <1>2, <1>3 DEF GapInv

(* The end of a job: the cursor takes over what the last page reached, or  *)
(* the number of the mailbox, from which on the base counts.               *)
LEMMA GapFinish ==
    ASSUME TypeOK, LeaseInv, CopyInv, GapInv, [Next]_vars, NEW w \in Workers,
           FinishJob(w)
    PROVE  GapInv'
<1>. DEFINE me == worker[w]
<1>1. /\ me.stage = "paged" /\ At(w) /\ me.next = NoToken /\ me.job \in Jobs
      /\ me.copy \in Columns /\ me.cred \in Credentials /\ me.cred = cred
      /\ me.copy = cols[me.job] /\ UNCHANGED <<cols, email>>
      /\ arrived \in Cursors /\ NoToken \in Tokens
  <2>1. arrived \in Cursors /\ NoToken \in Tokens
    BY SizesAssumption DEF TypeOK, Cursors, Tokens, NoToken
  <2>. QED  BY <2>1, WorkerFields DEF FinishJob, At, Busy, CopyInv
<1>2. \A j \in Jobs : ~Waits(j)'
  <2>1. jobs \in [Jobs -> JobRows] /\ Outcome(me.copy) \in Ended
    BY DEF TypeOK, Outcome, Ended
  <2>2. PICK j \in Jobs : j = me.job
    BY <1>1
  <2>3. jobs' = [jobs EXCEPT ![j] =
                   [status |-> Outcome(me.copy), active |-> FALSE,
                    lease |-> "none"]]
    BY <2>2 DEF FinishJob, Finish
  <2>4. jobs'[j].status = Outcome(me.copy)
    BY <2>1, <2>3
  <2>5. ~Waits(j)' /\ Waits(j)
    BY <1>1, <2>1, <2>2, <2>4 DEF Waits, Ended, LeaseInv, At
  <2>6. \A i \in Jobs : Waits(i)' => Waits(i)
    BY WaitsBefore DEF WorkerStep
  <2>7. \A i \in Jobs : Waits(i) => i = j
    BY <2>5 DEF LeaseInv, OneActiveJob, Waits
  <2>. QED  BY <2>5, <2>6, <2>7
<1>3. \A v \in Workers : ~At(v)'
  <2>1. ~At(w)'
    BY <1>1, ReturnEffect DEF FinishJob, At
  <2>. QED  BY <1>1, <2>1, OthersAtWork DEF At, WorkerStep
<1>4. HistoryHasNoGap'
  <2>1. CASE me.copy.mode = "bootstrap" /\ Clean(me.copy)
    <3>1. cred' = [history |-> arrived, resume |-> NoToken]
      <4>1. [history |-> arrived, resume |-> NoToken] \in Credentials
        BY <1>1 DEF Credentials
      <4>. QED  BY <1>1, <2>1, <4>1, AtWrites DEF FinishJob, MailboxCursor
    <3>2. base' = arrived
      BY <2>1 DEF FinishJob, MailboxCursor
    <3>. QED  BY <3>1, <3>2, SizesAssumption
              DEF HistoryHasNoGap, TypeOK, Messages
  <2>2. CASE me.copy.mode = "history" /\ Clean(me.copy)
    <3>1. /\ ~me.copy.failures /\ me.at # NoCursor
          /\ me.copy.pending = me.at /\ Imported(me.at)
      BY <1>1, <2>2, HistoryWorker DEF Clean, PageReads, Reach
    <3>2. [me.cred EXCEPT !.history = me.at] \in Credentials
      BY <1>1, WorkerFields DEF Credentials
    <3>3. cred' = [me.cred EXCEPT !.history = me.at] /\ UNCHANGED base
      BY <1>1, <2>2, <3>1, <3>2, AtWrites DEF FinishJob
    <3>4. cred'.history = me.at
      BY <1>1, <3>3 DEF Credentials
    <3>. QED  BY <1>1, <3>1, <3>3, <3>4 DEF HistoryHasNoGap, Imported, Stored
  <2>3. CASE ~Clean(me.copy)
    BY <1>1, <2>3 DEF FinishJob, HistoryHasNoGap, GapInv, Stored
  <2>. QED  BY <2>1, <2>2, <2>3 DEF FinishJob
<1>. QED  BY <1>2, <1>3, <1>4 DEF GapInv

(* The cursor is too old for Gmail: it goes, and the job starts over.      *)
LEMMA GapExpire ==
    ASSUME TypeOK, LeaseInv, CopyInv, GapInv, [Next]_vars, NEW w \in Workers,
           At(w), ExpireHistory(w)
    PROVE  GapInv'
<1>1. PICK c \in Columns : /\ WriteJob(w, c) /\ worker'[w].copy = c
                           /\ c.mode = "bootstrap"
  BY ExpireEffect
<1>2. cred' = NewCredential
  BY ExpireEffect, AtWrites, NewTyped
<1>3. PICK j \in Jobs : j = worker[w].job
  BY WorkerFields DEF At, Busy
<1>4. cols'[j].mode = "bootstrap"
  BY <1>1, <1>3, AtWrites DEF TypeOK
<1>5. \A i \in Jobs : Waits(i)' => i = j
  <2>1. Waits(j)
    BY <1>3 DEF LeaseInv, Waits, At
  <2>. QED  BY <2>1, WaitsBefore DEF LeaseInv, OneActiveJob, Waits, WorkerStep
<1>6. \A v \in Workers : At(v)' => v = w
  BY OthersAtWork DEF At, WorkerStep
<1>7. HistoryHasNoGap'
  <2>1. cred'.history = NoCursor
    BY <1>2 DEF NewCredential
  <2>. QED  BY <2>1, SizesAssumption DEF HistoryHasNoGap, NoCursor, Messages
<1>. QED  BY <1>1, <1>4, <1>5, <1>6, <1>7 DEF GapInv, JobReads

LEMMA GapWorker ==
    ASSUME TypeOK, LeaseInv, CopyInv, GapInv, [Next]_vars, NEW w \in Workers,
           WorkerStep(w) \/ Crash(w)
    PROVE  GapInv'
<1>1. CASE Busy(w) /\ ~Alive(w)
  <2>1. UNCHANGED <<cols, cred, base, jobs>>
    BY <1>1, GoneStep
  <2>2. ~At(w)'
    BY <1>1, <2>1, WorkerMoves
       DEF Keeps, Leaves, Takes, At, Busy, Alive
  <2>. QED  BY <2>1, <2>2, GapQuiet
<1>2. ASSUME NEW j \in Jobs, Claim(w, j) PROVE GapInv'
  <2>1. PageReads(worker[w])'
    BY <1>2, ClaimEffect DEF PageReads
  <2>. QED  BY <1>2, <2>1, GapQuiet DEF Claim, mail
<1>3. CASE At(w) /\ Within(w)
  <2>1. UNCHANGED <<base, cred>>
    BY <1>3, WithinFrame
  <2>2. ASSUME NEW j \in Jobs, Waits(j)', cols'[j] # cols[j]
        PROVE  JobReads(cols[j])'
    <3>1. j = worker[w].job /\ worker'[w].job = j /\ worker'[w].stage # "idle"
      BY <1>3, <2>2, WithinFrame
    <3>2. At(w)'
      BY <2>2, <3>1 DEF At, Busy, Alive, Waits
    <3>3. worker'[w].copy = cols'[j]
      BY <3>1, <3>2, CopyWorker DEF CopyInv
    <3>4. JobReads(worker[w].copy)'
      BY <1>3, GapWithin
    <3>. QED  BY <3>3, <3>4 DEF JobReads
  <2>3. worker'[w].copy.mode = "history" => PageReads(worker[w])'
    BY <1>3, GapWithin
  <2>. QED  BY <2>1, <2>2, <2>3, GapQuiet
<1>4. CASE At(w) /\ ExpireHistory(w)
  BY <1>4, GapExpire
<1>5. CASE At(w) /\ Requeue(w)
  <2>1. cred' = [worker[w].cred EXCEPT !.resume = worker[w].next]
    <3>1. [worker[w].cred EXCEPT !.resume = worker[w].next] \in Credentials
      BY WorkerFields DEF Credentials
    <3>. QED  BY <1>5, <3>1, AtWrites DEF Requeue
  <2>2. cred'.history = cred.history
    BY <1>5, <2>1, WorkerFields DEF CopyInv, Credentials
  <2>3. ~At(w)'
    BY <1>5, ReturnEffect DEF Requeue, At
  <2>. QED  BY <1>5, <2>2, <2>3, GapQuiet DEF Requeue, mail
<1>6. CASE FailJob(w) \/ Abandon(w) \/ Crash(w)
  <2>1. ~At(w)' /\ UNCHANGED <<base, cred, cols>>
    BY <1>6, ReturnEffect DEF FailJob, Abandon, Crash, At, mail
  <2>. QED  BY <2>1, GapQuiet
<1>7. Busy(w) \/ \E j \in Jobs : Claim(w, j)
  BY DEF WorkerStep, Busy, ListHistory, ExpireHistory, ListInbox, StorePage,
     SavePosition, PickBatch, MarkBatch, Project, EndAnalysis, NextPage,
     Requeue, FinishJob, FailJob, Abandon, Crash
<1>. QED  BY <1>1, <1>2, <1>3, <1>4, <1>5, <1>6, <1>7, GapFinish
          DEF WorkerStep, At, Within

LEMMA GapStep ==
    ASSUME TypeOK, LeaseInv, CopyInv, GapInv, [Next]_vars
    PROVE  GapInv'
<1>1. \A w \in Workers : Busy(w) => worker[w].job \in Jobs
  BY WorkerFields DEF Busy
<1>2. ASSUME UNCHANGED <<worker, cols, cred, base>>,
             \A i \in Jobs : jobs'[i].status = jobs[i].status
      PROVE  GapInv'
  <2>1. ASSUME NEW j \in Jobs, Waits(j)' PROVE JobReads(cols[j])'
    <3>1. PICK c : c = cols[j]
      OBVIOUS
    <3>2. JobReads(c)'
      BY <1>2, <2>1, <3>1, GapKept DEF GapInv, Waits
    <3>. QED  BY <1>2, <3>1, <3>2 DEF JobReads
  <2>2. ASSUME NEW w \in Workers, At(w)', worker'[w].copy.mode = "history"
        PROVE  PageReads(worker[w])'
    <3>1. PICK x : x = worker[w]
      OBVIOUS
    <3>2. At(w)
      BY <1>1, <1>2, <2>2 DEF At, Busy, Alive
    <3>3. PageReads(x)'
      BY <1>2, <2>2, <3>1, <3>2, GapKept DEF GapInv
    <3>. QED  BY <1>2, <3>1, <3>3 DEF PageReads, Reach
  <2>. QED  BY <1>2, <2>1, <2>2, GapKept DEF GapInv
<1>3. ASSUME NEW j \in Jobs, Enqueue(j) PROVE GapInv'
  <2>1. /\ \A i \in Jobs : Waits(i)' => i = j
        /\ \A w \in Workers : ~At(w)'
    <3>1. \A i \in Jobs : i # j => jobs'[i] = jobs[i] /\ ~Waits(i)
      BY <1>3 DEF Enqueue, TypeOK, LeaseInv
    <3>2. \A w \in Workers : Busy(w) => ~Alive(w) /\ worker[w].job # j
      BY <1>1, <1>3 DEF Enqueue, LeaseInv, Waits, Alive
    <3>3. UNCHANGED worker
      BY <1>3 DEF Enqueue
    <3>. QED  BY <1>1, <3>1, <3>2, <3>3 DEF Waits, At, Busy, Alive
  <2>2. UNCHANGED <<base, cred>>
    BY <1>3 DEF Enqueue, mail
  <2>3. cols'[j] = IF cred.history # NoCursor
                     THEN [NewColumns EXCEPT !.mode = "history",
                                             !.start = cred.history]
                     ELSE [NewColumns EXCEPT !.token = cred.resume]
    BY <1>3 DEF Enqueue, TypeOK
  <2>4. cols'[j].mode = "history" =>
          /\ cols'[j].start = cred.history /\ cred.history # NoCursor
          /\ cols'[j].token = NoToken
    BY <2>3 DEF NewColumns
  <2>5. \A m \in Messages : ~(m <= NoToken)
    BY SizesAssumption DEF Messages, NoToken
  <2>6. JobReads(cols[j])'
    BY <2>2, <2>4, <2>5 DEF JobReads, Imported
  <2>. QED  BY <2>1, <2>2, <2>6, GapKept DEF GapInv
<1>4. ASSUME NEW j \in Jobs, Lapse(j) PROVE GapInv'
  <2>1. \A i \in Jobs : jobs'[i].status = jobs[i].status
    BY <1>4 DEF Lapse, TypeOK, JobRows
  <2>. QED  BY <1>2, <1>4, <2>1 DEF Lapse, mail
<1>5. CASE Disconnect
  <2>1. \A j \in Jobs : ~Waits(j)'
    BY <1>5 DEF Disconnect, Waits
  <2>2. \A w \in Workers : ~At(w)'
    BY <1>1, <1>5 DEF Disconnect, LeaseInv, At, Busy, Alive
  <2>3. cred'.history = NoCursor
    BY <1>5 DEF Disconnect, NewCredential
  <2>4. HistoryHasNoGap'
    BY <2>3, SizesAssumption DEF HistoryHasNoGap, NoCursor, Messages
  <2>. QED  BY <2>1, <2>2, <2>4 DEF GapInv
<1>6. CASE Connect \/ Arrive \/ \E m \in Messages : UserAnalyze(m)
  BY <1>2, <1>6 DEF Connect, Arrive, UserAnalyze, mail
<1>7. CASE UNCHANGED vars
  BY <1>2, <1>7 DEF vars
<1>. QED  BY <1>3, <1>4, <1>5, <1>6, <1>7, GapWorker DEF Next

(* While workers keep to their leases: whatever pages fail, workers die,   *)
(* cursors expire and accounts leave, no message that arrived after the    *)
(* last full import and before the cursor is missing from the emails.      *)
THEOREM CursorCoversHistory ==
    ASSUME MayOverrun = FALSE
    PROVE  Spec => []HistoryHasNoGap
<1>1. Init => GapInv
  <2>. SUFFICES ASSUME Init PROVE GapInv
    OBVIOUS
  <2>1. cred.history = NoCursor
    BY DEF Init, NewCredential
  <2>2. HistoryHasNoGap
    BY <2>1, SizesAssumption DEF HistoryHasNoGap, NoCursor, Messages
  <2>3. \A j \in Jobs : ~Waits(j)
    BY DEF Init, Waits
  <2>4. \A w \in Workers : ~At(w)
    BY NewTyped DEF Init, At, Busy
  <2>. QED  BY <2>2, <2>3, <2>4 DEF GapInv
<1>2. TypeOK /\ LeaseInv /\ CopyInv /\ GapInv /\ [Next]_vars => GapInv'
  BY GapStep
<1>3. GapInv => HistoryHasNoGap
  BY DEF GapInv
<1>. QED  BY <1>1, <1>2, <1>3, CopyAlways, PTL DEF Spec
=============================================================================
