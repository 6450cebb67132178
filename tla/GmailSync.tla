------------------------------ MODULE GmailSync ------------------------------
(***************************************************************************)
(* The import of a Gmail inbox: sync requests become jobs, at most one     *)
(* active for a connected account; workers claim a job under a lease, list *)
(* the mailbox page by page (the whole inbox first, the history since the  *)
(* cursor afterwards), store the messages, let a model read them, and move *)
(* the cursor (app/gmail.py, app/sync_analysis.py).                        *)
(*                                                                         *)
(* The messages of the mailbox are numbered in the order they arrive, and  *)
(* a message's number is also its Gmail history id.  The model has one     *)
(* account; a reconnected account starts from nothing.  All messages are   *)
(* younger than the seven days of GMAIL_QUERY and stay in the inbox.       *)
(***************************************************************************)
EXTENDS Integers, FiniteSets

CONSTANTS
    MaxMessages,   \* bound: messages that arrive
    Bulk,          \* those in a category that is not stored (_store_page)
    MaxJobs,       \* bound: sync jobs
    Workers,       \* sync workers
    PageSize,      \* GMAIL_PAGE_SIZE
    PageLimit,     \* GMAIL_BOOTSTRAP_PAGE_LIMIT
    BatchSize,     \* ANALYSIS_CONCURRENCY
    MaxFaults,     \* bound: message details that cannot be fetched
    MaxExpiries,   \* bound: answers that the history cursor is too old
    MaxCrashes,    \* bound: worker processes killed
    MaxLeaves,     \* bound: times the account is disconnected
    MayOverrun     \* may a live worker outlast its five-minute lease?

Messages == 1..MaxMessages
Jobs     == 1..MaxJobs
NoJob    == 0
NoToken  == 0      \* a page token is the number of the last message listed
NoCursor == -1     \* a cursor is the history id it was read at
Tokens   == 0..MaxMessages
Cursors  == -1..MaxMessages

ASSUME SizesAssumption ==
    /\ MaxMessages \in Nat /\ MaxJobs \in Nat /\ Bulk \subseteq Messages
    /\ PageSize \in Nat \ {0} /\ PageLimit \in Nat \ {0}
    /\ BatchSize \in Nat \ {0}

ASSUME LimitsAssumption ==
    /\ MaxFaults \in Nat /\ MaxExpiries \in Nat /\ MaxCrashes \in Nat
    /\ MaxLeaves \in Nat /\ MayOverrun \in BOOLEAN

VARIABLES
    arrived,    \* messages in the mailbox
    connected,  \* is there a gmail_credentials row?
    cred,       \* its history_id and bootstrap_page_token
    jobs,       \* gmail_sync_jobs: what the queue looks at
    cols,       \* gmail_sync_jobs: what the worker of a job loads and writes
    email,      \* the emails table, by message
    worker,     \* the sync workers, with their copies of these rows
    calls,      \* history: model calls the workers made for each message
    base,       \* history: the cursor the last full import ended with
    spent       \* environment steps so far, by kind

mail == <<arrived, calls, base>>
vars == <<arrived, connected, cred, jobs, cols, email, worker, calls, base,
          spent>>

-----------------------------------------------------------------------------
JobRows == [status : {"absent", "queued", "running", "succeeded", "partial",
                      "failed", "deleted"},
            active : BOOLEAN,                      \* active_slot is not NULL
            lease : {"none", "held", "lapsed"}]

Columns == [mode : {"bootstrap", "history"}, token : Tokens, start : Cursors,
            pending : Cursors,
            failures : BOOLEAN,                    \* failures > 0
            unread : BOOLEAN]                      \* analysis_failures > 0

Credentials == [history : Cursors, resume : Tokens]

Emails == [job : Jobs \cup {NoJob}, attempted : BOOLEAN, analyzed : BOOLEAN]

Stages == {"idle", "listing", "fetching", "stored", "analyzing", "marking",
           "calling", "paged"}

WorkerStates == [stage : Stages, job : Jobs \cup {NoJob},
                 copy : Columns,         \* the loaded job
                 cred : Credentials,     \* the loaded credential
                 page : SUBSET Messages, \* message details to fetch
                 next : Tokens,          \* nextPageToken of the listing
                 at : Cursors,           \* its historyId
                 pages : 0..PageLimit,   \* pages_this_run, up to the limit
                 batch : SUBSET Messages]

Kinds == {"faults", "expiries", "crashes", "leaves"}

NewColumns  == [mode |-> "bootstrap", token |-> NoToken, start |-> NoCursor,
                pending |-> NoCursor, failures |-> FALSE, unread |-> FALSE]
NewCredential == [history |-> NoCursor, resume |-> NoToken]

IdleWorker == [stage |-> "idle", job |-> NoJob, copy |-> NewColumns,
               cred |-> NewCredential, page |-> {}, next |-> NoToken,
               at |-> NoCursor, pages |-> 0, batch |-> {}]

TypeOK ==
    /\ arrived \in 0..MaxMessages
    /\ connected \in BOOLEAN
    /\ cred \in Credentials
    /\ jobs \in [Jobs -> JobRows]
    /\ cols \in [Jobs -> Columns]
    /\ email \in [Messages -> Emails]
    /\ worker \in [Workers -> WorkerStates]
    /\ calls \in [Messages -> Nat]
    /\ base \in Cursors
    /\ spent \in [Kinds -> Nat]
    /\ \A w \in Workers : worker[w].stage # "idle" => worker[w].job \in Jobs

Init ==
    /\ arrived \in 0..MaxMessages
    /\ connected = TRUE
    /\ cred = NewCredential
    /\ jobs = [j \in Jobs |->
                 [status |-> "absent", active |-> FALSE, lease |-> "none"]]
    /\ cols = [j \in Jobs |-> NewColumns]
    /\ email = [m \in Messages |->
                  [job |-> NoJob, attempted |-> FALSE, analyzed |-> FALSE]]
    /\ worker = [w \in Workers |-> IdleWorker]
    /\ calls = [m \in Messages |-> 0]
    /\ base = NoCursor
    /\ spent = [k \in Kinds |-> 0]

-----------------------------------------------------------------------------
(* Web requests.                                                           *)

Stored(m) == email[m].job # NoJob
Ended     == {"succeeded", "partial", "failed"}

(* enqueue_gmail_sync: the active job is returned if there is one, and the *)
(* unique key on (credential_id, active_slot) admits no second one.        *)
Enqueue(j) ==
    /\ connected
    /\ \A i \in Jobs : ~jobs[i].active
    /\ jobs[j].status = "absent"
    /\ \A i \in Jobs : jobs[i].status = "absent" => j <= i
    /\ jobs' = [jobs EXCEPT ![j] =
                  [status |-> "queued", active |-> TRUE, lease |-> "none"]]
    /\ cols' = [cols EXCEPT ![j] =
                  IF cred.history # NoCursor
                    THEN [NewColumns EXCEPT !.mode = "history",
                                            !.start = cred.history]
                    ELSE [NewColumns EXCEPT !.token = cred.resume]]
    /\ UNCHANGED <<mail, connected, cred, email, worker, spent>>

(* analyze_email or triage_unanalyzed_emails, asked for by the user.       *)
UserAnalyze(m) ==
    /\ Stored(m) /\ ~email[m].analyzed
    /\ email' = [email EXCEPT ![m].analyzed = TRUE]
    /\ UNCHANGED <<mail, connected, cred, jobs, cols, worker, spent>>

(* disconnect_gmail: the jobs go with the credential, the emails stay.     *)
Disconnect ==
    /\ connected /\ spent["leaves"] < MaxLeaves
    /\ spent' = [spent EXCEPT !["leaves"] = @ + 1]
    /\ connected' = FALSE
    /\ cred' = NewCredential
    /\ base' = NoCursor
    /\ jobs' = [j \in Jobs |->
                  IF jobs[j].status = "absent" THEN jobs[j]
                  ELSE [status |-> "deleted", active |-> FALSE,
                        lease |-> "none"]]
    /\ UNCHANGED <<arrived, cols, email, worker, calls>>

(* complete_oauth for an account without a credential.                     *)
Connect ==
    /\ ~connected
    /\ connected' = TRUE
    /\ UNCHANGED <<mail, cred, jobs, cols, email, worker, spent>>

-----------------------------------------------------------------------------
(* Workers.  A session keeps the rows it loaded over its commits, and a    *)
(* commit writes the columns that were changed since (expire_on_commit is  *)
(* off).                                                                   *)

Flush(loaded, changed, stored) ==
    [f \in DOMAIN stored |-> IF changed[f] = loaded[f] THEN stored[f]
                                                       ELSE changed[f]]

SetWorker(w, state) == worker' = [worker EXCEPT ![w] = state]
Return(w)           == SetWorker(w, IdleWorker)

Holds(w, j) == worker[w].job = j /\ worker[w].stage # "idle"
Alive(w)    == jobs[worker[w].job].status # "deleted"

Heartbeat(j) == jobs' = [jobs EXCEPT ![j].lease = "held"]

(* What the worker commits of its job: the copy becomes the new columns.   *)
WriteJob(w, columns) ==
    cols' = [cols EXCEPT ![worker[w].job] = Flush(worker[w].copy, columns, @)]

WriteCred(w, columns) == cred' = Flush(worker[w].cred, columns, cred)

(* Fault: a job whose worker died is never taken over.                     *)
ClaimableQueued(j) == jobs[j].status = "queued"

Claimable(j) ==
    \/ jobs[j].status = "queued"
    \/ jobs[j].status = "running" /\ jobs[j].lease = "lapsed"

(* claim_gmail_sync_job with the loads that follow.  A claim whose UPDATE  *)
(* comes too late changes nothing.  The credential is there: a job has no  *)
(* other owner and is deleted with it.                                     *)
Claim(w, j) ==
    /\ worker[w].stage = "idle"
    /\ Claimable(j) /\ \A i \in Jobs : Claimable(i) => j <= i
    /\ jobs' = [jobs EXCEPT ![j].status = "running", ![j].lease = "held"]
    /\ SetWorker(w, [IdleWorker EXCEPT !.stage = "listing", !.job = j,
                                       !.copy = cols[j], !.cred = cred])
    /\ UNCHANGED <<mail, connected, cred, cols, email, spent>>

(* The historyId of an answer of Gmail: the newest change it knows.        *)
MailboxCursor == arrived

Smallest(S, n) == {m \in S : Cardinality({k \in S : k < m}) < n}
Largest(S, n)  == {m \in S : Cardinality({k \in S : k > m}) < n}

(* The listed messages that are not stored yet are fetched next.           *)
Listed(w, page, next, at) ==
    SetWorker(w, [worker[w] EXCEPT
                    !.stage = "fetching", !.page = {m \in page : ~Stored(m)},
                    !.next = next, !.at = at])

ReadsHistory(w) == /\ worker[w].copy.mode = "history"
                   /\ worker[w].cred.history # NoCursor

(* A page of history: what was added since the cursor, oldest first.       *)
ListHistory(w) ==
    LET me   == worker[w]
        from == IF me.copy.start # NoCursor THEN me.copy.start
                                            ELSE me.cred.history
        new  == {m \in 1..arrived : m > from /\ m > me.copy.token}
        page == Smallest(new, PageSize)
    IN
    /\ me.stage = "listing"
    /\ ReadsHistory(w)
    /\ \/ page = new /\ Listed(w, page, NoToken, MailboxCursor)
       \/ /\ page # new
          /\ \E last \in page : /\ \A m \in page : m <= last
                                /\ Listed(w, page, last, MailboxCursor)
    /\ UNCHANGED <<mail, connected, cred, jobs, cols, email, spent>>

(* Gmail no longer has the cursor: the job becomes a full import.          *)
ExpireHistory(w) ==
    LET me      == worker[w]
        columns == [me.copy EXCEPT !.mode = "bootstrap", !.start = NoCursor,
                                   !.token = NoToken]
    IN
    /\ me.stage = "listing" /\ Alive(w)
    /\ ReadsHistory(w)
    /\ spent["expiries"] < MaxExpiries
    /\ spent' = [spent EXCEPT !["expiries"] = @ + 1]
    /\ WriteJob(w, columns) /\ WriteCred(w, NewCredential)
    /\ SetWorker(w, [me EXCEPT !.copy = columns, !.cred = NewCredential])
    /\ UNCHANGED <<mail, connected, jobs, email>>

(* A page of the inbox, newest first.                                      *)
ListInbox(w) ==
    LET me    == worker[w]
        token == IF me.copy.token # NoToken THEN me.copy.token
                                            ELSE me.cred.resume
        old   == {m \in (1..arrived) \ Bulk : token # NoToken => m < token}
        page  == Largest(old, PageSize)
    IN
    /\ me.stage = "listing"
    /\ ~ReadsHistory(w)
    /\ \/ page = old /\ Listed(w, page, NoToken, NoCursor)
       \/ /\ page # old
          /\ \E last \in page : /\ \A m \in page : m >= last
                                /\ Listed(w, page, last, NoCursor)
    /\ UNCHANGED <<mail, connected, cred, jobs, cols, email, spent>>

(* The details are fetched, some in vain, and stored in one commit with    *)
(* the counters.  A message someone else stored meanwhile is a duplicate.  *)
StorePage(w) ==
    LET me == worker[w] IN
    /\ me.stage = "fetching" /\ Alive(w)
    /\ \E bad \in SUBSET me.page :
         LET columns == [me.copy EXCEPT !.failures = @ \/ bad # {}] IN
         /\ spent["faults"] + Cardinality(bad) <= MaxFaults
         /\ spent' = [spent EXCEPT !["faults"] = @ + Cardinality(bad)]
         /\ email' = [m \in Messages |->
                        IF m \in me.page \ (bad \cup Bulk) /\ ~Stored(m)
                        THEN [email[m] EXCEPT !.job = me.job] ELSE email[m]]
         /\ WriteJob(w, columns)
         /\ SetWorker(w, [me EXCEPT !.stage = "stored", !.copy = columns,
                                    !.page = {}])
    /\ UNCHANGED <<mail, connected, cred, jobs>>

(* Where the next run of this job goes on.                                 *)
SavePosition(w) ==
    LET me      == worker[w]
        columns == [me.copy EXCEPT
                      !.token = me.next,
                      !.pending = IF me.at # NoCursor THEN me.at ELSE @]
    IN
    /\ me.stage = "stored" /\ Alive(w)
    /\ WriteJob(w, columns)
    /\ SetWorker(w, [me EXCEPT !.stage = "analyzing", !.copy = columns])
    /\ Heartbeat(me.job)
    /\ UNCHANGED <<mail, connected, cred, email, spent>>

-----------------------------------------------------------------------------
(* analyze_sync_batch.                                                     *)

Waiting(j) == {m \in Messages : /\ email[m].job = j
                                /\ ~email[m].analyzed
                                /\ ~email[m].attempted}

(* The oldest emails of the job that wait are selected.                    *)
PickBatch(w) ==
    LET me == worker[w] IN
    /\ me.stage = "analyzing"
    /\ Waiting(me.job) # {}
    /\ SetWorker(w, [me EXCEPT !.stage = "marking",
                               !.batch = Smallest(Waiting(me.job), BatchSize)])
    /\ UNCHANGED <<mail, connected, cred, jobs, cols, email, spent>>

(* Fault: the attempt marker is left to the commit after the call.         *)
MarkBatchLater(w) ==
    LET me == worker[w] IN
    /\ me.stage = "marking" /\ Alive(w)
    /\ calls' = [m \in Messages |-> IF m \in me.batch THEN calls[m] + 1
                                                      ELSE calls[m]]
    /\ SetWorker(w, [me EXCEPT !.stage = "calling"])
    /\ Heartbeat(me.job)
    /\ UNCHANGED <<arrived, connected, cred, cols, email, base, spent>>

(* They are marked, whoever marked them meanwhile, and after that commit   *)
(* the model is called for each of them.                                   *)
MarkBatch(w) ==
    LET me == worker[w] IN
    /\ me.stage = "marking" /\ Alive(w)
    /\ email' = [m \in Messages |->
                   IF m \in me.batch THEN [email[m] EXCEPT !.attempted = TRUE]
                                     ELSE email[m]]
    /\ calls' = [m \in Messages |-> IF m \in me.batch THEN calls[m] + 1
                                                      ELSE calls[m]]
    /\ SetWorker(w, [me EXCEPT !.stage = "calling"])
    /\ Heartbeat(me.job)
    /\ UNCHANGED <<arrived, connected, cred, cols, base, spent>>

(* The results are written in order.  An email that is analyzed by now is  *)
(* skipped; an error, or an answer without evidence, rolls back, and that  *)
(* reloads the rows.  The heartbeat of a job that is gone fails.           *)
Project(w) ==
    LET me   == worker[w]
        Left(m) == IF Alive(w) THEN me.batch \ {m} ELSE {}
        Turn(next, rest) ==
            SetWorker(w, [next EXCEPT
                            !.batch = rest,
                            !.stage = IF rest = {} THEN "analyzing" ELSE @])
    IN
    /\ me.stage = "calling"
    /\ \E m \in me.batch :
         /\ \A k \in me.batch : m <= k
         /\ \/ /\ email[m].analyzed
               /\ Turn(me, me.batch \ {m})
               /\ UNCHANGED <<email, jobs>>
            \/ /\ ~email[m].analyzed
               /\ email' = [email EXCEPT ![m].analyzed = TRUE]
               /\ Turn(me, Left(m))
               /\ IF Alive(w) THEN Heartbeat(me.job) ELSE UNCHANGED jobs
            \/ /\ Turn([me EXCEPT !.copy = cols[me.job], !.cred = cred],
                       Left(m))
               /\ IF Alive(w) THEN Heartbeat(me.job) ELSE UNCHANGED jobs
               /\ UNCHANGED email
    /\ UNCHANGED <<mail, connected, cred, cols, spent>>

(* analysis_failures counts the job's emails that are not analyzed.        *)
EndAnalysis(w) ==
    LET me      == worker[w]
        columns == [me.copy EXCEPT
                      !.unread = \E m \in Messages : /\ email[m].job = me.job
                                                     /\ ~email[m].analyzed]
    IN
    /\ me.stage = "analyzing" /\ Alive(w)
    /\ Waiting(me.job) = {}
    /\ WriteJob(w, columns)
    /\ SetWorker(w, [me EXCEPT !.stage = "paged", !.copy = columns])
    /\ UNCHANGED <<mail, connected, cred, jobs, email, spent>>

-----------------------------------------------------------------------------
(* The end of a page, of a run and of a job.                               *)

RunIsLong(w) == /\ worker[w].copy.mode = "bootstrap"
                /\ worker[w].pages + 1 >= PageLimit

NextPage(w) ==
    LET me == worker[w] IN
    /\ me.stage = "paged" /\ Alive(w)
    /\ me.next # NoToken /\ ~RunIsLong(w)
    /\ SetWorker(w, [me EXCEPT !.stage = "listing",
                               !.pages = IF @ < PageLimit THEN @ + 1 ELSE @])
    /\ Heartbeat(me.job)
    /\ UNCHANGED <<mail, connected, cred, cols, email, spent>>

(* Fault: the job gives up its active slot while it waits.                 *)
RequeueReleased(w) ==
    LET me == worker[w] IN
    /\ me.stage = "paged" /\ Alive(w)
    /\ me.next # NoToken /\ RunIsLong(w)
    /\ WriteCred(w, [me.cred EXCEPT !.resume = me.next])
    /\ jobs' = [jobs EXCEPT ![me.job] =
                  [status |-> "queued", active |-> FALSE, lease |-> "none"]]
    /\ Return(w)
    /\ UNCHANGED <<mail, connected, cols, email, spent>>

(* A full import goes back to the queue after GMAIL_BOOTSTRAP_PAGE_LIMIT   *)
(* pages.  The active slot is not touched.                                 *)
Requeue(w) ==
    LET me == worker[w] IN
    /\ me.stage = "paged" /\ Alive(w)
    /\ me.next # NoToken /\ RunIsLong(w)
    /\ WriteCred(w, [me.cred EXCEPT !.resume = me.next])
    /\ jobs' = [jobs EXCEPT ![me.job].status = "queued",
                            ![me.job].lease = "none"]
    /\ Return(w)
    /\ UNCHANGED <<mail, connected, cols, email, spent>>

Finish(j, status) ==
    jobs' = [jobs EXCEPT ![j] =
               [status |-> status, active |-> FALSE, lease |-> "none"]]

(* Fault: failures do not keep the cursor back.                            *)
CleanAlways(copy) == TRUE

Clean(copy) == ~copy.failures

(* Fault: the status of an execution is given to a job.                    *)
OutcomeOfAction(copy) ==
    IF copy.failures \/ copy.unread THEN "failed" ELSE "completed_verified"

(* Fault: only failures of the import make a job partial.                  *)
OutcomeOfImport(copy) == IF copy.failures THEN "partial" ELSE "succeeded"

Outcome(copy) ==
    IF copy.failures \/ copy.unread THEN "partial" ELSE "succeeded"

(* After the last page the cursor moves, unless a message failed: to the   *)
(* mailbox's own number after a full import, else to the one of the last   *)
(* page of history.                                                        *)
FinishJob(w) ==
    LET me == worker[w] IN
    /\ me.stage = "paged" /\ Alive(w)
    /\ me.next = NoToken
    /\ \/ /\ me.copy.mode = "bootstrap" /\ Clean(me.copy)
          /\ WriteCred(w, [history |-> MailboxCursor, resume |-> NoToken])
          /\ base' = MailboxCursor
       \/ /\ me.copy.mode = "history" /\ Clean(me.copy)
          /\ WriteCred(w, [me.cred EXCEPT
                             !.history = IF me.copy.pending # NoCursor
                                           THEN me.copy.pending ELSE @])
          /\ UNCHANGED base
       \/ ~Clean(me.copy) /\ UNCHANGED <<cred, base>>
    /\ Finish(me.job, Outcome(me.copy))
    /\ Return(w)
    /\ UNCHANGED <<arrived, connected, cols, email, calls, spent>>

(* A call of the worker fails for good: the token refresh or a listing, a  *)
(* detail that asks to reconnect, or the profile after a full import.      *)
FailJob(w) ==
    LET me == worker[w] IN
    /\ \/ me.stage \in {"listing", "fetching"}
       \/ /\ me.stage = "paged" /\ me.next = NoToken
          /\ me.copy.mode = "bootstrap" /\ Clean(me.copy)
    /\ Alive(w)
    /\ Finish(me.job, "failed")
    /\ Return(w)
    /\ UNCHANGED <<mail, connected, cred, cols, email, spent>>

(* The account was disconnected: the next commit of the job's row fails,   *)
(* the handler finds no row either, and run_forever starts over.           *)
Abandon(w) ==
    /\ worker[w].stage # "idle" /\ ~Alive(w)
    /\ Return(w)
    /\ UNCHANGED <<mail, connected, cred, jobs, cols, email, spent>>

WorkerStep(w) ==
    \/ \E j \in Jobs : Claim(w, j)
    \/ ListHistory(w) \/ ExpireHistory(w) \/ ListInbox(w)
    \/ StorePage(w) \/ SavePosition(w)
    \/ PickBatch(w) \/ MarkBatch(w) \/ Project(w) \/ EndAnalysis(w)
    \/ NextPage(w) \/ Requeue(w) \/ FinishJob(w) \/ FailJob(w) \/ Abandon(w)

-----------------------------------------------------------------------------
(* The environment.                                                        *)

Arrive ==
    /\ arrived < MaxMessages
    /\ arrived' = arrived + 1
    /\ UNCHANGED <<connected, cred, jobs, cols, email, worker, calls, base,
                   spent>>

Crash(w) ==
    /\ spent["crashes"] < MaxCrashes
    /\ worker[w].stage # "idle"
    /\ spent' = [spent EXCEPT !["crashes"] = @ + 1]
    /\ Return(w)
    /\ UNCHANGED <<mail, connected, cred, jobs, cols, email>>

(* GMAIL_JOB_LEASE_MINUTES pass without a heartbeat.                       *)
Lapse(j) ==
    /\ jobs[j].status = "running" /\ jobs[j].lease = "held"
    /\ MayOverrun \/ \A w \in Workers : ~Holds(w, j)
    /\ jobs' = [jobs EXCEPT ![j].lease = "lapsed"]
    /\ UNCHANGED <<mail, connected, cred, cols, email, worker, spent>>

Next ==
    \/ \E j \in Jobs : Enqueue(j) \/ Lapse(j)
    \/ \E m \in Messages : UserAnalyze(m)
    \/ Disconnect \/ Connect \/ Arrive
    \/ \E w \in Workers : WorkerStep(w) \/ Crash(w)

Spec == Init /\ [][Next]_vars

(* run_forever keeps looping and a clock keeps running.                    *)
FairSpec ==
    /\ Spec
    /\ \A w \in Workers : WF_vars(WorkerStep(w))
    /\ \A j \in Jobs : WF_vars(Lapse(j))

-----------------------------------------------------------------------------
(* Properties.                                                             *)

(* The incremental cursor never passes a message that was not imported,    *)
(* counted from the end of the last full import.                           *)
HistoryHasNoGap ==
    \A m \in Messages \ Bulk :
        base < m /\ m <= cred.history => Stored(m)

(* "A single active job per credential remains enforced."                  *)
OneActiveJob ==
    \A i, j \in Jobs :
        /\ jobs[i].status \in {"queued", "running"}
        /\ jobs[j].status \in {"queued", "running"}
        => i = j

(* A job is reported as succeeded only if each email it stored, in this    *)
(* run or in one that was killed, was analyzed.                            *)
SucceededMeansAnalyzed ==
    \A j \in Jobs : jobs[j].status = "succeeded" =>
        \A m \in Messages : email[m].job = j => email[m].analyzed

(* "Attempt markers prevent automatic re-analysis on recovery": the        *)
(* workers call the model at most once for an email.                       *)
AnalyzedOnce == \A m \in Messages : calls[m] <= 1

(* "The worker imports unseen messages": none the cursor covers is missing. *)
NothingMissed ==
    \A m \in Messages \ Bulk : m <= cred.history => Stored(m)

(* A sync that was asked for ends, or its account is disconnected.         *)
JobsEnd ==
    \A j \in Jobs :
        jobs[j].status = "queued" ~> jobs[j].status \in Ended \cup {"deleted"}
=============================================================================
