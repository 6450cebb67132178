# ActionInbox in TLA+

ActionInbox imports the mail of a Gmail inbox, lets a model read it for tasks, and, after an explicit approval, adds one row to a configured Google sheet. Three kinds of processes share one database and know nothing else of each other: the web process (`app/main.py`, `app/table_routes.py`), the execution worker (`app/execution_worker.py`) and the sync worker (`app/gmail_sync_worker.py`). Both workers are loops in containers that are restarted when they end. They call Google and OpenAI between their commits, and everything that can go wrong here goes wrong between two commits.

These modules say what the processes do to the database and to the outside world, TLC checks them on small instances, and TLAPS proves the central results for any instance.

## Inventory

| Part (source) | State | Operations | Hard because | Correct when |
| --- | --- | --- | --- | --- |
| Review-first execution (`agent_execution.py`, `execution_worker.py`) | `executions`, `execution_events` | prepare, approve, cancel, claim, run, complete, requeue, fail | requests and workers act on a row they read earlier; leases; crashes; retries | one approval, one outcome, a trail that agrees with it, an end |
| Table append (`table_actions.py`) | `append_attempted_at`, `table_append_records`, the sheet | validate, read headers, search key, append, search again, read back | a call that failed may have been applied, or may still be | the row is appended at most once, only when approved and marked |
| Table settings (`table_routes.py`) | `table_destinations` | inspect, save, disable | changes while actions are prepared and run | an action runs only on what its owner reviewed |
| Gmail synchronisation (`gmail.py`, `gmail_sync_worker.py`) | `gmail_credentials`, `gmail_sync_jobs`, `emails` | enqueue, claim, list, fetch, store, requeue, finish, disconnect | pages, cursors and mail that keeps arriving; failures of single messages; leases; crashes | one active job, no gap in what the cursor covers, an end |
| Sync analysis (`sync_analysis.py`) | `emails.sync_analysis_attempted`, `analyzed` | mark a batch, call the model, write in order, count | a crash between the marker and the result; the user analyzes meanwhile | one automatic attempt, an honest status |
| Email analysis (`analysis.py`, `openai_analysis.py`, `schemas.py`) | `analyses`, `tasks` | analyze, re-analyze, validate evidence, repair once, project | two passes that must agree; deletes a task under a running execution; resources edited during the request, of which a session may hold rows it read before | an accepted task quotes its email, stored guidance quotes resources as they are or were a moment ago, and an analysis is never lost |
| Bulk triage (`triage.py`) | as above | analyze what is left | next to the sync worker | no email analyzed twice |
| Sign-in and sessions (`gmail.py`, `auth.py`, `action_csrf.py`) | `users`, `gmail_oauth_states`, `user_sessions`, two cookies per browser | start, answer, exchange, find or make the user, take over old mail, replace, revoke, disconnect | states tested and set in two statements; racing first sign-ins; accounts that change their address or pass it on; pages of a session that is over | one user per Google account and mail only with the account's holder, as far as addresses tell accounts apart, a form acts for the user it was shown to |
| Browser controller (`static/sync.js`, `presentation.py`) | busy, failures, polling, one timer | submit, poll, render, give up | answers that are late or fail | one chain of polls, never stuck |
| Web routes, MCP, resources, demo data, field extraction, migrations | - | reads, plain edits, glue | no hard behaviour of their own | - |

`PROJECT.json` lists the same parts with their files, and under `hazards` every place where the code is hard to test, with the properties that watch it.

## Modules

| Module | What it is |
| --- | --- |
| `ActionPromise` | what a user is promised of an action, in five phases |
| `TableAction` | executions, workers, the sheet and its owner, in full |
| `MCTableAction` | constants and symmetry for TLC |
| `TableActionProofs` | type correctness of `TableAction` |
| `TableSafety` | its inductive invariants and the theorems on marks, leases and single appends |
| `TableReceipts` | the theorems on receipts and on the audit trail, and that `TableAction` implements `ActionPromise` |
| `TableBound` | that the retry limit bounds the appends |
| `GmailSync` | sync jobs, workers, pages, cursors and the batch analysis |
| `MCGmailSync` | symmetry for TLC |
| `GmailSyncProofs` | its type correctness and its four safety theorems |
| `SyncPanel` | the progress panel of the pages next to the jobs it watches |
| `SyncPanelProofs` | its type correctness and its three safety invariants |
| `Evidence` | the rules that accept or refuse what the model says of an email: operators only |
| `EmailAnalysis` | one email from the request to the stored analysis and task, over `Evidence` |
| `MCEmailAnalysis` | an email, resources and answers for TLC |
| `EmailAnalysisProofs` | that the verdict is exact and drops nothing, and what is stored and shown is backed and kept |
| `Access` | browsers, sessions, signing in with Google, and who owns what |
| `MCAccess` | three Google accounts, their addresses, which of them may pass on, and symmetry for TLC |
| `AccessProofs` | its type correctness and its safety theorems |

`TableAction` implements `ActionPromise` (an INSTANCE with a refinement mapping), `EmailAnalysis` extends `Evidence`. The others do not share state in the model: a re-analysis is one step of `TableAction` and of `EmailAnalysis`, an analysis one step of `GmailSync`, the sync worker's ends of jobs are one step of `SyncPanel` and its imports one of `Access`, and signing in is one step of `GmailSync`.

Definitions whose comment starts with "Fault:" are versions of the definition that follows them with a plausible mistake. No specification uses them; they are there to show that each property notices its mistake.

### TableAction

An element of `Actions` is an idempotency key, so the unique key of `executions` is the function `row`. The key of a table action holds the id of a task, and every analysis of an email makes a new task: `Older` gives the actions of the earlier ones, and a later one can only be prepared when those are deleted (`Current`). Ids are given once, as MySQL does; SQLite may give the id of a deleted last row again, which is not modelled. A web request is two steps, since each reads a row, does slow work and then commits a conditional UPDATE: `BeginApprove` is `approve_execution` up to that UPDATE and `CommitApprove` the rest. A worker step is what happens between two calls that leave the process: `Pick` and `Claim` are the SELECT and the UPDATE of `process_next_execution`, `Load` reads the row, `Validate` to `ReadBack` are `execute_table_plan` (`Validate` includes the making of the sheet client, outside the `try`, whose failure the handlers of `process_next_execution` end), and `Complete`, `Retry`, `Fail` are the ends. What a worker loaded (`running`, `tried`) stays as it was loaded, as in a session with `expire_on_commit=False`. The receipt is looked up in the transaction's snapshot or as it is now, since MySQL and SQLite differ. `Die` is the commit outside the handlers.

`AppendRow` has the outcomes a network call has: applied and answered, applied without an answer, lost, or still on its way (`inflight`, applied by `LandAppend` at any later time). The owner of the sheet edits, deletes, copies and moves rows, changes the columns and saves or disables the destination.

A lease is its expiry: `Lapse` turns `held` into `lapsed`. With `MayOverrun = FALSE` this happens only to a row whose worker is gone: a live worker finishes within the five minutes. No line of the code guarantees this, the calls of one run may take longer, so the runs `overrun` and `overrun_twice` drop the assumption.

### GmailSync

Messages are numbered as they arrive, and the number is also the history id and the page token. `Enqueue` is `enqueue_gmail_sync` with the unique active slot; `Claim` is `claim_gmail_sync_job`; one page of `run_gmail_sync_job` is `ListInbox` or `ListHistory` (or `ExpireHistory`), `StorePage`, `SavePosition`, the steps of `analyze_sync_batch` (`PickBatch`, which selects, `MarkBatch`, which commits the markers whatever became of them since, `Project`, `EndAnalysis`), and then `NextPage`, `Requeue`, `FinishJob` or `FailJob`. A worker works on copies of the job and of the credential and writes back the columns it changed (`Flush`); a rollback reloads them. Disconnecting deletes the jobs, after which a worker's next commit fails (`Abandon`).

Assumed of Gmail: an inbox listing is newest first, a page token keeps its place, a history listing holds everything after its start, and a `historyId` is the mailbox's newest change at the time of the answer. Messages stay in the inbox and within the seven days of the query.

### SyncPanel

A script runs to its next `await` without interruption, so a step is what happens between two of them or a timer: `Submit` and `EndSubmit` are the two halves of the submit handler, `Fire` and `EndPoll` those of `poll()`. `panel` holds the variables of `mount()` and what the user sees; `timers` counts the timeouts set and not fired, which a wrong flag would make two. `polling` of the code is that a poll is in flight. `ServePost` and `ServePoll` are the two routes, whose answers carry what the server saw then; both may be lost (`LosePost`, `LosePoll`: a failure, an expired session, an invalid answer). An answer to a submit that `render` refuses has already replaced the address the panel polls; the panel then gives up. `Mount` is a page load, which drops what was under way. A job ends (`EndJob`) or goes with its account (`RemoveJobs`).

### Access

A request is several steps: `Callback` is `gmail_oauth_callback` with its cookie and the test of the state, `MarkUsed` the commit that uses it up, `Exchange` the two calls of Google, `Lookup` the reads and `Store` the commit of the last transaction of `complete_oauth` with `_copy_legacy_gmail_data`, `Revoke`, `Create` and `Answer` the end of the route, which `POST /demo` (`StartDemo`) and `POST /logout` share. `Store` works on what `Lookup` saw: it writes the columns that changed against that, and fails when it would break a unique key or update a row that is gone (`Commits`). `Abort` is any request that ends early, with what it committed so far. `BeginDisconnect` and `Disconnect` are `POST /gmail/disconnect` around its call of Google. Beside the requests workers import mail, sessions and states expire, and Google accounts change their addresses.

A cookie or a form token is the session it was made for: hashes and signatures are correct by construction. `Accepts` is `require_action_csrf` with `require_personal_user`, and `Owns` the owner filter of every page. `/gmail/disconnect`, the resources and the completion of tasks take no token and act for whoever is signed in.

`Holder` is the account an address belongs to at first, and an address may pass to another account (`Rename`, for the pairs in `Movable`; `passed` remembers it). `complete_oauth` looks for the user by `google_subject` and then by e-mail, and binds the user it finds by e-mail without a look at the subject this user has. An account that was given another's address may therefore sign in as the other's user, keep it as its own, and own its mail: the model has these behaviours, and no property promises these two accounts anything against each other. The properties speak of the accounts none of whose addresses passed in either direction (`Clean`), and of any others as one account (`Same`). In the same way `_copy_legacy_gmail_data` gives all of the demo user's Gmail mail to the first account with a demo credential that signs in, from whichever of the demo user's accounts it came: `OldAddresses` are the credentials, and `Entitled` is who may end up with such a message.

Assumed: the demo user's own address is none of Google's, an account has one address at a time and no two have the same, and what a worker imports with a credential is mail of an account that has, or had, its address. The exchange may succeed for both answers to one state, although Google gives a code once: that only adds behaviours.

### Evidence and EmailAnalysis

`Verdict` is `validate_model_output`: `FirstPass` judges the answer by position, `Canonical` gives facts their ids and the first place of their quote, `SecondPass` and `Cleaned` are `validate_evidence`. Text is abstracted to what the rules ask of it: where a quote occurs in the bounded body (`Occurs`), which values it contains (`Within`), which values are URLs in the body (`Links`). Positions count from 1 and a meeting time follows the rules of an amount. `Picked` is a list comprehension with a condition, written as a recursive function.

`EmailAnalysis` is `analyze_email` and the worker's use of the same calls. `Begin` reads the resources and, forced, deletes the old analysis inside its transaction, so the committed state (`stored`) does not change before `Store`. `Receive` is the parsed answer, `Judge` the validation with its one repair, `AskFails` whatever ends the request. `Store` is `_project_result`; for the worker it comes after a second `validate_evidence`, and the rest of its handler drops the result (`StoreFails`).

That second validation uses the resources as the worker's session has them. The query finds the rows that are enabled by then, but the session is made with `expire_on_commit=False` and the list of the email before is still referenced, so a row of that list is not read again: the second email of a batch is judged with a text that may be older than an edit committed in between. `held` is what the session holds, `Loaded` what a query returns next to it, and `JudgeOther` the worker's turn with another email, which leaves any part of the resources held; a rollback expires them. The worker's request itself works on copies (`known`), and `since` remembers the resources there were from then on. `library` are the owner's enabled resources; that only some are relevant to an email is in `JudgeOther`, and the scoring itself is left out.

Demo emails get prepared results. Every caller in the program passes no client, so the branches for an injected one are left out. One analysis is under way at a time here; two of them are in `GmailSync`.

## Runs

| Run | Instance | Shows |
| --- | --- | --- |
| `leased` | one table action, 2 workers, 2 requests, 2 schemas, 2 rows, 3 attempts, 2 crashes, 2 owner steps | the safety invariants with the lease assumption |
| `settles` | one table and one demo action, 2 workers, 1 crash | `TableAction` implements `ActionPromise`; approved actions end |
| `overrun` | the actions of two analyses of one email, 3 workers that may outlast leases, 1 request, 2 attempts | what is left without the assumption |
| `overrun_twice` | 2 workers, no crash, no owner | a counterexample: two appends |
| `cancelled` | 2 workers, no crash | a counterexample: cancelled after an append |
| `sync` | 3 messages of which one is in a category that is not stored, 2 jobs, 2 workers, pages and runs of one, a fetch failure, an expiry, a crash, the account disconnected once; selecting and marking a batch are two steps | the safety properties of the import, and that every requested sync ends |
| `sync_missed` | 2 messages, nothing fails | a counterexample: a message the cursor passed |
| `sync_overrun` | 2 jobs, a worker outlasts its lease | a counterexample: two active jobs |
| `panel` | 2 pages, 3 jobs, 3 failures | one chain of polls, never stuck, true outcomes, and a busy panel comes to rest |
| `analyzed` | 2 analyses, 2 versions of the resources, other emails judged in the same session at any time, answers with up to two facts and two tasks, or with any item of advice | the validation against its rules, and what is stored and shown |
| `unquoted` | the same | a counterexample: guidance that quotes nothing |
| `signs` | 1 browser, 2 requests at once, 2 sessions, 1 state, 3 Google accounts with 4 addresses of which one may pass on, 2 addresses connected by the demo user, 3 users of whom one was there before, 1 message | who signs in as whom, who has which mail, and for whom a form acts |

Why the bounds are enough. Actions do not share state except the destination and the workers, so one action with several workers has all the races on a row, and `settles` adds a second one for starvation. Two rows of a sheet are a row and its copy; three are needed only where workers append more than once. `TABLE_MAX_ATTEMPTS` keeps its value 3 in every run but `overrun`, where 2 leave a first attempt and a retry. Pages of one message and three messages give a first, a middle and a last page; two jobs give a full import in several runs and a history import, or an import before and one after a disconnection. `overrun` has neither crashes nor edits of the sheet: a worker that is slow for long enough does what a crashed one does, and more. Two requests of a browser give one that answers late, two answers to one state and two first sign-ins; the second address of an account makes the two ways a user is found disagree, and may pass to the second account, while the third stays apart, so that the properties still say something of it after the pass. One message is enough, as it can be at each of its places while the credentials are at theirs; that the old mail moves as a whole, for several messages and several holders of the demo user's accounts, is in the proofs only. One state is enough, since both requests may answer it, and one browser, since cookies are not shared. Two crashes of an action reach the fourth claim, which the retry limit refuses. A page watches at most one job that is over and one that is active, and a third one lets it keep an address that is two jobs old; two pages are one whose job another started. The rules of `Evidence` relate a task to each of its facts and an item of advice to each of its references, so two of each show an order, a repetition and a reference past the end; the ten thousand answers of `MCEmailAnalysis` hold every type of fact with a right and a wrong value, a repeated, an absent and an empty quote, and every due date with every list of references. A second analysis meets a stored one.

Fairness. Each worker is weakly fair, since `main` and `run_forever` are loops in containers with `restart: unless-stopped`, and each lease lapses at last when nobody renews it. In `SyncPanel` timers fire, a request is answered or fails (the code sets no timeout of its own, the browser and the network end a request at last), and jobs end, which `JobsEnd` of `GmailSync` shows. Requests of users, owners, the mailbox and appends in flight are promised nothing. `EmailAnalysis` and `Access` have no liveness property: their calls end by their timeouts, and nothing waits for them. Runs are finite behaviours once the requests stop, so the configurations switch deadlock checking off: the system may really be idle.

`TypeOK` is one invariant per module. The others relate several steps: `AtMostOneAppend`, `ReceiptIffVerified` and `TrailMatchesStatus` over crashes and retries, `OneHolder` for the lease, `AppendIsMarked`, `AppendsBounded` and `OneReceiptPerEmail` without it; `HistoryHasNoGap` for the cursor, `AnalyzedOnce` and `SucceededMeansAnalyzed` for the attempt markers. `OutcomeIsTrue` relates what a page shows to the job of its last submit, `VerdictIsExact` the two passes to those rules of the prompt that are causes of refusal (`Sound`; that a due date is no date of an event, that guidance quotes its resource and what an item of a plan may say are in the prompt too, but an answer that breaks them is cut down, or kept, and not refused), `NothingIsDropped`, `StoredIsBacked`, `TaskShowsItsFacts` and `AdviceIsBacked` what is stored to the answer and the email, `StoresWhatHolds` and `AnalysisIsKept` the stored analysis to edits and failures during the request and to what the session held from before it. `OneUserPerSubject` relates sign-ins that are far apart, `MailIsItsHolders` and `MailMovesWhole` the users, credentials and mail that several transactions change, `FormActsForItsReader` an open page to the cookie of its browser. `KeepsPromise` is the refinement: each step of the detailed system is one of `ActionPromise` or leaves it as it is.

## What the runs found

1. `overrun_twice`: `execute_table_plan` tests `append_attempted_at` on its loaded copy, and nothing renews the lease of an execution. Two workers past a lease both append.
2. `cancelled`: an execution requeued after an uncertain append is `queued`, can be cancelled, and is recorded as cancelled before the tool ran.
3. `sync_missed`: after a full import the cursor is the profile's history id, read last. A message that arrived after its page was listed is before the cursor and is never imported.
4. `sync_overrun`: the requeue of a long import writes `queued` over whatever the row is, also over a job another worker finished.
5. `unquoted`: `validate_evidence` looks for the quote of a guidance with `content.find`, which finds the empty string in every resource. Facts with an empty quote are refused, guidance is not.

The first and the fourth need a worker that outlasts its lease.

Three more behaviours are in the models, and the properties are stated around them, since no document denies them: an account that was given another's address is bound to that account's user (`Access`), the demo user's mail goes to the first of its accounts that signs in (`Access`), and the second email of a batch is judged with resources the session read for the first (`EmailAnalysis`).

## Proofs

`TypeCorrect` (`TableActionProofs`): `Spec => []TypeOK`, one lemma per group of actions.

`TableSafety` rests on two inductive invariants.

* `MarkInv`: a worker at work on a loaded table action works on an approved row; a worker about to append has its marker committed; and an append was issued only on a marked, approved row. It needs no assumption about leases, and `WritesAreMarked` (`Spec => []AppendIsMarked`) follows. `AppendIsMarked` alone is not inductive: it says nothing about the worker that is about to append.
* `LeaseInv`: a row a worker holds is running with a lease that is held, or deleted (`HeldInv`); two holders are one (`OneHolder`); what a checking worker loaded of the marker is what the row has, and a worker about to append follows no append (`FreshInv`); and `AtMostOneAppend`. With `MayOverrun = FALSE`, `LeaseIsLock` (`[]OneHolder`) and `AppendsOnce` (`[]AtMostOneAppend`) follow.

`TableReceipts` proves four more of the properties.

* `OneReceipt` (`[]OneReceiptPerEmail`), without the lease: a receipt keeps its row from being deleted, and a later action of the email is only prepared when the rows of the older ones are deleted (`ChainInv`). The property alone is not inductive: it does not say that the older rows stay deleted.
* `ReceiptsTellTruth` (`[]ReceiptIffVerified`) and `TrailTellsTruth` (`[]TrailMatchesStatus`) with the lease: `AgreeInv` says that the newest event and the receipt of a row go with its status, and needs only that a held row is running (`HeldInv`); `FoundInv` and `BackedInv`, that whatever was found, read back or recorded goes back to an append. `Moves` lists what a step may do to one action, so that each step is gone through once for all the actions.
* `PromiseKept` (`Spec => KeepsPromise`) with the lease: the refinement of `ActionPromise`, where the phase of an action is that of its status, consent is `approved`, and it is written when an append was issued. The initial state maps to the initial state (`PromiseIs`), and there is one lemma per group of steps (`PromiseWeb`, `PromiseReanalyze`, `PromiseEnds`, `PromiseAppend`, `PromiseWorker`): a step leaves the phases as they are (`PromiseQuiet`), takes one action to another phase (`PromiseTurn`), or is one of the steps that ask or write. Which of them, the other invariants say: `MarkInv`, that an append has its consent; `HeldInv`, that a row whose worker reports an outcome is still running; `FoundInv`, that what is reported as verified is written; `ChainInv`, that a new action comes after the older ones; `AgreeInv`, that a re-analysis removes no receipt. `PlainInv`, that only the demo tool ends as succeeded, is its own.

`TableBound` proves `LimitBoundsAppends` (`[]AppendsBounded`), without the lease, for finitely many workers. Its invariant counts: the appends of an action, the workers that loaded it and may still append, and a claim that is not loaded yet, are together at most the attempts that were counted, and no worker goes on with an action whose attempts are beyond the limit.

`GmailSyncProofs` proves the five invariants of `GmailSync`.

* `SyncTypes` (`[]TypeOK`) needs nothing about leases.
* `LeaseInv`, with `MayOverrun = FALSE`: two workers never have one job, the job of a worker is running under a held lease unless it was deleted, and a job has the unique slot exactly while it waits or runs. `OneJobAtATime` (`[]OneActiveJob`) is one of its parts, which alone would not survive a requeue by a worker that lost the job.
* `MarkInv`, on top of it, gives `AskedOnce` (`[]AnalyzedOnce`). `CallsInv` counts: an email was sent to the model once if it has its attempt marker and never otherwise. `PickedWaits` says that what a worker selected has no marker when it comes to commit them, which needs the lease: the select and the commit are two steps, the commit is unconditional, and two workers that hold one job would both select an email and both ask about it. At most one call, alone, does not say which emails are still free.
* `CopyInv`, on top of it: a worker whose job is still there is the only one that writes the job and the credential, so its copies are what is committed, and `Flush` writes back what it says. `ReadInv`, that a worker past a page that counted no unread email has none, gives `SuccessIsRead` (`[]SucceededMeansAnalyzed`).
* `GapInv`: a waiting job in history mode that had no failure has imported everything up to its page token (`JobReads`), and its worker holds in its page what it still owes of the listing (`PageReads`). With them the cursor moves only over what was imported: `CursorCoversHistory` (`[]HistoryHasNoGap`). The property alone says nothing of a job half way through its pages, in whichever worker and after whichever crash it goes on.

`AccessProofs` proves all five invariants of `Access`. Three rest on `OwnInv`: users of different rows differ in address and in account (`Distinct`), a user with an account has one of its addresses and the demo user has all its credentials or none of its mail (`Consistent`), whoever signed in keeps the account, and accounts and mail are with their holders. "The account" is read through `Class`, which tells the accounts with addresses of their own apart and takes the others for one: passing an address on only makes `Class` coarser (`ClassBlurs`), and no other step changes it (`ClassStays`), so one invariant serves before and after a pass. `OwnInv` is inductive only next to `AskInv`, which says the same of the snapshot a request works with, and how the tables may have moved since the snapshot (`Follows`): a user stays, an account is not replaced by one of another class, an address changes only within its class. `OneUser` (`[]OneUserPerSubject`), `HoldersMail` (`[]MailIsItsHolders`) and `MovesWhole` (`[]MailMovesWhole`) follow. `LeftInv`, that a session which was signed out or replaced is over for good, gives `FormsActForTheirReader`.

`SyncPanelProofs`: `PanelTypes` (`[]TypeOK`), and from `ChainInv`, that a panel waits for exactly one thing while it is busy and for none otherwise, and that its button is disabled exactly then, `OneChainAlways` and `NeverStuckAlways`. Neither property is inductive alone: a busy panel that waits for nothing could be called back twice after a submit, and a resting one with a timer left would poll. `TruthInv` gives `OutcomeIsTrueAlways` (`[]OutcomeIsTrue`): the address of a panel, its poll and what the poll saw are all of the job it asked for, a job that an answer names exists, and one that is over stays over.

`EmailAnalysisProofs` proves all eight properties of `EmailAnalysis` that its passing run checks, for an email, resources and answers of any size. What the operators of `Evidence` compute comes first.

* `PickedIn` and `PickedAll`: `Picked` gives the elements of the set and no others, and a list of such elements as it is. The library's induction takes an operator, so the induction is over a set: the least element outside of it (`LeastNat`, `UpTo`, from `WFMin`). `SelectSeq` of the standard modules takes an operator, which the provers cannot expand: this is why `Picked` is a recursive function.
* `CanonicalFacts` and `FirstPassIsSound`: the facts of a result are those of the answer, each with the first place of its quote, and the first pass lets through exactly the answers that follow the rules (`Sound`).
* `CleanedStands`: what the second pass leaves has the facts and tasks it should (`Stands`), and its guidance quotes the resources (`Quoted`). `CleanedTwice`: a result that stands is left as it is, so a validation with the same resources changes nothing. `FirstPassSuffices`: the second pass, which works on ids, refuses nothing of what the first let through. `VerdictOf` puts them together.

The inductive invariant is `AnalysisInv`: a run in each stage holds what it should, the texts the worker's session holds are of libraries there were since the request (`HeldInv`), an answer under judgement is one the model may give, and what was found or stored stands. From it follow `AnalysisTypes` (`[]TypeOK`), `BackedAlways` (`[]StoredIsBacked`), `TaskShowsAlways` (`[]TaskShowsItsFacts`), `AdviceAlways` (`[]AdviceIsBacked`), `VerdictAlways` (`VerdictIsExact`), `DropsNothing` (`NothingIsDropped`) and `StoresAlways` (`StoresWhatHolds`: what the worker stores quotes enabled resources with a text they had since it asked, and with nothing held their text of now); `AnalysisKept` (`AnalysisIsKept`) needs no invariant. The properties of the stored analysis are not inductive, since they say nothing of the result that waits to be stored.

The assumption on `Answers` is what the parser guarantees, and that on `Fallbacks` what the classes of the prepared results are: they have the types of the schemas (`Parsed`, `Shaped`), and any rule may be broken. `"none"` is not a value.

The theorems hold for any sets of actions, workers, requests, rows, pages, messages, quotes, answers, users, sessions and addresses and any limits that satisfy the assumptions the modules name; those that need `MayOverrun = FALSE` say so, those of `Access` speak of accounts whose addresses stayed theirs, and the runs `overrun_twice` and `sync_overrun` show that `AppendsOnce` and `OneJobAtATime` fail without it. Every property of a passing run is proved but the three on liveness, `ApprovedSettles`, `JobsEnd` and `ComesToRest`: they rest on fairness and ENABLED, which are out of the prover's reach, and stay with TLC. The counterexamples of the other runs are TLC's.

## Not modelled

The text of a message or a plan, hashes and tokens (a wrong one changes nothing), the values of a row, retries inside one Gmail request, several accounts of a user, timings, pages and their wording, the completion of tasks (one column that nothing else reads), migrations, MCP queries, the scoring of the relevance of resources, the prompt and the list of missing information.

## Plan

1. Done: `TableAction` with its promise, its runs and its theorems; `GmailSync` with its runs; `SyncPanel`, `EmailAnalysis` over `Evidence`, and `Access`, with their runs and theorems.
2. Done: the invariants and action properties of all five specifications, and the refinement of `ActionPromise`.
3. Left: which of the theorems on `GmailSync` hold in part when a worker outlasts its lease, as `AppendsBounded` says for appends; a promise of the import, in the way of `ActionPromise`.
