------------------------------ MODULE SyncPanel ------------------------------
(***************************************************************************)
(* The progress panel of a page (app/static/sync.js) next to the jobs it   *)
(* watches: a submit asks the server for a sync, a chain of polls follows  *)
(* the job, and three failures in a row make the panel give up.  A script  *)
(* runs to its next await without interruption, so a step is what happens  *)
(* between two awaits or a timer.                                          *)
(***************************************************************************)
EXTENDS Integers

CONSTANTS
    Panels,       \* pages of one user that show the panel
    MaxJobs,      \* bound: sync jobs
    MaxFailures   \* failures in a row before the panel gives up

ASSUME PanelAssumption == MaxJobs \in Nat /\ MaxFailures \in Nat \ {0}

Jobs  == 1..MaxJobs
NoJob == 0

VARIABLES
    job,     \* gmail_sync_jobs, as the status route sees it
    panel,   \* the variables of mount() and of the panel's elements
    timers,  \* timeouts a panel has set
    poll,    \* its status request in flight
    post,    \* its submit in flight
    asked    \* history: the job of its last mount or answered submit

vars == <<job, panel, timers, poll, post, asked>>

JobStates == {"absent", "active", "ended", "gone"}

PanelStates == [busy : BOOLEAN, failures : 0..MaxFailures,
                url : Jobs \cup {NoJob},           \* data-status-url
                off : BOOLEAN,                     \* the button is disabled
                shown : {"rest", "checking", "reconnecting", "gaveup",
                         "outcome"}]

(* An answer carries what the server saw when it looked.                   *)
Requests == [state : {"none", "sent", "good", "bad"},
             job : Jobs \cup {NoJob}, active : BOOLEAN]
NoRequest == [state |-> "none", job |-> NoJob, active |-> FALSE]

Sent(j) == [state |-> "sent", job |-> j, active |-> FALSE]

TypeOK ==
    /\ job \in [Jobs -> JobStates]
    /\ panel \in [Panels -> PanelStates]
    /\ timers \in [Panels -> Nat]
    /\ poll \in [Panels -> Requests]
    /\ post \in [Panels -> Requests]
    /\ asked \in [Panels -> Jobs \cup {NoJob}]

SetPanel(p, state) == panel' = [panel EXCEPT ![p] = state]
Active == {j \in Jobs : job[j] = "active"}

(* The page as the server rendered it from the latest job j, then mounted. *)
Mounted(j, active) ==
    [busy |-> active, failures |-> 0, url |-> j, off |-> active,
     shown |-> IF active THEN "checking"
               ELSE IF j = NoJob THEN "rest" ELSE "outcome"]

Latest(j) ==
    IF j = NoJob THEN \A i \in Jobs : job[i] \in {"absent", "gone"}
    ELSE /\ job[j] \in {"active", "ended"}
         /\ \A i \in Jobs : job[i] \in {"active", "ended"} => i <= j

Init ==
    /\ job = [j \in Jobs |-> "absent"]
    /\ panel = [p \in Panels |-> Mounted(NoJob, FALSE)]
    /\ timers = [p \in Panels |-> 0]
    /\ poll = [p \in Panels |-> NoRequest]
    /\ post = [p \in Panels |-> NoRequest]
    /\ asked = [p \in Panels |-> NoJob]

(* The page is loaded, perhaps again; what was under way is dropped.       *)
Mount(p, j) ==
    LET active == j # NoJob /\ job[j] = "active" IN
    /\ Latest(j)
    /\ SetPanel(p, Mounted(j, active))
    /\ timers' = [timers EXCEPT ![p] = IF active THEN 1 ELSE 0]
    /\ poll' = [poll EXCEPT ![p] = NoRequest]
    /\ post' = [post EXCEPT ![p] = NoRequest]
    /\ asked' = [asked EXCEPT ![p] = j]
    /\ UNCHANGED job

(* Fault: the panel stays busy.                                            *)
GivenUpBusy(state) == [state EXCEPT !.off = FALSE, !.shown = "gaveup"]

(* failed()                                                                *)
GivenUp(state) == [state EXCEPT !.busy = FALSE, !.off = FALSE,
                                !.shown = "gaveup"]

(* Fault: the button stays as it is.                                       *)
RenderedStill(state, active) ==
    [state EXCEPT !.busy = active,
                  !.shown = IF active THEN "checking" ELSE "outcome"]

(* render(job)                                                             *)
Rendered(state, active) ==
    [state EXCEPT !.busy = active, !.off = active,
                  !.shown = IF active THEN "checking" ELSE "outcome"]

-----------------------------------------------------------------------------
(* Submit.                                                                 *)

(* Fault: a second click is not suppressed.                                *)
SubmitAgain(p) ==
    /\ SetPanel(p, [panel[p] EXCEPT !.busy = TRUE, !.failures = 0,
                                    !.off = TRUE, !.shown = "checking"])
    /\ post' = [post EXCEPT ![p] = Sent(NoJob)]
    /\ UNCHANGED <<job, timers, poll, asked>>

Submit(p) ==
    /\ ~panel[p].busy
    /\ SetPanel(p, [panel[p] EXCEPT !.busy = TRUE, !.failures = 0,
                                    !.off = TRUE, !.shown = "checking"])
    /\ post' = [post EXCEPT ![p] = Sent(NoJob)]
    /\ UNCHANGED <<job, timers, poll, asked>>

(* The sync route answers with the active job, or with a new one; either   *)
(* way the answer may get lost, and the route may refuse.                  *)
ServePost(p) ==
    /\ post[p].state = "sent"
    /\ \E j \in Jobs :
         /\ \/ j \in Active /\ UNCHANGED job
            \/ /\ Active = {} /\ job[j] = "absent"
               /\ \A i \in Jobs : i < j => job[i] # "absent"
               /\ job' = [job EXCEPT ![j] = "active"]
         /\ \E state \in {"good", "bad"} :
              post' = [post EXCEPT ![p] = [state |-> state, job |-> j,
                                           active |-> TRUE]]
    /\ UNCHANGED <<panel, timers, poll, asked>>

LosePost(p) ==
    /\ post[p].state = "sent"
    /\ post' = [post EXCEPT ![p].state = "bad"]
    /\ UNCHANGED <<job, panel, timers, poll, asked>>

(* Fault: the panel keeps the address of the job it watched before.        *)
EndSubmitOldUrl(p) ==
    /\ \/ /\ post[p].state = "good"
          /\ SetPanel(p, Rendered(panel[p], post[p].active))
          /\ timers' = [timers EXCEPT ![p] =
                          IF post[p].active THEN @ + 1 ELSE @]
          /\ asked' = [asked EXCEPT ![p] = post[p].job]
       \/ /\ post[p].state = "bad"
          /\ SetPanel(p, GivenUp(panel[p]))
          /\ UNCHANGED <<timers, asked>>
    /\ post' = [post EXCEPT ![p] = NoRequest]
    /\ UNCHANGED <<job, poll>>

(* The rest of the submit handler.  An answer that render refuses has      *)
(* replaced the address already.                                           *)
EndSubmit(p) ==
    /\ \/ /\ post[p].state = "good"
          /\ SetPanel(p, [Rendered(panel[p], post[p].active) EXCEPT
                            !.url = post[p].job])
          /\ timers' = [timers EXCEPT ![p] =
                          IF post[p].active THEN @ + 1 ELSE @]
          /\ asked' = [asked EXCEPT ![p] = post[p].job]
       \/ /\ post[p].state = "bad"
          /\ SetPanel(p, GivenUp(panel[p]))
          /\ UNCHANGED <<timers, asked>>
       \/ /\ post[p].state = "bad" /\ post[p].job # NoJob
          /\ SetPanel(p, [GivenUp(panel[p]) EXCEPT !.url = post[p].job])
          /\ asked' = [asked EXCEPT ![p] = post[p].job]
          /\ UNCHANGED timers
    /\ post' = [post EXCEPT ![p] = NoRequest]
    /\ UNCHANGED <<job, poll>>

-----------------------------------------------------------------------------
(* Poll.                                                                   *)

Fire(p) ==
    /\ timers[p] > 0
    /\ timers' = [timers EXCEPT ![p] = @ - 1]
    /\ poll' = IF poll[p].state = "none" /\ panel[p].busy
                 THEN [poll EXCEPT ![p] = Sent(panel[p].url)] ELSE poll
    /\ UNCHANGED <<job, panel, post, asked>>

(* The status route: it knows no job that was deleted with its account.    *)
ServePoll(p) ==
    LET j == poll[p].job IN
    /\ poll[p].state = "sent"
    /\ poll' = [poll EXCEPT ![p] =
                  IF j \in Jobs /\ job[j] # "gone"
                    THEN [state |-> "good", job |-> j,
                          active |-> (job[j] = "active")]
                    ELSE [state |-> "bad", job |-> j, active |-> FALSE]]
    /\ UNCHANGED <<job, panel, timers, post, asked>>

LosePoll(p) ==
    /\ poll[p].state \in {"sent", "good"}
    /\ poll' = [poll EXCEPT ![p].state = "bad"]
    /\ UNCHANGED <<job, panel, timers, post, asked>>

(* Fault: failures are counted for ever.                                   *)
FailedForever(state) ==
    [state EXCEPT !.failures = @ + 1, !.shown = "reconnecting"]

(* What one more failure makes of the panel.                               *)
Failed(state) ==
    IF state.failures + 1 >= MaxFailures
    THEN GivenUp([state EXCEPT !.failures = MaxFailures])
    ELSE [state EXCEPT !.failures = @ + 1, !.shown = "reconnecting"]

(* The rest of poll(): the next one is set while the panel is busy.        *)
EndPoll(p) ==
    LET after == IF poll[p].state = "good"
                   THEN [Rendered(panel[p], poll[p].active) EXCEPT
                           !.failures = 0]
                   ELSE Failed(panel[p])
    IN
    /\ poll[p].state \in {"good", "bad"}
    /\ SetPanel(p, after)
    /\ poll' = [poll EXCEPT ![p] = NoRequest]
    /\ timers' = [timers EXCEPT ![p] = IF after.busy THEN @ + 1 ELSE @]
    /\ UNCHANGED <<job, post, asked>>

-----------------------------------------------------------------------------
(* The sync worker ends a job; the account is disconnected.                *)

EndJob(j) ==
    /\ job[j] = "active"
    /\ job' = [job EXCEPT ![j] = "ended"]
    /\ UNCHANGED <<panel, timers, poll, post, asked>>

RemoveJobs ==
    /\ \E j \in Jobs : job[j] \in {"active", "ended"}
    /\ job' = [j \in Jobs |-> IF job[j] = "absent" THEN "absent" ELSE "gone"]
    /\ UNCHANGED <<panel, timers, poll, post, asked>>

Script(p) == Fire(p) \/ EndSubmit(p) \/ EndPoll(p)

Network(p) == ServePost(p) \/ LosePost(p) \/ ServePoll(p) \/ LosePoll(p)

Next ==
    \/ \E p \in Panels : \/ Submit(p) \/ Script(p) \/ Network(p)
                         \/ \E j \in Jobs \cup {NoJob} : Mount(p, j)
    \/ \E j \in Jobs : EndJob(j)
    \/ RemoveJobs

Spec == Init /\ [][Next]_vars

(* Timers fire, a request is answered or fails, and jobs end.              *)
FairSpec ==
    /\ Spec
    /\ \A p \in Panels : WF_vars(Script(p)) /\ WF_vars(Network(p))
    /\ \A j \in Jobs : WF_vars(EndJob(j))

-----------------------------------------------------------------------------
(* Properties.                                                             *)

InFlight(request) == IF request.state = "none" THEN 0 ELSE 1

Waiting(p) == timers[p] + InFlight(poll[p]) + InFlight(post[p])

(* "One request at a time": a submit never adds a second chain of polls.   *)
OneChain == \A p \in Panels : Waiting(p) <= 1

(* A panel that is busy, or whose button is disabled, waits for something  *)
(* that will call it back.                                                 *)
NeverStuck ==
    \A p \in Panels : panel[p].busy \/ panel[p].off => Waiting(p) > 0

(* A page that shows an outcome is not waiting for another one: the job    *)
(* its last submit was answered with is over.                              *)
OutcomeIsTrue ==
    \A p \in Panels :
        panel[p].shown = "outcome" => job[asked[p]] \in {"ended", "gone"}

(* A busy panel comes to rest: the job ended or the panel gave up.         *)
ComesToRest == \A p \in Panels : panel[p].busy ~> ~panel[p].busy
=============================================================================
