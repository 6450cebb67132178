--------------------------- MODULE SyncPanelProofs ---------------------------
(***************************************************************************)
(* For any number of panels and jobs: SyncPanel is well typed, a panel has *)
(* at most one request or timer under way, it is never left waiting for    *)
(* nothing, and an outcome it shows is that of the job it was asked for.   *)
(***************************************************************************)
EXTENDS SyncPanel, TLAPS

(* What OneChain and NeverStuck lack to be inductive: a panel waits for    *)
(* one thing exactly as long as it is busy.                                *)
Chain(p) ==
    /\ Waiting(p) = IF panel[p].busy THEN 1 ELSE 0
    /\ panel[p].off = panel[p].busy

ChainInv == \A p \in Panels : Chain(p)

-----------------------------------------------------------------------------
LEMMA GivenUpType ==
    ASSUME NEW state \in PanelStates
    PROVE  /\ GivenUp(state) \in PanelStates
           /\ GivenUp(state).busy = FALSE
           /\ GivenUp(state).off = FALSE
BY DEF PanelStates, GivenUp

LEMMA RenderedType ==
    ASSUME NEW state \in PanelStates, NEW active \in BOOLEAN
    PROVE  /\ Rendered(state, active) \in PanelStates
           /\ Rendered(state, active).busy = active
           /\ Rendered(state, active).off = active
BY DEF PanelStates, Rendered

LEMMA FailedType ==
    ASSUME NEW state \in PanelStates
    PROVE  /\ Failed(state) \in PanelStates
           /\ \/ Failed(state).busy = FALSE /\ Failed(state).off = FALSE
              \/ /\ Failed(state).busy = state.busy
                 /\ Failed(state).off = state.off
<1>1. CASE state.failures + 1 >= MaxFailures
  <2>1. [state EXCEPT !.failures = MaxFailures] \in PanelStates
    BY PanelAssumption DEF PanelStates
  <2>. QED  BY <1>1, <2>1, GivenUpType DEF Failed
<1>2. CASE ~(state.failures + 1 >= MaxFailures)
  <2>1. state.failures + 1 \in 0..MaxFailures
    BY <1>2, PanelAssumption DEF PanelStates
  <2>2. Failed(state) = [state EXCEPT !.failures = state.failures + 1,
                                      !.shown = "reconnecting"]
    BY <1>2 DEF Failed
  <2>. QED  BY <2>1, <2>2 DEF PanelStates
<1>. QED  BY <1>1, <1>2

LEMMA MountedType ==
    ASSUME NEW j \in Jobs \cup {NoJob}, NEW active \in BOOLEAN
    PROVE  /\ Mounted(j, active) \in PanelStates
           /\ Mounted(j, active).busy = active
           /\ Mounted(j, active).off = active
BY PanelAssumption DEF PanelStates, Mounted

LEMMA RequestTypes ==
    /\ NoRequest \in Requests
    /\ NoRequest.state = "none"
    /\ \A j \in Jobs \cup {NoJob} : Sent(j) \in Requests /\ Sent(j).state = "sent"
BY DEF Requests, NoRequest, Sent

LEMMA SubmittedType ==
    ASSUME NEW state \in PanelStates
    PROVE  LET next == [state EXCEPT !.busy = TRUE, !.failures = 0,
                                     !.off = TRUE, !.shown = "checking"]
           IN /\ next \in PanelStates
              /\ next.busy = TRUE
              /\ next.off = TRUE
<1>1. 0 \in 0..MaxFailures  BY PanelAssumption
<1>. QED  BY <1>1 DEF PanelStates

-----------------------------------------------------------------------------
(* Every reachable state of the panels and the jobs is well typed.         *)
THEOREM PanelTypes == Spec => []TypeOK
<1>1. Init => TypeOK
  <2>1. Mounted(NoJob, FALSE) \in PanelStates  BY MountedType
  <2>2. Init => /\ job \in [Jobs -> JobStates]
                /\ timers \in [Panels -> Nat]
                /\ asked \in [Panels -> Jobs \cup {NoJob}]
    BY DEF Init, JobStates
  <2>3. Init => panel \in [Panels -> PanelStates]  BY <2>1 DEF Init
  <2>4. Init => poll \in [Panels -> Requests] /\ post \in [Panels -> Requests]
    BY RequestTypes DEF Init
  <2>. QED  BY <2>2, <2>3, <2>4 DEF TypeOK
<1>2. ASSUME TypeOK, [Next]_vars PROVE TypeOK'
  <2>. USE <1>2 DEF TypeOK
  <2>1. ASSUME NEW p \in Panels, NEW j \in Jobs \cup {NoJob}, Mount(p, j)
        PROVE  TypeOK'
    <3>. DEFINE active == j # NoJob /\ job[j] = "active"
    <3>1. active \in BOOLEAN  OBVIOUS
    <3>. HIDE DEF active
    <3>2. Mounted(j, active) \in PanelStates  BY <3>1, MountedType
    <3>3. panel' = [panel EXCEPT ![p] = Mounted(j, active)]
      BY <2>1 DEF Mount, SetPanel, active
    <3>. QED  BY <2>1, <3>2, <3>3, RequestTypes DEF Mount
  <2>2. ASSUME NEW p \in Panels, Submit(p) PROVE TypeOK'
    <3>. DEFINE next == [panel[p] EXCEPT !.busy = TRUE, !.failures = 0,
                                         !.off = TRUE, !.shown = "checking"]
    <3>0. panel[p] \in PanelStates  OBVIOUS
    <3>1. next \in PanelStates  BY <3>0, SubmittedType
    <3>2. Sent(NoJob) \in Requests  BY RequestTypes
    <3>3. panel' = [panel EXCEPT ![p] = next]
      BY <2>2 DEF Submit, SetPanel
    <3>. HIDE DEF next
    <3>. QED  BY <2>2, <3>1, <3>2, <3>3 DEF Submit
  <2>3. ASSUME NEW p \in Panels, ServePost(p) PROVE TypeOK'
    <3>1. \A j \in Jobs, s \in {"good", "bad"} :
             [state |-> s, job |-> j, active |-> TRUE] \in Requests
      BY DEF Requests
    <3>2. PICK j \in Jobs :
             /\ UNCHANGED job \/ job' = [job EXCEPT ![j] = "active"]
             /\ \E s \in {"good", "bad"} :
                  post' = [post EXCEPT ![p] = [state |-> s, job |-> j,
                                               active |-> TRUE]]
      BY <2>3 DEF ServePost
    <3>. PICK s \in {"good", "bad"} :
           post' = [post EXCEPT ![p] = [state |-> s, job |-> j, active |-> TRUE]]
      BY <3>2
    <3>5. [state |-> s, job |-> j, active |-> TRUE] \in Requests  BY <3>1
    <3>3. post' \in [Panels -> Requests]  BY <3>5
    <3>4. job' \in [Jobs -> JobStates]  BY <3>2 DEF JobStates
    <3>. QED  BY <2>3, <3>3, <3>4 DEF ServePost
  <2>4. ASSUME NEW p \in Panels, LosePost(p) PROVE TypeOK'
    BY <2>4 DEF LosePost, Requests
  <2>5. ASSUME NEW p \in Panels, EndSubmit(p) PROVE TypeOK'
    <3>1. CASE post[p].state = "good"
      <4>1. post[p].active \in BOOLEAN /\ post[p].job \in Jobs \cup {NoJob}
        BY DEF Requests
      <4>2. Rendered(panel[p], post[p].active) \in PanelStates
        BY <4>1, RenderedType
      <4>3. [Rendered(panel[p], post[p].active) EXCEPT !.url = post[p].job]
              \in PanelStates
        BY <4>1, <4>2 DEF PanelStates
      <4>. QED  BY <2>5, <3>1, <4>1, <4>3, RequestTypes DEF EndSubmit, SetPanel
    <3>2. CASE post[p].state = "bad"
      <4>1. GivenUp(panel[p]) \in PanelStates  BY GivenUpType
      <4>2. post[p].job \in Jobs \cup {NoJob}  BY DEF Requests
      <4>3. [GivenUp(panel[p]) EXCEPT !.url = post[p].job] \in PanelStates
        BY <4>1, <4>2 DEF PanelStates
      <4>. QED  BY <2>5, <3>2, <4>1, <4>2, <4>3, RequestTypes
                DEF EndSubmit, SetPanel
    <3>. QED  BY <2>5, <3>1, <3>2 DEF EndSubmit
  <2>6. ASSUME NEW p \in Panels, Fire(p) PROVE TypeOK'
    <3>1. Sent(panel[p].url) \in Requests  BY RequestTypes DEF PanelStates
    <3>. QED  BY <2>6, <3>1 DEF Fire
  <2>7. ASSUME NEW p \in Panels, ServePoll(p) PROVE TypeOK'
    <3>1. \A j \in Jobs \cup {NoJob}, s \in {"good", "bad"}, b \in BOOLEAN :
             [state |-> s, job |-> j, active |-> b] \in Requests
      BY DEF Requests
    <3>2. poll[p].job \in Jobs \cup {NoJob}  BY DEF Requests
    <3>. QED  BY <2>7, <3>1, <3>2 DEF ServePoll
  <2>8. ASSUME NEW p \in Panels, LosePoll(p) PROVE TypeOK'
    BY <2>8 DEF LosePoll, Requests
  <2>9. ASSUME NEW p \in Panels, EndPoll(p) PROVE TypeOK'
    <3>1. poll[p].active \in BOOLEAN  BY DEF Requests
    <3>2. Rendered(panel[p], poll[p].active) \in PanelStates
      BY <3>1, RenderedType
    <3>3. [Rendered(panel[p], poll[p].active) EXCEPT !.failures = 0]
            \in PanelStates
      BY <3>2, PanelAssumption DEF PanelStates
    <3>4. Failed(panel[p]) \in PanelStates  BY FailedType
    <3>. QED  BY <2>9, <3>3, <3>4, RequestTypes DEF EndPoll, SetPanel
  <2>10. ASSUME NEW j \in Jobs, EndJob(j) PROVE TypeOK'
    BY <2>10 DEF EndJob, JobStates
  <2>11. CASE RemoveJobs
    BY <2>11 DEF RemoveJobs, JobStates
  <2>12. CASE UNCHANGED vars
    BY <2>12 DEF vars
  <2>. QED  BY <2>1, <2>2, <2>3, <2>4, <2>5, <2>6, <2>7, <2>8, <2>9, <2>10,
               <2>11, <2>12 DEF Next, Script, Network
<1>. QED  BY <1>1, <1>2, PTL DEF Spec

-----------------------------------------------------------------------------
LEMMA Summands ==
    ASSUME TypeOK, NEW p \in Panels
    PROVE  /\ panel[p] \in PanelStates
           /\ panel[p].busy \in BOOLEAN /\ panel[p].off \in BOOLEAN
           /\ timers[p] \in Nat
           /\ InFlight(poll[p]) \in {0, 1}
           /\ InFlight(post[p]) \in {0, 1}
           /\ poll[p].active \in BOOLEAN /\ post[p].active \in BOOLEAN
BY DEF TypeOK, PanelStates, Requests, InFlight

(* A step that leaves alone what a panel waits for leaves its chain alone. *)
LEMMA ChainFrame ==
    ASSUME NEW p \in Panels, Chain(p),
           panel'[p] = panel[p], timers'[p] = timers[p],
           poll'[p] = poll[p], post'[p] = post[p]
    PROVE  Chain(p)'
BY DEF Chain, Waiting, InFlight

LEMMA ChainStep ==
    ASSUME TypeOK, ChainInv, [Next]_vars
    PROVE  ChainInv'
<1>. SUFFICES ASSUME NEW q \in Panels PROVE Chain(q)'
  BY DEF ChainInv
<1>. DEFINE Alone(p) == /\ panel'[p] = panel[p] /\ timers'[p] = timers[p]
                        /\ poll'[p] = poll[p] /\ post'[p] = post[p]
<1>1. Chain(q)  BY DEF ChainInv
<1>2. Alone(q) => Chain(q)'  BY <1>1, ChainFrame
<1>3. ASSUME NEW p \in Panels, p # q,
             \/ Submit(p) \/ Script(p) \/ Network(p)
             \/ \E j \in Jobs \cup {NoJob} : Mount(p, j)
      PROVE  Alone(q)
  <2>1. CASE \E j \in Jobs \cup {NoJob} : Mount(p, j)
    BY <1>3, <2>1 DEF Mount, SetPanel, TypeOK
  <2>2. CASE Submit(p)
    BY <1>3, <2>2 DEF Submit, SetPanel, TypeOK
  <2>3. CASE Fire(p)
    BY <1>3, <2>3 DEF Fire, TypeOK
  <2>4. CASE EndSubmit(p)
    BY <1>3, <2>4 DEF EndSubmit, SetPanel, TypeOK
  <2>5. CASE EndPoll(p)
    BY <1>3, <2>5 DEF EndPoll, SetPanel, TypeOK
  <2>6. CASE ServePost(p)
    BY <1>3, <2>6 DEF ServePost, TypeOK
  <2>7. CASE LosePost(p) \/ ServePoll(p) \/ LosePoll(p)
    BY <1>3, <2>7 DEF LosePost, ServePoll, LosePoll, TypeOK
  <2>. QED  BY <1>3, <2>1, <2>2, <2>3, <2>4, <2>5, <2>6, <2>7
            DEF Script, Network
<1>4. panel[q] \in PanelStates  BY Summands
<1>5. ASSUME NEW j \in Jobs \cup {NoJob}, Mount(q, j) PROVE Chain(q)'
  <2>. DEFINE active == j # NoJob /\ job[j] = "active"
  <2>1. active \in BOOLEAN  OBVIOUS
  <2>2. /\ panel'[q] = Mounted(j, active)
        /\ timers'[q] = IF active THEN 1 ELSE 0
        /\ poll'[q] = NoRequest /\ post'[q] = NoRequest
    BY <1>5 DEF Mount, SetPanel, TypeOK
  <2>. HIDE DEF active
  <2>3. panel'[q].busy = active /\ panel'[q].off = active
    BY <2>1, <2>2, MountedType
  <2>. QED  BY <2>1, <2>2, <2>3 DEF Chain, Waiting, InFlight, NoRequest
<1>6. CASE Submit(q)
  <2>1. timers[q] = 0 /\ InFlight(poll[q]) = 0
    BY <1>1, <1>6, Summands DEF Submit, Chain, Waiting
  <2>2. panel'[q].busy = TRUE /\ panel'[q].off = TRUE
    BY <1>4, <1>6, SubmittedType DEF Submit, SetPanel, TypeOK
  <2>3. InFlight(post'[q]) = 1
    BY <1>6, RequestTypes DEF Submit, TypeOK, InFlight
  <2>4. timers'[q] = 0 /\ InFlight(poll'[q]) = 0
    BY <1>6, <2>1 DEF Submit
  <2>5. Waiting(q)' = 1  BY <2>3, <2>4 DEF Waiting
  <2>. QED  BY <2>2, <2>5 DEF Chain
<1>7. CASE ServePost(q) \/ LosePost(q)
  <2>1. post[q].state = "sent" /\ post'[q].state \in {"good", "bad"}
    <3>1. CASE ServePost(q)
      <4>. PICK j \in Jobs, s \in {"good", "bad"} :
             post' = [post EXCEPT ![q] = [state |-> s, job |-> j,
                                          active |-> TRUE]]
        BY <3>1 DEF ServePost
      <4>. QED  BY <3>1 DEF ServePost, TypeOK
    <3>2. CASE LosePost(q)
      BY <3>2 DEF LosePost, TypeOK, Requests
    <3>. QED  BY <1>7, <3>1, <3>2
  <2>2. /\ panel'[q] = panel[q] /\ timers'[q] = timers[q]
        /\ poll'[q] = poll[q]
    BY <1>7 DEF ServePost, LosePost
  <2>. QED  BY <1>1, <2>1, <2>2 DEF Chain, Waiting, InFlight
<1>8. CASE ServePoll(q) \/ LosePoll(q)
  <2>1. poll[q].state # "none" /\ poll'[q].state # "none"
    BY <1>8 DEF ServePoll, LosePoll, TypeOK, Requests
  <2>2. /\ panel'[q] = panel[q] /\ timers'[q] = timers[q]
        /\ post'[q] = post[q]
    BY <1>8 DEF ServePoll, LosePoll
  <2>. QED  BY <1>1, <2>1, <2>2 DEF Chain, Waiting, InFlight
<1>9. CASE Fire(q)
  <2>1. timers[q] = 1 /\ poll[q].state = "none" /\ InFlight(post[q]) = 0
        /\ panel[q].busy = TRUE /\ panel[q].off = TRUE
    BY <1>1, <1>9, Summands DEF Fire, Chain, Waiting, InFlight
  <2>2. timers'[q] = 0 /\ poll'[q].state = "sent"
    <3>1. panel[q].url \in Jobs \cup {NoJob}  BY <1>4 DEF PanelStates
    <3>2. Sent(panel[q].url).state = "sent"  BY <3>1, RequestTypes
    <3>. QED  BY <1>9, <2>1, <3>2 DEF Fire, TypeOK
  <2>3. panel'[q] = panel[q] /\ post'[q] = post[q]  BY <1>9 DEF Fire
  <2>4. InFlight(poll'[q]) = 1 /\ InFlight(post'[q]) = 0
    BY <2>1, <2>2, <2>3 DEF InFlight
  <2>5. Waiting(q)' = 1  BY <2>2, <2>4 DEF Waiting
  <2>. QED  BY <2>1, <2>3, <2>5 DEF Chain
<1>10. CASE EndSubmit(q)
  <2>1. timers[q] = 0 /\ InFlight(poll[q]) = 0
    BY <1>1, <1>10, Summands DEF EndSubmit, Chain, Waiting, InFlight
  <2>2. post'[q] = NoRequest /\ poll'[q] = poll[q]
    BY <1>10 DEF EndSubmit, TypeOK
  <2>3. panel'[q].busy = panel'[q].off
        /\ timers'[q] = IF panel'[q].busy THEN 1 ELSE 0
    <3>1. CASE post[q].state = "good"
      <4>. DEFINE next == Rendered(panel[q], post[q].active)
      <4>1. post[q].active \in BOOLEAN  BY Summands
      <4>2. /\ next \in PanelStates
            /\ next.busy = post[q].active /\ next.off = post[q].active
        BY <1>4, <4>1, RenderedType
      <4>3. /\ panel'[q] = [next EXCEPT !.url = post[q].job]
            /\ timers'[q] = IF post[q].active THEN 1 ELSE 0
        BY <1>10, <2>1, <3>1 DEF EndSubmit, SetPanel, TypeOK
      <4>. HIDE DEF next
      <4>4. panel'[q].busy = post[q].active /\ panel'[q].off = post[q].active
        BY <4>2, <4>3 DEF PanelStates
      <4>. QED  BY <4>3, <4>4
    <3>2. CASE post[q].state = "bad"
      <4>. DEFINE next == GivenUp(panel[q])
      <4>1. /\ timers'[q] = 0
            /\ \/ panel'[q] = next
               \/ panel'[q] = [next EXCEPT !.url = post[q].job]
        BY <1>10, <2>1, <3>2 DEF EndSubmit, SetPanel, TypeOK
      <4>2. next \in PanelStates /\ ~next.busy /\ ~next.off
        BY <1>4, GivenUpType
      <4>. HIDE DEF next
      <4>. QED  BY <4>1, <4>2 DEF PanelStates
    <3>. QED  BY <1>10, <3>1, <3>2 DEF EndSubmit
  <2>. QED  BY <2>1, <2>2, <2>3 DEF Chain, Waiting, InFlight, NoRequest
<1>11. CASE EndPoll(q)
  <2>1. /\ timers[q] = 0 /\ InFlight(post[q]) = 0
        /\ panel[q].busy /\ panel[q].off
    BY <1>1, <1>11, Summands DEF EndPoll, Chain, Waiting, InFlight
  <2>2. poll'[q] = NoRequest /\ post'[q] = post[q]
    BY <1>11 DEF EndPoll, TypeOK
  <2>3. panel'[q].busy = panel'[q].off
        /\ timers'[q] = IF panel'[q].busy THEN 1 ELSE 0
    <3>1. timers'[q] = IF panel'[q].busy THEN 1 ELSE 0
      BY <1>11, <2>1 DEF EndPoll, SetPanel, TypeOK
    <3>2. CASE poll[q].state = "good"
      <4>. DEFINE next == Rendered(panel[q], poll[q].active)
      <4>1. poll[q].active \in BOOLEAN  BY Summands
      <4>2. next \in PanelStates /\ next.busy = next.off
        BY <1>4, <4>1, RenderedType
      <4>3. panel'[q] = [next EXCEPT !.failures = 0]
        BY <1>11, <3>2 DEF EndPoll, SetPanel, TypeOK
      <4>. HIDE DEF next
      <4>. QED  BY <3>1, <4>2, <4>3 DEF PanelStates
    <3>3. CASE poll[q].state # "good"
      <4>1. panel'[q] = Failed(panel[q])
        BY <1>11, <3>3 DEF EndPoll, SetPanel, TypeOK
      <4>. QED  BY <1>4, <2>1, <3>1, <4>1, FailedType
    <3>. QED  BY <3>2, <3>3
  <2>. QED  BY <2>1, <2>2, <2>3 DEF Chain, Waiting, InFlight, NoRequest
<1>12. CASE (\E j \in Jobs : EndJob(j)) \/ RemoveJobs \/ UNCHANGED vars
  BY <1>2, <1>12 DEF EndJob, RemoveJobs, vars
<1>. HIDE DEF Alone
<1>. QED  BY <1>2, <1>3, <1>5, <1>6, <1>7, <1>8, <1>9, <1>10, <1>11, <1>12
          DEF Next, Script, Network

LEMMA ChainAlways == Spec => []ChainInv
<1>1. Init => ChainInv
  <2>1. Mounted(NoJob, FALSE).busy = FALSE /\ Mounted(NoJob, FALSE).off = FALSE
    BY MountedType
  <2>2. InFlight(NoRequest) = 0  BY RequestTypes DEF InFlight
  <2>. SUFFICES ASSUME Init, NEW p \in Panels PROVE Chain(p)
    BY DEF ChainInv
  <2>3. Waiting(p) = 0  BY <2>2 DEF Init, Waiting
  <2>4. panel[p].busy = FALSE /\ panel[p].off = FALSE  BY <2>1 DEF Init
  <2>. QED  BY <2>3, <2>4 DEF Chain
<1>. QED  BY <1>1, ChainStep, PanelTypes, PTL DEF Spec

(* A submit never adds a second chain of polls: at most one timeout or     *)
(* request is under way in a panel, however submits, answers and failures  *)
(* interleave.                                                             *)
THEOREM OneChainAlways == Spec => []OneChain
<1>1. ChainInv => OneChain
  <2>. SUFFICES ASSUME ChainInv, NEW p \in Panels PROVE Waiting(p) <= 1
    BY DEF OneChain
  <2>1. Waiting(p) = IF panel[p].busy THEN 1 ELSE 0  BY DEF ChainInv, Chain
  <2>2. Waiting(p) \in {0, 1}  BY <2>1
  <2>. HIDE DEF Waiting
  <2>. QED  BY <2>2
<1>. QED  BY <1>1, ChainAlways, PTL

(* A panel that is busy or disabled has something under way that will call *)
(* it back.                                                                *)
THEOREM NeverStuckAlways == Spec => []NeverStuck
<1>1. ChainInv => NeverStuck
  BY DEF ChainInv, Chain, NeverStuck
<1>. QED  BY <1>1, ChainAlways, PTL

-----------------------------------------------------------------------------
(* What an outcome on a page rests on: the address of the panel, its poll  *)
(* and what the poll saw are all of the job that was asked for, and a job  *)
(* that is over stays over.                                                *)
Over(j) == j \in Jobs /\ job[j] \in {"ended", "gone"}

Truth(p) ==
    /\ panel[p].url = asked[p]
    /\ asked[p] \in Jobs => job[asked[p]] # "absent"
    /\ poll[p].state # "none" => poll[p].job = asked[p]
    /\ poll[p].state = "good" /\ ~poll[p].active => Over(asked[p])
    /\ post[p].state = "good" => post[p].active /\ post[p].job \in Jobs
    /\ post[p].job \in Jobs => job[post[p].job] # "absent"
    /\ panel[p].shown = "outcome" => Over(asked[p])

TruthInv == \A p \in Panels : Truth(p)

LEMMA JobsMove ==
    ASSUME TypeOK, [Next]_vars, NEW j \in Jobs
    PROVE  /\ job[j] # "absent" => job'[j] # "absent"
           /\ Over(j) => Over(j)'
<1>1. CASE UNCHANGED job
  BY <1>1 DEF Over
<1>2. ASSUME NEW p \in Panels, ServePost(p), ~UNCHANGED job
      PROVE  \E i \in Jobs : /\ job[i] = "absent"
                             /\ job' = [job EXCEPT ![i] = "active"]
  BY <1>2 DEF ServePost
<1>3. ASSUME NEW i \in Jobs, job[i] = "absent",
             job' = [job EXCEPT ![i] = "active"]
      PROVE  /\ job[j] # "absent" => job'[j] # "absent"
             /\ Over(j) => Over(j)'
  BY <1>3 DEF Over, TypeOK
<1>4. ASSUME NEW i \in Jobs, EndJob(i)
      PROVE  /\ job[j] # "absent" => job'[j] # "absent"
             /\ Over(j) => Over(j)'
  BY <1>4 DEF EndJob, Over, TypeOK
<1>5. CASE RemoveJobs
  BY <1>5 DEF RemoveJobs, Over
<1>6. \/ UNCHANGED job \/ RemoveJobs
      \/ \E p \in Panels : ServePost(p)
      \/ \E i \in Jobs : EndJob(i)
  BY DEF Next, vars, Script, Network, Submit, Mount, Fire, EndSubmit, EndPoll,
     LosePost, ServePoll, LosePoll
<1>. QED  BY <1>1, <1>2, <1>3, <1>4, <1>5, <1>6

(* A step of another panel, or of a job, takes nothing back.               *)
LEMMA TruthFrame ==
    ASSUME TypeOK, [Next]_vars, NEW p \in Panels, Truth(p),
           panel'[p] = panel[p], poll'[p] = poll[p], post'[p] = post[p],
           asked'[p] = asked[p]
    PROVE  Truth(p)'
<1>1. /\ \A j \in Jobs : job[j] # "absent" => job'[j] # "absent"
      /\ \A j : Over(j) => Over(j)'
  BY JobsMove DEF Over
<1>. QED  BY <1>1 DEF Truth

LEMMA RenderedShows ==
    ASSUME NEW state \in PanelStates, NEW active \in BOOLEAN
    PROVE  /\ Rendered(state, active).url = state.url
           /\ Rendered(state, active).shown =
                IF active THEN "checking" ELSE "outcome"
           /\ GivenUp(state).url = state.url
           /\ GivenUp(state).shown = "gaveup"
           /\ Failed(state).url = state.url
           /\ Failed(state).shown # "outcome"
BY DEF PanelStates, Rendered, GivenUp, Failed

LEMMA TruthStep ==
    ASSUME TypeOK, ChainInv, TruthInv, [Next]_vars
    PROVE  TruthInv'
<1>. SUFFICES ASSUME NEW q \in Panels PROVE Truth(q)'
  BY DEF TruthInv
<1>. DEFINE Alone(p) == /\ panel'[p] = panel[p] /\ poll'[p] = poll[p]
                        /\ post'[p] = post[p] /\ asked'[p] = asked[p]
<1>1. Truth(q)  BY DEF TruthInv
<1>2. Alone(q) => Truth(q)'
  BY <1>1, TruthFrame
<1>3. /\ panel[q] \in PanelStates
      /\ panel[q].url \in Jobs \cup {NoJob}
      /\ poll[q] \in Requests /\ post[q] \in Requests
      /\ poll[q].active \in BOOLEAN
      /\ asked[q] \in Jobs \cup {NoJob} /\ post[q].job \in Jobs \cup {NoJob}
      /\ NoJob \notin Jobs
  BY PanelAssumption DEF TypeOK, PanelStates, Requests, Jobs, NoJob
<1>4. /\ \A j \in Jobs : job[j] # "absent" => job'[j] # "absent"
      /\ \A j : Over(j) => Over(j)'
  BY JobsMove DEF Over
<1>5. /\ post[q].state # "none" => poll[q].state = "none"
      /\ ~panel[q].busy => poll[q].state = "none"
  <2>1. Chain(q)
    BY DEF ChainInv
  <2>. QED  BY <2>1, Summands DEF Chain, Waiting, InFlight
<1>6. ASSUME NEW p \in Panels, p # q,
             \/ Submit(p) \/ Script(p) \/ Network(p)
             \/ \E j \in Jobs \cup {NoJob} : Mount(p, j)
      PROVE  Alone(q)
  <2>1. CASE \E j \in Jobs \cup {NoJob} : Mount(p, j)
    BY <1>6, <2>1 DEF Mount, SetPanel, TypeOK
  <2>2. CASE Submit(p) \/ Fire(p)
    BY <1>6, <2>2 DEF Submit, Fire, SetPanel, TypeOK
  <2>3. CASE EndSubmit(p) \/ EndPoll(p)
    BY <1>6, <2>3 DEF EndSubmit, EndPoll, SetPanel, TypeOK
  <2>4. CASE ServePost(p)
    BY <1>6, <2>4 DEF ServePost, TypeOK
  <2>5. CASE LosePost(p) \/ ServePoll(p) \/ LosePoll(p)
    BY <1>6, <2>5 DEF LosePost, ServePoll, LosePoll, TypeOK
  <2>. QED  BY <1>6, <2>1, <2>2, <2>3, <2>4, <2>5 DEF Script, Network
<1>7. ASSUME NEW j \in Jobs \cup {NoJob}, Mount(q, j) PROVE Truth(q)'
  <2>. DEFINE active == j # NoJob /\ job[j] = "active"
  <2>1. /\ panel'[q] = Mounted(j, active) /\ asked'[q] = j
        /\ poll'[q] = NoRequest /\ post'[q] = NoRequest /\ UNCHANGED job
    BY <1>7 DEF Mount, SetPanel, TypeOK
  <2>2. j \in Jobs => job[j] \in {"active", "ended"}
    BY <1>3, <1>7 DEF Mount, Latest
  <2>3. /\ panel'[q].url = j
        /\ panel'[q].shown = "outcome" => j \in Jobs /\ ~active
    BY <2>1 DEF Mounted
  <2>. QED  BY <1>3, <2>1, <2>2, <2>3 DEF Truth, Over, NoRequest
<1>8. CASE Submit(q)
  <2>1. poll[q].state = "none"
    BY <1>5, <1>8 DEF Submit
  <2>2. panel'[q] = [panel[q] EXCEPT !.busy = TRUE, !.failures = 0,
                                     !.off = TRUE, !.shown = "checking"]
    BY <1>8 DEF Submit, SetPanel, TypeOK
  <2>3. panel'[q].url = panel[q].url /\ panel'[q].shown = "checking"
    BY <1>3, <2>2 DEF PanelStates
  <2>4. post'[q].state = "sent" /\ post'[q].job = NoJob
    BY <1>8, RequestTypes DEF Submit, TypeOK, Sent
  <2>. QED  BY <1>1, <1>3, <1>8, <2>1, <2>3, <2>4 DEF Submit, Truth, Over
<1>9. CASE ServePost(q)
  <2>1. PICK j \in Jobs :
          /\ \/ j \in Active /\ UNCHANGED job
             \/ job' = [job EXCEPT ![j] = "active"]
          /\ \E state \in {"good", "bad"} :
               post' = [post EXCEPT ![q] = [state |-> state, job |-> j,
                                            active |-> TRUE]]
    BY <1>9 DEF ServePost
  <2>2. job'[j] # "absent"
    BY <2>1 DEF Active, TypeOK
  <2>3. post'[q].active /\ post'[q].job = j
    BY <2>1 DEF TypeOK
  <2>. QED  BY <1>1, <1>4, <1>9, <2>2, <2>3 DEF ServePost, Truth
<1>10. CASE LosePost(q)
  <2>1. post'[q].state = "bad" /\ post'[q].job = post[q].job
    BY <1>3, <1>10 DEF LosePost, TypeOK, Requests
  <2>. QED  BY <1>1, <1>10, <2>1 DEF LosePost, Truth, Over
<1>11. CASE EndSubmit(q)
  <2>1. /\ poll'[q].state = "none" /\ post'[q].state = "none" /\ UNCHANGED job
        /\ post'[q].job = NoJob
    BY <1>5, <1>11, RequestTypes DEF EndSubmit, TypeOK, NoRequest
  <2>2. CASE post[q].state = "good"
    <3>1. /\ panel'[q] = [Rendered(panel[q], TRUE) EXCEPT !.url = post[q].job]
          /\ asked'[q] = post[q].job
      BY <1>1, <1>3, <1>11, <2>2 DEF EndSubmit, SetPanel, TypeOK, Truth
    <3>2. PICK next : next = Rendered(panel[q], TRUE)
      OBVIOUS
    <3>3. next \in PanelStates /\ next.shown = "checking"
      BY <1>3, <3>2, RenderedType, RenderedShows
    <3>4. panel'[q].url = post[q].job /\ panel'[q].shown = "checking"
      BY <3>1, <3>2, <3>3 DEF PanelStates
    <3>. QED  BY <1>1, <1>3, <2>1, <2>2, <3>1, <3>4 DEF Truth
  <2>3. CASE post[q].state = "bad"
    <3>1. PICK next : next = GivenUp(panel[q])
      OBVIOUS
    <3>2. \/ panel'[q] = next /\ UNCHANGED asked
          \/ /\ post[q].job # NoJob
             /\ panel'[q] = [next EXCEPT !.url = post[q].job]
             /\ asked'[q] = post[q].job
      BY <1>11, <2>3, <3>1 DEF EndSubmit, SetPanel, TypeOK
    <3>3. /\ next \in PanelStates
          /\ next.url = panel[q].url /\ next.shown = "gaveup"
      BY <1>3, <3>1, GivenUpType, RenderedShows
    <3>4. CASE panel'[q] = next /\ UNCHANGED asked
      BY <1>1, <1>3, <2>1, <3>3, <3>4 DEF Truth
    <3>5. CASE /\ post[q].job # NoJob
               /\ panel'[q] = [next EXCEPT !.url = post[q].job]
               /\ asked'[q] = post[q].job
      <4>1. panel'[q].url = post[q].job /\ panel'[q].shown = "gaveup"
        BY <3>3, <3>5 DEF PanelStates
      <4>. QED  BY <1>1, <1>3, <2>1, <3>5, <4>1 DEF Truth
    <3>. QED  BY <3>2, <3>4, <3>5
  <2>. QED  BY <1>11, <2>2, <2>3 DEF EndSubmit
<1>12. CASE Fire(q)
  <2>1. \/ poll'[q] = poll[q]
        \/ poll'[q].state = "sent" /\ poll'[q].job = panel[q].url
    BY <1>3, <1>12 DEF Fire, TypeOK, Sent
  <2>. QED  BY <1>1, <1>12, <2>1 DEF Fire, Truth, Over
<1>13. CASE ServePoll(q)
  <2>1. poll[q].job = asked[q]
    BY <1>1, <1>13 DEF ServePoll, Truth
  <2>2. poll'[q] = IF asked[q] \in Jobs /\ job[asked[q]] # "gone"
                     THEN [state |-> "good", job |-> asked[q],
                           active |-> (job[asked[q]] = "active")]
                     ELSE [state |-> "bad", job |-> asked[q], active |-> FALSE]
    BY <1>13, <2>1 DEF ServePoll, TypeOK
  <2>3. /\ poll'[q].job = asked[q]
        /\ poll'[q].state = "good" /\ ~poll'[q].active =>
             /\ asked[q] \in Jobs
             /\ job[asked[q]] # "gone" /\ job[asked[q]] # "active"
    <3>1. CASE asked[q] \in Jobs /\ job[asked[q]] # "gone"
      <4>1. PICK active \in BOOLEAN : active <=> job[asked[q]] = "active"
        OBVIOUS
      <4>2. poll'[q] = [state |-> "good", job |-> asked[q], active |-> active]
        BY <2>2, <3>1, <4>1
      <4>. QED  BY <3>1, <4>1, <4>2
    <3>2. CASE ~(asked[q] \in Jobs /\ job[asked[q]] # "gone")
      BY <2>2, <3>2
    <3>. QED  BY <3>1, <3>2
  <2>4. asked[q] \in Jobs => job[asked[q]] \in JobStates
    BY DEF TypeOK
  <2>. QED  BY <1>1, <1>13, <2>3, <2>4 DEF ServePoll, Truth, Over, JobStates
<1>14. CASE LosePoll(q)
  <2>1. poll'[q].state = "bad" /\ poll'[q].job = poll[q].job
    BY <1>3, <1>14 DEF LosePoll, TypeOK, Requests
  <2>. QED  BY <1>1, <1>14, <2>1 DEF LosePoll, Truth, Over
<1>15. CASE EndPoll(q)
  <2>1. poll'[q].state = "none"
    BY <1>15, RequestTypes DEF EndPoll, TypeOK
  <2>2. CASE poll[q].state = "good"
    <3>1. panel'[q] = [Rendered(panel[q], poll[q].active) EXCEPT !.failures = 0]
      BY <1>15, <2>2 DEF EndPoll, SetPanel, TypeOK
    <3>2. /\ panel'[q].url = panel[q].url
          /\ panel'[q].shown =
               IF poll[q].active THEN "checking" ELSE "outcome"
      BY <1>3, <3>1, RenderedType, RenderedShows DEF PanelStates
    <3>3. ~poll[q].active => Over(asked[q])
      BY <1>1, <2>2 DEF Truth
    <3>. QED  BY <1>1, <1>15, <2>1, <3>2, <3>3 DEF EndPoll, Truth, Over
  <2>3. CASE poll[q].state # "good"
    <3>1. panel'[q] = Failed(panel[q])
      BY <1>15, <2>3 DEF EndPoll, SetPanel, TypeOK
    <3>2. panel'[q].url = panel[q].url /\ panel'[q].shown # "outcome"
      BY <1>3, <3>1, RenderedShows
    <3>. QED  BY <1>1, <1>15, <2>1, <3>2 DEF EndPoll, Truth
  <2>. QED  BY <2>2, <2>3
<1>16. CASE (\E j \in Jobs : EndJob(j)) \/ RemoveJobs \/ UNCHANGED vars
  BY <1>2, <1>16 DEF EndJob, RemoveJobs, vars
<1>. HIDE DEF Alone
<1>. QED  BY <1>2, <1>6, <1>7, <1>8, <1>9, <1>10, <1>11, <1>12, <1>13, <1>14,
             <1>15, <1>16 DEF Next, Script, Network

(* A page shows an outcome only when the job its user last asked for is    *)
(* over: no answer of an earlier job, and none that came late, is taken    *)
(* for the answer of this one.                                             *)
THEOREM OutcomeIsTrueAlways == Spec => []OutcomeIsTrue
<1>1. Init => TruthInv
  <2>. SUFFICES ASSUME Init, NEW p \in Panels PROVE Truth(p)
    BY DEF TruthInv
  <2>1. panel[p].url = NoJob /\ panel[p].shown = "rest"
    BY DEF Init, Mounted
  <2>2. NoJob \notin Jobs
    BY PanelAssumption DEF Jobs, NoJob
  <2>. QED  BY <2>1, <2>2, RequestTypes DEF Init, Truth, NoRequest
<1>2. TypeOK /\ ChainInv /\ TruthInv /\ [Next]_vars => TruthInv'
  BY TruthStep
<1>3. TruthInv => OutcomeIsTrue
  BY DEF TruthInv, Truth, Over, OutcomeIsTrue
<1>. QED  BY <1>1, <1>2, <1>3, ChainAlways, PanelTypes, PTL DEF Spec
=============================================================================
