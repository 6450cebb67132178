---------------------------- MODULE EmailAnalysis ----------------------------
(***************************************************************************)
(* The analysis of one email (app/analysis.py), from the request through   *)
(* the model's answer and its one repair to the stored analysis and task.  *)
(* It runs for a route, which may force a new one, or for the sync worker, *)
(* which validates once more before it stores.  The worker does so for one *)
(* email after another in one database session, which goes on answering    *)
(* with the resources it still holds for the email before.  Two analyses   *)
(* of an email at a time are the subject of GmailSync.                     *)
(***************************************************************************)
EXTENDS Evidence
LOCAL INSTANCE Functions

CONSTANTS
    Answers,        \* what the model may say when it is asked first
    LaterAnswers,   \* what it may say in a repair or a later analysis
    MaxAnalyses,    \* bound: analyses
    Fallbacks,      \* results that are prepared for demo emails
    Libraries       \* what the owner's enabled resources may be

ResultFields == {"class", "action", "facts", "tasks", "guidance",
                 "suggestions", "plan"}

Claimed  == [type : FactTypes, value : Values, quote : Quotes]
FactRows == [id : {"fact"} \X (Nat \ {0}), eid : {"evidence"} \X (Nat \ {0}),
             type : FactTypes, value : Values, quote : Quotes, start : Nat]

(* An answer and a result, parsed with types; their guidance is any list.  *)
Parsed(answer) ==
    /\ answer.action \in BOOLEAN
    /\ answer.facts \in Seq(Claimed)
    /\ answer.tasks \in Seq(Todos(Int))
    /\ answer.guidance \in Seq(Range(answer.guidance))
    /\ answer.suggestions \in Seq(AdviceItems(Int))
    /\ answer.plan \in Seq(Plans(Int))

Shaped(result) ==
    /\ DOMAIN result = ResultFields
    /\ result.facts \in Seq(FactRows)
    /\ result.tasks \in Seq(Todos(Ids))
    /\ result.guidance \in Seq(Range(result.guidance))
    /\ result.suggestions \in Seq(AdviceItems(Ids))
    /\ result.plan \in Seq(Plans(Ids))

(* "none" stands for a deadline that has no words.                         *)
ASSUME AnalysisAssumption ==
    /\ \A answer \in Answers \cup LaterAnswers : Parsed(answer)
    /\ \A result \in Fallbacks : Shaped(result)
    /\ MaxAnalyses \in Nat
    /\ "none" \notin Values

VARIABLES
    source,     \* of the email: gmail or demo
    library,    \* the owner's enabled resources, each relevant to it
    held,       \* resources that the worker's session holds, as it read them
    stored,     \* its analysis and task, as committed
    run,        \* the analysis in progress
    analyses    \* analyses begun

vars == <<source, library, held, stored, run, analyses>>

Callers == {"analyze", "reanalyze", "worker"}
Stages  == {"idle", "asking", "judging", "found"}

Nothing == [r \in {} |-> NoText]

(* "attempt" is that of the loop over model calls, "known" the resources   *)
(* that were read for the request; history: "since", the resources there   *)
(* were from then on.                                                      *)
Idle == [stage |-> "idle", by |-> "analyze", attempt |-> 1,
         known |-> Nothing, since |-> {}, answer |-> <<>>, result |-> <<>>]

(* The query finds the rows of now, but a row that the session holds is    *)
(* not read again (expire_on_commit is off): it has the text it had.       *)
Loaded(kept, lib) ==
    [r \in DOMAIN lib |-> IF r \in DOMAIN kept THEN kept[r] ELSE lib[r]]

Texts    == UNION {Range(lib) : lib \in Libraries}
Readings == UNION {[names -> Texts] :
                     names \in SUBSET UNION {DOMAIN lib : lib \in Libraries}}

TypeOK ==
    /\ source \in {"gmail", "demo"}
    /\ library \in Libraries /\ held \in Readings
    /\ analyses \in 0..MaxAnalyses
    /\ run.stage \in Stages /\ run.by \in Callers /\ run.attempt \in {1, 2}
    /\ run.known \in Readings /\ run.since \subseteq Libraries
    /\ Len(run.answer) = IF run.stage = "judging" THEN 1 ELSE 0
    /\ Len(run.result) = IF run.stage = "found" THEN 1 ELSE 0
    /\ \A s \in Range(stored) :
         /\ \A f \in Range(s.result.facts) : f \in FactRows
         /\ Len(s.result.plan) <= 1 /\ Len(s.task) <= 1 /\ Len(stored) = 1

Init ==
    /\ source \in {"gmail", "demo"}
    /\ library \in Libraries
    /\ held = Nothing
    /\ stored = <<>>
    /\ run = Idle
    /\ analyses = 0

-----------------------------------------------------------------------------
(* What a result becomes in the database: its first task, with a deadline  *)
(* from the facts that the task cites.                                     *)

(* The fact that the first reference goes by that goes by one of facts.    *)
FirstCited(task, facts) ==
    LET hits == Picked(task.refs, {ref \in Range(task.refs) :
                                     Cited(ref, facts) # {}})
    IN IF hits = <<>> THEN <<>>
       ELSE <<CHOOSE f \in Cited(hits[1], facts) : TRUE>>

(* Fault: the deadline's words are the model's own.                        *)
DeadlineTextOwn(task, facts) == IF task.due = "none" THEN "none" ELSE "own"

DeadlineText(task, facts) ==
    LET deadlines == Picked(facts, {f \in Range(facts) : f.type = "deadline"})
        cited     == FirstCited(task, deadlines)
    IN
    IF cited # <<>> THEN cited[1].value
    ELSE IF task.due = "none" THEN "none" ELSE "own"

TaskRow(task, facts) ==
    [deadline |-> (task.due = "date"), text |-> DeadlineText(task, facts)]

(* What is highlighted in the email.                                       *)
EvidenceOf(result) ==
    LET cited == IF result.action /\ result.tasks # <<>>
                   THEN FirstCited(result.tasks[1], result.facts)
                   ELSE <<>>
    IN IF cited # <<>> THEN cited
       ELSE IF result.facts = <<>> THEN <<>> ELSE <<result.facts[1]>>

Projection(result) ==
    LET chosen == result.action /\ result.tasks # <<>> IN
    [result |-> result, action |-> chosen, evidence |-> EvidenceOf(result),
     task |-> IF chosen THEN <<TaskRow(result.tasks[1], result.facts)>>
              ELSE <<>>]

-----------------------------------------------------------------------------
(* The steps of an analysis.                                               *)

May(by) ==
    /\ run.stage = "idle"
    /\ analyses < MaxAnalyses
    /\ by # "reanalyze" => stored = <<>>

(* Fault: the old analysis is deleted in a transaction of its own.         *)
BeginCommitted(by) ==
    /\ May(by) /\ source = "gmail"
    /\ run' = [Idle EXCEPT !.stage = "asking", !.by = by, !.known = library,
                           !.since = {library}]
    /\ analyses' = analyses + 1
    /\ stored' = <<>>
    /\ UNCHANGED <<source, library, held>>

(* A forced analysis deletes the old one within its transaction.  The      *)
(* worker copies what it reads for the model, and holds no row after.  An  *)
(* email that is not the first of its batch finds nothing held.            *)
Begin(by) ==
    /\ May(by) /\ source = "gmail"
    /\ \E kept \in IF by = "worker" THEN {held, Nothing} ELSE {Nothing} :
         run' = [Idle EXCEPT !.stage = "asking", !.by = by,
                             !.known = Loaded(kept, library),
                             !.since = {library}]
    /\ held' = IF by = "worker" THEN Nothing ELSE held
    /\ analyses' = analyses + 1
    /\ UNCHANGED <<source, library, stored>>

(* A demo email gets a prepared result, or none when the result does not   *)
(* fit it.                                                                 *)
AnalyzeDemo(by) ==
    /\ May(by) /\ by # "worker" /\ source = "demo"
    /\ \/ \E result \in Fallbacks :
            /\ SecondPass(result)
            /\ stored' = <<Projection(Cleaned(result, library))>>
       \/ UNCHANGED stored
    /\ analyses' = analyses + 1
    /\ UNCHANGED <<source, library, held, run>>

(* What the session holds after a run that failed: the worker's rollback   *)
(* expires every row.                                                      *)
HeldAfterFailure == IF run.by = "worker" THEN Nothing ELSE held

(* No key, no connection, no output, or output of another shape: nothing   *)
(* of it is repaired.                                                      *)
AskFails ==
    /\ run.stage = "asking"
    /\ run' = Idle
    /\ held' = HeldAfterFailure
    /\ UNCHANGED <<source, library, stored, analyses>>

Receive ==
    /\ run.stage = "asking"
    /\ \E answer \in IF analyses = 1 /\ run.attempt = 1 THEN Answers
                    ELSE LaterAnswers :
         run' = [run EXCEPT !.stage = "judging", !.answer = <<answer>>]
    /\ UNCHANGED <<source, library, held, stored, analyses>>

(* Fault: a refused answer is always sent back.                            *)
JudgeForever ==
    LET verdict == Verdict(run.answer[1], run.known) IN
    /\ run.stage = "judging"
    /\ run' = IF verdict # <<>>
                THEN [run EXCEPT !.stage = "found", !.answer = <<>>,
                                 !.result = verdict]
                ELSE [run EXCEPT !.stage = "asking", !.answer = <<>>,
                                 !.attempt = @ + 1]
    /\ UNCHANGED <<source, library, held, stored, analyses>>

(* A refused first answer is sent back once with what is wrong with it.    *)
Judge ==
    LET verdict == Verdict(run.answer[1], run.known) IN
    /\ run.stage = "judging"
    /\ run' = IF verdict # <<>>
                THEN [run EXCEPT !.stage = "found", !.answer = <<>>,
                                 !.result = verdict]
              ELSE IF run.attempt = 1
                THEN [run EXCEPT !.stage = "asking", !.answer = <<>>,
                                 !.attempt = 2]
              ELSE Idle
    /\ held' = IF run'.stage = "idle" THEN HeldAfterFailure ELSE held
    /\ UNCHANGED <<source, library, stored, analyses>>

(* Fault: the worker stores what the request thread validated.             *)
StoreUnchecked ==
    /\ run.stage = "found"
    /\ stored' = <<Projection(run.result[1])>>
    /\ run' = Idle
    /\ UNCHANGED <<source, library, held, analyses>>

(* _project_result.  The worker first validates once more, with the rows   *)
(* of now, except for the text of those it holds.                          *)
Store ==
    /\ run.stage = "found"
    /\ IF run.by = "worker"
         THEN /\ SecondPass(run.result[1])
              /\ stored' = <<Projection(Cleaned(run.result[1],
                                                Loaded(held, library)))>>
              /\ held' = Loaded(held, library)
         ELSE /\ stored' = <<Projection(run.result[1])>>
              /\ UNCHANGED held
    /\ run' = Idle
    /\ UNCHANGED <<source, library, analyses>>

StoreFails ==
    /\ run.stage = "found"
    /\ run' = Idle
    /\ held' = HeldAfterFailure
    /\ UNCHANGED <<source, library, stored, analyses>>

(* The worker judges another email, for which some of the resources are    *)
(* relevant, perhaps none; none is held either after a rollback for it, or *)
(* once the job is done.                                                   *)
JudgeOther ==
    /\ run.stage = "idle" \/ run.by = "worker"
    /\ \E names \in SUBSET DOMAIN library :
         held' = [r \in names |-> Loaded(held, library)[r]]
    /\ UNCHANGED <<source, library, stored, run, analyses>>

(* The owner edits, adds, disables or removes resources.                   *)
EditResources ==
    /\ library' \in Libraries \ {library}
    /\ run' = IF run.stage = "idle" THEN run
              ELSE [run EXCEPT !.since = @ \cup {library'}]
    /\ UNCHANGED <<source, held, stored, analyses>>

Next ==
    \/ \E by \in Callers : Begin(by) \/ AnalyzeDemo(by)
    \/ AskFails \/ Receive \/ Judge \/ Store \/ StoreFails
    \/ JudgeOther \/ EditResources

Spec == Init /\ [][Next]_vars

-----------------------------------------------------------------------------
(* Properties.                                                             *)

(* The rules of the prompt that are causes of refusal, stated for the      *)
(* answer as a whole.  Those on which date is a deadline, on quotations    *)
(* of resources and on the items of a plan are rules too, but an answer    *)
(* that breaks them is cut down, or kept, and not refused.                 *)
Sound(answer) ==
    /\ \A f \in Range(answer.facts) :
         /\ f.quote # NoText /\ Occurs[f.quote] # {}
         /\ f.type \in {"deadline", "amount", "document", "link"} =>
              f.value \in Within[f.quote]
         /\ f.type = "link" => f.value \in Links
    /\ \A t \in Range(answer.tasks) :
         /\ t.titled /\ t.due # "unreadable"
         /\ t.refs # <<>> /\ IsInjective(t.refs)
         /\ Range(t.refs) \subseteq DOMAIN answer.facts
         /\ t.due \in {"text", "date"} =>
              \E n \in DOMAIN t.refs :
                 t.refs[n] \in DOMAIN answer.facts
                 /\ answer.facts[t.refs[n]].type = "deadline"
    /\ answer.action <=> Len(answer.tasks) > 0
    /\ answer.class = "action_required" => answer.action

Judged == run.stage = "judging" /\ run'.stage # "judging"

(* An answer is accepted exactly when it follows the rules: the second     *)
(* pass, which works on ids, refuses nothing that the first let through.   *)
VerdictIsExact ==
    [][Judged => (run'.stage = "found" <=> Sound(run.answer[1]))]_vars

(* Acceptance drops and reorders nothing: each fact is there with the      *)
(* first place of its quote, and each task cites the facts it did.         *)
NothingIsDropped ==
    [][Judged /\ run'.stage = "found" =>
         LET answer == run.answer[1]
             result == run'.result[1]
         IN /\ DOMAIN result.facts = DOMAIN answer.facts
            /\ \A i \in DOMAIN answer.facts :
                 /\ result.facts[i].quote = answer.facts[i].quote
                 /\ result.facts[i].start \in Occurs[answer.facts[i].quote]
                 /\ \A n \in Occurs[answer.facts[i].quote] :
                      result.facts[i].start <= n
            /\ DOMAIN result.tasks = DOMAIN answer.tasks
            /\ \A k \in DOMAIN answer.tasks :
                 \A n \in DOMAIN answer.tasks[k].refs :
                   Cited(result.tasks[k].refs[n], result.facts)
                     = {result.facts[answer.tasks[k].refs[n]]}]_vars

(* A stored analysis rests on its email: every task it keeps cites a fact  *)
(* it keeps, and there is a task exactly when one is stored as required.   *)
Backed(result) ==
    /\ \A k \in DOMAIN result.tasks :
         CitedBy(result.tasks[k], result.facts) # {}
    /\ result.action <=> result.tasks # <<>>

StoredIsBacked ==
    \A s \in Range(stored) :
        /\ Backed(s.result)
        /\ s.action <=> s.task # <<>>
        /\ s.action <=> s.result.action

(* What the task page shows of a task comes from facts the task cites: the *)
(* highlighted evidence, which is in the email where it says, and the      *)
(* words of a deadline.                                                    *)
TaskShowsItsFacts ==
    \A s \in Range(stored) : s.task # <<>> =>
        LET cited == CitedBy(s.result.tasks[1], s.result.facts) IN
        /\ s.evidence # <<>> /\ Range(s.evidence) \subseteq cited
        /\ \A f \in Range(s.evidence) : f.start \in Occurs[f.quote]
        /\ s.task[1].deadline => s.task[1].text # "none"
        /\ s.task[1].text # "none" =>
             \E f \in cited : f.type = "deadline" /\ f.value = s.task[1].text

Items(result) ==
    UNION {{p.outcome, p.deliverable}
               \cup Range(p.steps) \cup Range(p.others) :
             p \in Range(result.plan)}

(* Advice that is labelled a fact or business guidance cites a fact or a   *)
(* guidance that was accepted, and nothing cites what was not.             *)
AdviceIsBacked ==
    \A s \in Range(stored) :
        LET ids  == {f.id : f \in Range(s.result.facts)}
            gids == {g.id : g \in Range(s.result.guidance)}
        IN /\ \A item \in Items(s.result) \cup Range(s.result.suggestions) :
                item.facts \subseteq ids /\ item.guidance \subseteq gids
           /\ \A item \in Items(s.result) :
                /\ item.source = "EMAIL_FACT" => item.facts # {}
                /\ item.source = "BUSINESS_GUIDANCE" => item.guidance # {}
           /\ s.task # <<>> =>
                s.result.plan # <<>> /\ s.result.plan[1].steps # <<>>

(* What a run stores quotes resources as they are, or were a short while   *)
(* ago.  The sync worker quotes only resources that are enabled now, and   *)
(* only text they had at some time since the model was asked, though its   *)
(* session may hold the text of before an edit; with nothing held it is    *)
(* the text of now.  A route quotes what it read when it asked.  A second  *)
(* validation with the same texts changes nothing.                         *)
StoresWhatHolds ==
    [][run.stage = "found" /\ stored' # stored =>
         LET result == stored'[1].result
             Has(lib, g) == /\ g.resource \in DOMAIN lib
                            /\ g.quote \in lib[g.resource].quotes
         IN
         /\ \A g \in Range(result.guidance) :
              IF run.by # "worker" THEN Has(run.known, g)
              ELSE /\ g.resource \in DOMAIN library
                   /\ \E lib \in run.since : Has(lib, g)
                   /\ DOMAIN held = {} => Has(library, g)
         /\ run.by # "worker" \/ Loaded(held, library) = run.known =>
              result = run.result[1]]_vars

(* An email that was analyzed stays analyzed, whatever becomes of a forced *)
(* analysis.                                                               *)
AnalysisIsKept == [][stored # <<>> => stored' # <<>>]_vars

(* What the product specification says of guidance: it requires an exact   *)
(* resource quotation.                                                     *)
GuidanceIsQuoted ==
    \A s \in Range(stored) :
        \A g \in Range(s.result.guidance) : g.quote # NoText
=============================================================================
