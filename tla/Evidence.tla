------------------------------ MODULE Evidence ------------------------------
(***************************************************************************)
(* The rules that accept or refuse what the model answers about an email   *)
(* (app/openai_analysis.py).  A first pass judges the answer, which refers *)
(* to its facts by position, and gives facts their ids and offsets; a      *)
(* second pass judges the result, by ids, and cleans its guidance.         *)
(*                                                                         *)
(* Positions count from 1.  An optional value is a sequence of length at   *)
(* most one.                                                               *)
(***************************************************************************)
EXTENDS Integers, Sequences
LOCAL INSTANCE Functions
LOCAL INSTANCE FiniteSetsExt

CONSTANTS
    Quotes,    \* texts the model may quote
    NoText,    \* the empty one
    Occurs,    \* the offsets of a quote in the bounded body of the email
    Values,    \* what a fact may claim
    Within,    \* the values that a quote contains
    Links      \* the values that are URLs and occur in the body

ASSUME EvidenceAssumption ==
    /\ NoText \in Quotes
    /\ Occurs \in [Quotes -> SUBSET Nat]
    /\ Within \in [Quotes -> SUBSET Values]
    /\ Links \subseteq Values

(* "amount" is also a meeting time.                                        *)
FactTypes == {"deadline", "amount", "document", "link", "other"}
DueDates  == {"none", "text", "date", "unreadable"}
Sources   == {"EMAIL_FACT", "BUSINESS_GUIDANCE", "AI_RECOMMENDATION",
              "MISSING_UNCERTAIN"}

(* An answer refers to its facts by position, a result by id.              *)
Ids         == {"fact", "evidence"} \X Int
Todos(Refs) == [titled : BOOLEAN, due : DueDates, refs : Seq(Refs)]

AdviceItems(Refs) ==
    [source : Sources, facts : SUBSET Refs, guidance : SUBSET Int]
Plans(Refs) == [outcome : AdviceItems(Refs), deliverable : AdviceItems(Refs),
                steps : Seq(AdviceItems(Refs)), others : Seq(AdviceItems(Refs))]

FactId(i)     == <<"fact", i>>
EvidenceId(i) == <<"evidence", i>>

(* The elements of s that are in S, in their order.  (A recursive function *)
(* rather than SelectSeq, which the provers cannot expand.)                *)
Picked(s, S) ==
    LET picked[n \in 0..Len(s)] ==
          IF n = 0 THEN <<>>
          ELSE IF s[n] \in S THEN Append(picked[n - 1], s[n])
          ELSE picked[n - 1]
    IN picked[Len(s)]

-----------------------------------------------------------------------------
(* The first pass.                                                         *)

(* A fact of another type may say anything its quote does not.             *)
ValueHolds(fact) ==
    /\ fact.type # "other" => fact.value \in Within[fact.quote]
    /\ fact.type = "link" => fact.value \in Links

(* Fault: the value of a fact is not looked at.                            *)
FactHoldsByQuote(fact) == fact.quote # NoText /\ Occurs[fact.quote] # {}

FactHolds(fact) ==
    fact.quote # NoText /\ Occurs[fact.quote] # {} /\ ValueHolds(fact)

Accepted(answer) == {i \in DOMAIN answer.facts : FactHolds(answer.facts[i])}

TaskHolds(task, answer) ==
    /\ task.titled
    /\ task.refs # <<>>
    /\ IsInjective(task.refs)
    /\ Range(task.refs) \subseteq Accepted(answer)
    /\ task.due # "none" =>
         \E i \in Range(task.refs) : answer.facts[i].type = "deadline"
    /\ task.due # "unreadable"

(* Fault: a task may be returned with action_required false.               *)
CoherentOneWay(class, action, tasks) ==
    /\ class = "action_required" => action
    /\ action => tasks # <<>>

(* Class, flag and tasks agree.                                            *)
Coherent(class, action, tasks) ==
    /\ class = "action_required" => action
    /\ action <=> tasks # <<>>

(* Fault: a refused fact is left out instead of refusing the answer.       *)
FirstPassLenient(answer) ==
    /\ \A i \in DOMAIN answer.tasks : TaskHolds(answer.tasks[i], answer)
    /\ Coherent(answer.class, answer.action, answer.tasks)

(* One defect anywhere refuses the whole answer.                           *)
FirstPass(answer) ==
    /\ Accepted(answer) = DOMAIN answer.facts
    /\ \A i \in DOMAIN answer.tasks : TaskHolds(answer.tasks[i], answer)
    /\ Coherent(answer.class, answer.action, answer.tasks)

(* References of an item of advice, by id; those that point nowhere go.    *)
ById(item, answer) ==
    [item EXCEPT !.facts = {FactId(i) : i \in @ \cap Accepted(answer)},
                 !.guidance = @ \cap DOMAIN answer.guidance]

AllById(items, answer) == [k \in DOMAIN items |-> ById(items[k], answer)]

(* The result of the first pass: the first occurrence of a quote counts.   *)
Canonical(answer) ==
    LET row(i) == [id |-> FactId(i), eid |-> EvidenceId(i),
                   type |-> answer.facts[i].type,
                   value |-> answer.facts[i].value,
                   quote |-> answer.facts[i].quote,
                   start |-> Min(Occurs[answer.facts[i].quote])]
        task(t) == [titled |-> t.titled, due |-> t.due,
                    refs |-> [n \in DOMAIN t.refs |-> FactId(t.refs[n])]]
        numbered == [i \in DOMAIN answer.facts |-> i]
        kept == Picked(numbered, Accepted(answer))
    IN [class |-> answer.class, action |-> answer.action,
        facts |-> [k \in DOMAIN kept |-> row(kept[k])],
        tasks |-> [k \in DOMAIN answer.tasks |-> task(answer.tasks[k])],
        guidance |-> [k \in DOMAIN answer.guidance |->
                        [id |-> k, resource |-> answer.guidance[k].resource,
                         title |-> answer.guidance[k].title,
                         quote |-> answer.guidance[k].quote]],
        suggestions |-> AllById(answer.suggestions, answer),
        plan |-> [k \in DOMAIN answer.plan |->
                    [outcome |-> ById(answer.plan[k].outcome, answer),
                     deliverable |-> ById(answer.plan[k].deliverable, answer),
                     steps |-> AllById(answer.plan[k].steps, answer),
                     others |-> AllById(answer.plan[k].others, answer)]]]

-----------------------------------------------------------------------------
(* The second pass.                                                        *)

KeptFacts(result) ==
    Picked(result.facts,
           {f \in Range(result.facts) :
              f.quote # NoText /\ f.start \in Occurs[f.quote] /\ ValueHolds(f)})

(* The facts that go by a reference: by their id or by their evidence's.   *)
Cited(ref, facts) == {f \in Range(facts) : ref \in {f.id, f.eid}}

CitedBy(task, facts) == UNION {Cited(ref, facts) : ref \in Range(task.refs)}

TaskStands(task, facts) ==
    /\ task.titled
    /\ task.refs # <<>>
    /\ \A ref \in Range(task.refs) : Cited(ref, facts) # {}
    /\ \A m, n \in DOMAIN task.refs :
         m # n => Cited(task.refs[m], facts)
                    \cap Cited(task.refs[n], facts) = {}
    /\ task.due # "none" => \E f \in CitedBy(task, facts) : f.type = "deadline"
    /\ task.due # "unreadable"

SecondPass(result) ==
    /\ \A k \in DOMAIN result.tasks :
         TaskStands(result.tasks[k], KeptFacts(result))
    /\ Coherent(result.class, result.action, result.tasks)

(* Guidance quotes a resource it names; library maps the ids of the        *)
(* resources that were selected to their title and the quotes in them.     *)
KeptGuidance(result, library) ==
    Picked(result.guidance,
           {g \in Range(result.guidance) :
              /\ g.resource \in DOMAIN library
              /\ g.title = library[g.resource].title
              /\ g.quote \in library[g.resource].quotes})

CleanItem(item, ids, gids) ==
    LET uncertain == item.source = "MISSING_UNCERTAIN" IN
    [item EXCEPT !.facts = IF uncertain THEN {} ELSE @ \cap ids,
                 !.guidance = IF uncertain THEN {} ELSE @ \cap gids]

(* Fault: an item that lost its support is kept.                           *)
SupportedAlways(item) == item.source \in Sources

(* What an item claims to rest on is there.                                *)
Supported(item) ==
    /\ item.source = "EMAIL_FACT" => item.facts # {}
    /\ item.source = "BUSINESS_GUIDANCE" => item.guidance # {}

CleanItems(items, ids, gids) ==
    LET clean == [k \in DOMAIN items |-> CleanItem(items[k], ids, gids)] IN
    Picked(clean, {item \in Range(clean) : Supported(item)})

Bare(source) == [source |-> source, facts |-> {}, guidance |-> {}]

MinimalPlan ==
    [outcome |-> Bare("MISSING_UNCERTAIN"),
     deliverable |-> Bare("AI_RECOMMENDATION"),
     steps |-> <<Bare("AI_RECOMMENDATION")>>,
     others |-> <<Bare("MISSING_UNCERTAIN"), Bare("AI_RECOMMENDATION")>>]

OrElse(item, source) == IF Supported(item) THEN item ELSE Bare(source)

CleanPlan(plan, ids, gids) ==
    LET steps == CleanItems(plan.steps, ids, gids) IN
    [outcome |-> OrElse(CleanItem(plan.outcome, ids, gids),
                        "MISSING_UNCERTAIN"),
     deliverable |-> OrElse(CleanItem(plan.deliverable, ids, gids),
                            "AI_RECOMMENDATION"),
     steps |-> IF steps = <<>> THEN MinimalPlan.steps ELSE steps,
     others |-> CleanItems(plan.others, ids, gids)]

(* Suggestions are cut but never removed.                                  *)
CutSuggestions(items, ids, gids) ==
    [k \in DOMAIN items |->
       [items[k] EXCEPT !.facts = @ \cap ids, !.guidance = @ \cap gids]]

(* Only a result with tasks has a plan.                                    *)
PlanAfter(result, ids, gids) ==
    IF result.tasks = <<>> THEN <<>>
    ELSE IF result.plan = <<>> THEN <<MinimalPlan>>
    ELSE <<CleanPlan(result.plan[1], ids, gids)>>

(* What the second pass returns when it raises nothing.                    *)
Cleaned(result, library) ==
    LET facts    == KeptFacts(result)
        guidance == KeptGuidance(result, library)
        ids      == {f.id : f \in Range(facts)}
        gids     == {g.id : g \in Range(guidance)}
    IN [result EXCEPT
          !.facts = facts,
          !.guidance = guidance,
          !.suggestions = CutSuggestions(result.suggestions, ids, gids),
          !.plan = PlanAfter(result, ids, gids)]

(* validate_model_output: refused, or what both passes make of it.         *)
Verdict(answer, library) ==
    IF FirstPass(answer) /\ SecondPass(Canonical(answer))
    THEN <<Cleaned(Canonical(answer), library)>> ELSE <<>>
=============================================================================
