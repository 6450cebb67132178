--------------------------- MODULE MCEmailAnalysis ---------------------------
(* An email, resources and answers for TLC.                                *)
EXTENDS EmailAnalysis

(* q1 is repeated in the body; q2 asks for a document.                     *)
EmailQuotes == {"", "absent", "q1", "q2", "q3"}
AllQuotes   == EmailQuotes \cup {"r1", "r2"}
Places == [q \in AllQuotes |->
             CASE q = "q1" -> {3, 40} [] q = "q2" -> {10} [] q = "q3" -> {25}
               [] q = "" -> 0..60 [] OTHER -> {}]
Claims   == {"july", "paper", "url", "guess"}
Contents == [q \in AllQuotes |->
               CASE q = "q1" -> {"july"} [] q = "q2" -> {"paper", "url"}
                 [] q = "q3" -> {"paper"} [] OTHER -> {}]

Fact(type, value, quote) == [type |-> type, value |-> value, quote |-> quote]

SomeFacts == {Fact("deadline", "july", "q1"), Fact("deadline", "guess", "q1"),
              Fact("document", "paper", "q2"),
              Fact("link", "url", "q2"), Fact("link", "paper", "q2"),
              Fact("other", "guess", "q1"), Fact("other", "guess", ""),
              Fact("amount", "guess", "absent")}

FactLists == {<<>>} \cup {<<f>> : f \in SomeFacts}
                \cup {<<f, g>> : f \in SomeFacts,
                        g \in {Fact("deadline", "july", "q1"),
                               Fact("document", "paper", "q2"),
                               Fact("other", "guess", "q1"),
                               Fact("amount", "guess", "absent")}}

Todo(titled, due, refs) == [titled |-> titled, due |-> due, refs |-> refs]

Refs == {<<>>, <<1>>, <<2>>, <<1, 2>>, <<2, 1>>, <<1, 1>>, <<0>>, <<3>>}

TodoLists ==
    {<<>>} \cup {<<Todo(TRUE, due, refs)>> : due \in DueDates, refs \in Refs}
           \cup {<<Todo(FALSE, "none", <<1>>)>>}
           \cup {<<Todo(TRUE, "none", <<2>>), Todo(TRUE, due, <<1>>)>> :
                   due \in {"none", "date"}}

NoAdvice == [guidance |-> <<>>, suggestions |-> <<>>, plan |-> <<>>]

Reply(class, action, facts, tasks, advice) ==
    [class |-> class, action |-> action, facts |-> facts, tasks |-> tasks,
     guidance |-> advice.guidance, suggestions |-> advice.suggestions,
     plan |-> advice.plan]

Classes == {"action_required", "invoice"}

AboutFacts ==
    {Reply(class, action, facts, tasks, NoAdvice) :
       class \in Classes, action \in BOOLEAN,
       facts \in FactLists, tasks \in TodoLists}

Hint(resource, title, quote) ==
    [resource |-> resource, title |-> title, quote |-> quote]

Hints == {Hint("a", "A", "r1"), Hint("a", "A", "r2"), Hint("a", "B", "r1"),
          Hint("a", "A", ""), Hint("c", "A", "r1")}

HintLists == {<<>>} \cup {<<h>> : h \in Hints}
                \cup {<<h, Hint("a", "A", "r1")>> : h \in Hints}

Advice == [source : Sources, facts : {{}, {1}, {4}},
           guidance : {{}, {1}, {2}, {3}}]

GoodFacts  == <<Fact("deadline", "july", "q1"),
                Fact("document", "paper", "q2")>>
GoodTodos  == <<Todo(TRUE, "date", <<2, 1>>)>>

AboutAdvice ==
    {Reply("action_required", TRUE, GoodFacts, GoodTodos,
           [guidance |-> hints, suggestions |-> <<item>>,
            plan |-> <<[outcome |-> item, deliverable |-> item,
                        steps |-> <<item, Bare("MISSING_UNCERTAIN")>>,
                        others |-> <<item>>],
                       [outcome |-> item, deliverable |-> item,
                        steps |-> <<item>>, others |-> <<>>]>>]) :
       hints \in HintLists, item \in Advice}

OnePlan(answer, k) == [answer EXCEPT !.plan = <<@[k]>>]

Replies == AboutFacts \cup {OnePlan(answer, 1) : answer \in AboutAdvice}
                      \cup {OnePlan(answer, 2) : answer \in AboutAdvice}

LaterReplies ==
          {Reply("action_required", TRUE, GoodFacts, GoodTodos, NoAdvice),
           Reply("invoice", FALSE, <<>>, <<>>, NoAdvice),
           Reply("invoice", TRUE, GoodFacts, <<>>, NoAdvice)}

(* The owner edits "a" and enables or disables "c", of the same title.     *)
Shelf(names, quotes) ==
    [r \in names |-> [title |-> "A", quotes |-> quotes]]
Shelves == {Shelf({"a", "c"}, {"", "r1"}), Shelf({"a"}, {"", "r2"})}

PreparedFact(name, type, value, quote, start) ==
    [id |-> <<"fact", name>>, eid |-> <<"evidence", name>>, type |-> type,
     value |-> value, quote |-> quote, start |-> start]

Prepared ==
    {[class |-> "invoice", action |-> TRUE,
      facts |-> <<PreparedFact(1, "deadline", "july", "q1", 3),
                  PreparedFact(2, "document", "paper", "q2", 10)>>,
      tasks |-> <<Todo(TRUE, "date", <<EvidenceId(1), EvidenceId(2)>>)>>,
      guidance |-> <<[id |-> 1, resource |-> "a", title |-> "A",
                      quote |-> "r1"]>>,
      suggestions |-> <<[source |-> "AI_RECOMMENDATION", facts |-> {FactId(1)},
                         guidance |-> {}]>>,
      plan |-> <<MinimalPlan>>],
     [class |-> "informational", action |-> FALSE,
      facts |-> <<PreparedFact(1, "other", "guess", "q3", 25)>>,
      tasks |-> <<>>, guidance |-> <<>>, suggestions |-> <<>>, plan |-> <<>>]}
=============================================================================
