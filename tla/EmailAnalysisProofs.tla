------------------------- MODULE EmailAnalysisProofs -------------------------
(***************************************************************************)
(* For any email, resources and answers of the model: an answer is taken   *)
(* exactly when it follows the rules, and keeps its facts and tasks; what  *)
(* is stored, and its task, advice and guidance, rest on the email and the *)
(* resources; and once stored it is only ever replaced.                    *)
(*                                                                         *)
(* In order: what Picked picks; the first pass and its result; advice,     *)
(* before and after it is cleaned; the second pass, which leaves its own   *)
(* results as they are (Stands, Quoted); the verdict; the inductive        *)
(* invariant AnalysisInv; the theorems.                                    *)
(***************************************************************************)
EXTENDS EmailAnalysis, WellFoundedInduction, TLAPS
LOCAL INSTANCE Functions
LOCAL INSTANCE FiniteSetsExt

-----------------------------------------------------------------------------
(* Induction, by a set: the library's theorem takes an operator.           *)
LEMMA LeastNat ==
    ASSUME NEW S, S \subseteq Nat, S # {}
    PROVE  \E x \in S : \A y \in S : x <= y
<1>. DEFINE R == {p \in Nat \X Nat : p[1] < p[2]}
<1>1. OpToRel(<, Nat) = R
  BY DEF OpToRel
<1>2. IsWellFoundedOn(R, Nat)
  BY <1>1, NatLessThanWellFounded
<1>3. PICK x \in S : \A y \in S : ~(<<y, x>> \in R)
  <2>. HIDE DEF R
  <2>. QED  BY <1>2, WFMin
<1>4. ASSUME NEW y \in S PROVE x <= y
  <2>1. x \in Nat /\ y \in Nat /\ <<y, x>> \in Nat \X Nat
    BY <1>4
  <2>2. ~(<<y, x>>[1] < <<y, x>>[2])
    BY <1>3, <1>4, <2>1
  <2>. QED  BY <2>1, <2>2
<1>. QED  BY <1>4

LEMMA UpTo ==
    ASSUME NEW N \in Nat, NEW S, 0 \in S,
           \A n \in 1..N : n - 1 \in S => n \in S
    PROVE  \A n \in 0..N : n \in S
<1>. DEFINE out == {n \in 0..N : n \notin S}
<1>. SUFFICES ASSUME out # {} PROVE FALSE
  OBVIOUS
<1>1. PICK n \in out : \A k \in out : n <= k
  <2>1. out \subseteq Nat
    OBVIOUS
  <2>. HIDE DEF out
  <2>. QED  BY <2>1, LeastNat
<1>2. n \in 1..N /\ n - 1 \in 0..N /\ ~(n <= n - 1)
  BY <1>1
<1>3. n - 1 \in S
  BY <1>1, <1>2
<1>. QED  BY <1>1, <1>2, <1>3

Picking(s, S, f, m) ==
    [n \in 0..m |-> IF n = 0 THEN <<>>
                    ELSE IF s[n] \in S THEN Append(f[n - 1], s[n])
                    ELSE f[n - 1]]

LEMMA PickingExists ==
    ASSUME NEW N \in Nat, NEW s, NEW S
    PROVE  \E f : f = Picking(s, S, f, N)
<1>. DEFINE Done == {m \in 0..N : \E f : f = Picking(s, S, f, m)}
<1>1. 0 \in Done
  <2>. DEFINE f == [n \in 0..0 |-> <<>>]
  <2>1. f = Picking(s, S, f, 0)
    BY DEF Picking
  <2>. QED  BY <2>1
<1>2. ASSUME NEW m \in 1..N, m - 1 \in Done PROVE m \in Done
  <2>1. PICK f : f = Picking(s, S, f, m - 1)
    BY <1>2
  <2>. DEFINE last == IF s[m] \in S THEN Append(f[m - 1], s[m]) ELSE f[m - 1]
              g == [n \in 0..m |-> IF n = m THEN last ELSE f[n]]
  <2>2. \A n \in 0..(m - 1) :
          f[n] = IF n = 0 THEN <<>>
                 ELSE IF s[n] \in S THEN Append(f[n - 1], s[n]) ELSE f[n - 1]
    BY <2>1 DEF Picking
  <2>3. ASSUME NEW n \in 0..m
        PROVE  g[n] = IF n = 0 THEN <<>>
                      ELSE IF s[n] \in S THEN Append(g[n - 1], s[n])
                      ELSE g[n - 1]
    <3>1. n # 0 => n - 1 \in 0..m /\ n - 1 # m /\ g[n - 1] = f[n - 1]
      OBVIOUS
    <3>2. CASE n = m
      <4>1. g[n] = last
        BY <3>2
      <4>. HIDE DEF g
      <4>. QED  BY <3>1, <3>2, <4>1
    <3>3. CASE n # m
      <4>1. g[n] = f[n] /\ n \in 0..(m - 1)
        BY <3>3
      <4>. HIDE DEF g
      <4>. QED  BY <2>2, <3>1, <4>1
    <3>. QED  BY <3>2, <3>3
  <2>4. g = Picking(s, S, g, m)
    <3>1. g = [n \in 0..m |-> g[n]]
      OBVIOUS
    <3>. HIDE DEF g
    <3>. QED  BY <2>3, <3>1 DEF Picking
  <2>. QED  BY <2>4
<1>. HIDE DEF Done
<1>3. N \in Done
  BY <1>1, <1>2, UpTo
<1>. QED  BY <1>3 DEF Done

Picks(s, S, f) ==
    /\ Picked(s, S) = f[Len(s)]
    /\ f[0] = <<>>
    /\ \A n \in 1..Len(s) :
         f[n] = IF s[n] \in S THEN Append(f[n - 1], s[n]) ELSE f[n - 1]

LEMMA PickedBy ==
    ASSUME NEW s, Len(s) \in Nat, NEW S
    PROVE  \E f : Picks(s, S, f)
<1>. DEFINE f == CHOOSE f : f = Picking(s, S, f, Len(s))
<1>1. f = Picking(s, S, f, Len(s))
  BY PickingExists, Zenon
<1>2. Picked(s, S) = f[Len(s)]
  BY Zenon DEF Picked, Picking
<1>. HIDE DEF f
<1>3. \A n \in 0..Len(s) :
          f[n] = IF n = 0 THEN <<>>
                 ELSE IF s[n] \in S THEN Append(f[n - 1], s[n]) ELSE f[n - 1]
  BY <1>1 DEF Picking
<1>. QED  BY <1>2, <1>3 DEF Picks

(* What is picked: the elements that are in S, and no others.              *)
LEMMA PickedIn ==
    ASSUME NEW X, NEW s \in Seq(X), NEW S
    PROVE  /\ Picked(s, S) \in Seq(X)
           /\ Range(Picked(s, S)) = Range(s) \cap S
<1>0. PICK f : Picks(s, S, f)
  <2>1. Len(s) \in Nat
    OBVIOUS
  <2>. QED  BY <2>1, PickedBy
<1>1. /\ Picked(s, S) = f[Len(s)]
      /\ f[0] = <<>>
      /\ \A n \in 1..Len(s) :
           f[n] = IF s[n] \in S THEN Append(f[n - 1], s[n]) ELSE f[n - 1]
  BY <1>0 DEF Picks
<1>. DEFINE First(n) == {s[k] : k \in 1..n} \cap S
            Good == {n \in 0..Len(s) : f[n] \in Seq(X) /\ Range(f[n]) = First(n)}
<1>2. 0 \in Good
  <2>1. /\ <<>> \in Seq(X) /\ Range(<<>>) = {} /\ First(0) = {}
        /\ 0 \in 0..Len(s)
    BY DEF Range
  <2>. HIDE DEF First
  <2>. QED  BY <1>1, <2>1
<1>3. ASSUME NEW n \in 1..Len(s), n - 1 \in Good PROVE n \in Good
  <2>1. s[n] \in X /\ n \in 0..Len(s)
    OBVIOUS
  <2>2. f[n - 1] \in Seq(X) /\ Range(f[n - 1]) = First(n - 1)
    BY <1>3
  <2>3. First(n) = First(n - 1) \cup ({s[n]} \cap S)
    <3>1. 1..n = 1..(n - 1) \cup {n}
      OBVIOUS
    <3>. QED  BY <3>1
  <2>4. \A t \in Seq(X) : Range(Append(t, s[n])) = Range(t) \cup {s[n]}
    <3>. SUFFICES ASSUME NEW t \in Seq(X)
                  PROVE  Range(Append(t, s[n])) = Range(t) \cup {s[n]}
      OBVIOUS
    <3>1. /\ DOMAIN t = 1..Len(t) /\ Len(t) \in Nat
          /\ DOMAIN Append(t, s[n]) = 1..(Len(t) + 1)
          /\ \A k \in 1..Len(t) : Append(t, s[n])[k] = t[k]
          /\ Append(t, s[n])[Len(t) + 1] = s[n]
      BY <2>1
    <3>2. 1..(Len(t) + 1) = 1..Len(t) \cup {Len(t) + 1}
      BY <3>1
    <3>. QED  BY <3>1, <3>2 DEF Range
  <2>5. CASE s[n] \in S
    <3>1. f[n] = Append(f[n - 1], s[n])
      BY <1>1, <2>5
    <3>2. f[n] \in Seq(X)
      BY <2>1, <2>2, <3>1
    <3>3. Range(f[n]) = First(n)
      <4>. HIDE DEF First
      <4>. QED  BY <2>2, <2>3, <2>4, <2>5, <3>1
    <3>. QED  BY <2>1, <3>2, <3>3
  <2>6. CASE s[n] \notin S
    <3>1. f[n] = f[n - 1]
      BY <1>1, <2>6
    <3>2. Range(f[n]) = First(n)
      <4>. HIDE DEF First
      <4>. QED  BY <2>2, <2>3, <2>6, <3>1
    <3>. QED  BY <2>1, <2>2, <3>1, <3>2
  <2>. QED  BY <2>5, <2>6
<1>4. Len(s) \in Good
  <2>1. Len(s) \in Nat /\ Len(s) \in 0..Len(s)
    OBVIOUS
  <2>. HIDE DEF Good
  <2>. QED  BY <1>2, <1>3, <2>1, UpTo
<1>5. First(Len(s)) = Range(s) \cap S
  BY DEF Range
<1>. QED  BY <1>1, <1>4, <1>5

LEMMA PickedAll ==
    ASSUME NEW X, NEW s \in Seq(X), NEW S, Range(s) \subseteq S
    PROVE  Picked(s, S) = s
<1>0. PICK f : Picks(s, S, f)
  <2>1. Len(s) \in Nat
    OBVIOUS
  <2>. QED  BY <2>1, PickedBy
<1>1. /\ Picked(s, S) = f[Len(s)]
      /\ f[0] = <<>>
      /\ \A n \in 1..Len(s) :
           f[n] = IF s[n] \in S THEN Append(f[n - 1], s[n]) ELSE f[n - 1]
  BY <1>0 DEF Picks
<1>. DEFINE Good == {n \in 0..Len(s) : /\ f[n] \in Seq(X) /\ Len(f[n]) = n
                                       /\ \A k \in 1..n : f[n][k] = s[k]}
<1>2. 0 \in Good
  <2>1. <<>> \in Seq(X) /\ Len(<<>>) = 0 /\ 0 \in 0..Len(s)
    OBVIOUS
  <2>2. f[0] \in Seq(X) /\ Len(f[0]) = 0 /\ \A k \in 1..0 : f[0][k] = s[k]
    BY <1>1, <2>1
  <2>. QED  BY <2>1, <2>2
<1>3. ASSUME NEW n \in 1..Len(s), n - 1 \in Good PROVE n \in Good
  <2>1. s[n] \in X /\ n \in 0..Len(s) /\ s[n] \in S
    BY DEF Range
  <2>2. f[n] = Append(f[n - 1], s[n])
    BY <1>1, <2>1
  <2>3. /\ f[n - 1] \in Seq(X) /\ Len(f[n - 1]) = n - 1
        /\ \A k \in 1..(n - 1) : f[n - 1][k] = s[k]
    BY <1>3
  <2>4. f[n] \in Seq(X) /\ Len(f[n]) = n
    BY <2>1, <2>2, <2>3
  <2>5. ASSUME NEW k \in 1..n PROVE f[n][k] = s[k]
    BY <2>1, <2>2, <2>3
  <2>. QED  BY <2>1, <2>4, <2>5
<1>4. Len(s) \in Good
  <2>1. Len(s) \in Nat /\ Len(s) \in 0..Len(s)
    OBVIOUS
  <2>. HIDE DEF Good
  <2>. QED  BY <1>2, <1>3, <2>1, UpTo
<1>5. /\ f[Len(s)] \in Seq(X) /\ Len(f[Len(s)]) = Len(s)
      /\ \A k \in 1..Len(s) : f[Len(s)][k] = s[k]
  BY <1>4
<1>. QED  BY <1>1, <1>5

-----------------------------------------------------------------------------
(* The first pass, on parsed answers.                                      *)

LEMMA LeastOccurs ==
    ASSUME NEW q \in Quotes, Occurs[q] # {}
    PROVE  /\ Min(Occurs[q]) \in Occurs[q]
           /\ \A n \in Occurs[q] : Min(Occurs[q]) <= n
           /\ Min(Occurs[q]) \in Nat
<1>1. Occurs[q] \subseteq Nat
  BY EvidenceAssumption
<1>2. \E x \in Occurs[q] : \A y \in Occurs[q] : x <= y
  BY <1>1, LeastNat
<1>. QED  BY <1>1, <1>2 DEF Min

(* What the first pass makes of the fact at position i.                    *)
Row(answer, i) ==
    [id |-> FactId(i), eid |-> EvidenceId(i), type |-> answer.facts[i].type,
     value |-> answer.facts[i].value, quote |-> answer.facts[i].quote,
     start |-> Min(Occurs[answer.facts[i].quote])]

FactStands(f) ==
    f.quote # NoText /\ f.start \in Occurs[f.quote] /\ ValueHolds(f)

LEMMA RowStands ==
    ASSUME NEW answer, Parsed(answer), NEW i \in Accepted(answer)
    PROVE  /\ Row(answer, i) \in FactRows
           /\ FactStands(Row(answer, i))
<1>. DEFINE f == answer.facts[i]
<1>1. f \in Claimed /\ FactHolds(f) /\ i \in Nat \ {0}
  BY DEF Accepted, Parsed
<1>2. /\ f.type \in FactTypes /\ f.value \in Values /\ f.quote \in Quotes
      /\ f.quote # NoText /\ Occurs[f.quote] # {} /\ ValueHolds(f)
  BY <1>1 DEF Claimed, FactHolds
<1>3. Min(Occurs[f.quote]) \in Nat /\ Min(Occurs[f.quote]) \in Occurs[f.quote]
  BY <1>2, LeastOccurs
<1>. HIDE DEF f
<1>4. FactId(i) \in {"fact"} \X (Nat \ {0})
      /\ EvidenceId(i) \in {"evidence"} \X (Nat \ {0})
  BY <1>1 DEF FactId, EvidenceId
<1>5. /\ Row(answer, i).type = f.type /\ Row(answer, i).value = f.value
      /\ Row(answer, i).quote = f.quote
      /\ Row(answer, i).start = Min(Occurs[f.quote])
  BY DEF Row, f
<1>6. Row(answer, i) \in FactRows
  BY <1>2, <1>3, <1>4 DEF Row, FactRows, f
<1>. QED  BY <1>2, <1>3, <1>5, <1>6 DEF FactStands, ValueHolds

LEMMA CanonicalFacts ==
    ASSUME NEW answer, Parsed(answer)
    PROVE  /\ Canonical(answer).facts \in Seq(FactRows)
           /\ \A f \in Range(Canonical(answer).facts) : FactStands(f)
           /\ Accepted(answer) = DOMAIN answer.facts =>
                Canonical(answer).facts
                  = [i \in DOMAIN answer.facts |-> Row(answer, i)]
<1>. DEFINE D        == DOMAIN answer.facts
            numbered == [i \in D |-> i]
            kept     == Picked(numbered, Accepted(answer))
<1>1. numbered \in Seq(D) /\ Range(numbered) = D
  <2>1. D = 1..Len(answer.facts) /\ Len(answer.facts) \in Nat
    BY DEF Parsed
  <2>2. numbered \in Seq(D)
    <3>. HIDE DEF D
    <3>. QED  BY <2>1
  <2>. QED  BY <2>2 DEF Range
<1>2. kept \in Seq(D) /\ Range(kept) = D \cap Accepted(answer)
  <2>. HIDE DEF numbered
  <2>. QED  BY <1>1, PickedIn
<1>3. Canonical(answer).facts = [k \in DOMAIN kept |-> Row(answer, kept[k])]
  BY DEF Canonical, Row
<1>4. \A k \in DOMAIN kept : kept[k] \in Accepted(answer)
  <2>. HIDE DEF kept
  <2>. QED  BY <1>2 DEF Range
<1>5. DOMAIN kept = 1..Len(kept) /\ Len(kept) \in Nat
  <2>. HIDE DEF kept, numbered
  <2>. QED  BY <1>2
<1>6. Accepted(answer) = D => kept = numbered
  <2>. HIDE DEF numbered
  <2>. QED  BY <1>1, PickedAll
<1>7. Accepted(answer) = D =>
        Canonical(answer).facts = [i \in D |-> Row(answer, i)]
  BY <1>3, <1>6
<1>. HIDE DEF kept, D
<1>8. \A k \in DOMAIN kept : /\ Row(answer, kept[k]) \in FactRows
                             /\ FactStands(Row(answer, kept[k]))
  BY <1>4, RowStands
<1>9. Canonical(answer).facts \in Seq(FactRows)
  BY <1>3, <1>5, <1>8
<1>10. \A f \in Range(Canonical(answer).facts) : FactStands(f)
  BY <1>3, <1>8 DEF Range
<1>. QED  BY <1>7, <1>9, <1>10 DEF D

LEMMA ByIdTyped ==
    ASSUME NEW answer, Parsed(answer)
    PROVE  /\ \A item \in AdviceItems(Int) :
                ById(item, answer) \in AdviceItems(Ids)
           /\ \A items \in Seq(AdviceItems(Int)) :
                AllById(items, answer) \in Seq(AdviceItems(Ids))
<1>1. Accepted(answer) \subseteq Int
  BY DEF Accepted, Parsed
<1>2. ASSUME NEW item \in AdviceItems(Int)
      PROVE  ById(item, answer) \in AdviceItems(Ids)
  <2>1. \A i \in Int : FactId(i) \in Ids
    BY DEF FactId, Ids
  <2>2. {FactId(i) : i \in item.facts \cap Accepted(answer)} \in SUBSET Ids
    BY <1>1, <2>1
  <2>3. item.guidance \cap DOMAIN answer.guidance \in SUBSET Int
    BY <1>2 DEF AdviceItems
  <2>. QED  BY <1>2, <2>2, <2>3 DEF ById, AdviceItems
<1>3. ASSUME NEW items \in Seq(AdviceItems(Int))
      PROVE  AllById(items, answer) \in Seq(AdviceItems(Ids))
  BY <1>2 DEF AllById
<1>. QED  BY <1>2, <1>3

LEMMA CanonicalShaped ==
    ASSUME NEW answer, Parsed(answer)
    PROVE  Shaped(Canonical(answer))
<1>. DEFINE ids(t) == [n \in DOMAIN t.refs |-> FactId(t.refs[n])]
            task(t) == [titled |-> t.titled, due |-> t.due, refs |-> ids(t)]
            hint(k) == [id |-> k, resource |-> answer.guidance[k].resource,
                        title |-> answer.guidance[k].title,
                        quote |-> answer.guidance[k].quote]
            plan(p) == [outcome |-> ById(p.outcome, answer),
                        deliverable |-> ById(p.deliverable, answer),
                        steps |-> AllById(p.steps, answer),
                        others |-> AllById(p.others, answer)]
<1>1. DOMAIN Canonical(answer) = ResultFields
  BY DEF Canonical, ResultFields
<1>2. Canonical(answer).tasks \in Seq(Todos(Ids))
  <2>1. ASSUME NEW t \in Todos(Int) PROVE task(t) \in Todos(Ids)
    <3>1. \A i \in Int : FactId(i) \in Ids
      BY DEF FactId, Ids
    <3>2. ids(t) \in Seq(Ids)
      BY <2>1, <3>1 DEF Todos
    <3>. QED  BY <2>1, <3>2 DEF Todos
  <2>2. Canonical(answer).tasks
          = [k \in DOMAIN answer.tasks |-> task(answer.tasks[k])]
    BY DEF Canonical
  <2>3. \A k \in DOMAIN answer.tasks : task(answer.tasks[k]) \in Todos(Ids)
    <3>. HIDE DEF task
    <3>. QED  BY <2>1 DEF Parsed
  <2>4. answer.tasks \in Seq(Todos(Int))
    BY DEF Parsed
  <2>. HIDE DEF task
  <2>. QED  BY <2>2, <2>3, <2>4
<1>3. Canonical(answer).guidance \in Seq(Range(Canonical(answer).guidance))
  <2>1. Canonical(answer).guidance = [k \in DOMAIN answer.guidance |-> hint(k)]
    BY DEF Canonical
  <2>2. /\ DOMAIN answer.guidance = 1..Len(answer.guidance)
        /\ Len(answer.guidance) \in Nat
    BY DEF Parsed
  <2>3. PICK g : g = Canonical(answer).guidance
    OBVIOUS
  <2>4. \A k \in 1..Len(answer.guidance) : g[k] \in Range(g)
    BY <2>1, <2>2, <2>3 DEF Range
  <2>5. g = [k \in 1..Len(answer.guidance) |-> g[k]]
    BY <2>1, <2>2, <2>3
  <2>. QED  BY <2>2, <2>3, <2>4, <2>5
<1>4. Canonical(answer).suggestions \in Seq(AdviceItems(Ids))
  BY ByIdTyped DEF Canonical, Parsed
<1>5. Canonical(answer).plan \in Seq(Plans(Ids))
  <2>1. Canonical(answer).plan
          = [k \in DOMAIN answer.plan |-> plan(answer.plan[k])]
    BY DEF Canonical
  <2>2. ASSUME NEW p \in Plans(Int) PROVE plan(p) \in Plans(Ids)
    <3>1. /\ p.outcome \in AdviceItems(Int) /\ p.deliverable \in AdviceItems(Int)
          /\ p.steps \in Seq(AdviceItems(Int))
          /\ p.others \in Seq(AdviceItems(Int))
      BY <2>2 DEF Plans
    <3>. QED  BY <3>1, ByIdTyped DEF Plans
  <2>3. \A k \in DOMAIN answer.plan : plan(answer.plan[k]) \in Plans(Ids)
    <3>. HIDE DEF plan
    <3>. QED  BY <2>2 DEF Parsed
  <2>4. answer.plan \in Seq(Plans(Int))
    BY DEF Parsed
  <2>. HIDE DEF plan
  <2>. QED  BY <2>1, <2>3, <2>4
<1>. QED  BY <1>1, <1>2, <1>3, <1>4, <1>5, CanonicalFacts DEF Shaped

-----------------------------------------------------------------------------
(* The second pass: advice.                                                *)

(* An item that another cleaning would leave as it is.                     *)
Settled(item, ids, gids) ==
    /\ item \in AdviceItems(Ids)
    /\ item.facts \subseteq ids /\ item.guidance \subseteq gids
    /\ Supported(item)
    /\ item.source = "MISSING_UNCERTAIN" =>
         item.facts = {} /\ item.guidance = {}

LEMMA BareSettled ==
    ASSUME NEW ids, NEW gids,
           NEW from \in {"MISSING_UNCERTAIN", "AI_RECOMMENDATION"}
    PROVE  Settled(Bare(from), ids, gids)
BY DEF Settled, Bare, AdviceItems, Supported, Sources

LEMMA CleanItemSettles ==
    ASSUME NEW ids, NEW gids, NEW item \in AdviceItems(Ids)
    PROVE  /\ Supported(CleanItem(item, ids, gids)) =>
                Settled(CleanItem(item, ids, gids), ids, gids)
           /\ Settled(item, ids, gids) => CleanItem(item, ids, gids) = item
           /\ CleanItem(item, ids, gids) \in AdviceItems(Ids)
<1>. DEFINE clean == CleanItem(item, ids, gids)
            uncertain == item.source = "MISSING_UNCERTAIN"
            facts == IF uncertain THEN {} ELSE item.facts \cap ids
            hints == IF uncertain THEN {} ELSE item.guidance \cap gids
<1>1. clean = [item EXCEPT !.facts = facts, !.guidance = hints]
  BY DEF CleanItem
<1>2. facts \in SUBSET Ids /\ hints \in SUBSET Int
  BY DEF AdviceItems
<1>3. /\ facts \subseteq ids /\ hints \subseteq gids
      /\ uncertain => facts = {} /\ hints = {}
  OBVIOUS
<1>. HIDE DEF clean
<1>4. clean \in AdviceItems(Ids) /\ clean.source = item.source
      /\ clean.facts = facts /\ clean.guidance = hints
  <2>. HIDE DEF facts, hints
  <2>. QED  BY <1>1, <1>2 DEF AdviceItems
<1>5. Supported(clean) => Settled(clean, ids, gids)
  <2>. HIDE DEF facts, hints
  <2>. QED  BY <1>3, <1>4 DEF Settled
<1>6. ASSUME Settled(item, ids, gids) PROVE clean = item
  <2>1. facts = item.facts /\ hints = item.guidance
    BY <1>6 DEF Settled
  <2>. HIDE DEF facts, hints
  <2>. QED  BY <1>1, <2>1 DEF AdviceItems
<1>. QED  BY <1>4, <1>5, <1>6 DEF clean

LEMMA CleanItemsSettle ==
    ASSUME NEW ids, NEW gids, NEW items \in Seq(AdviceItems(Ids))
    PROVE  /\ CleanItems(items, ids, gids) \in Seq(AdviceItems(Ids))
           /\ \A x \in Range(CleanItems(items, ids, gids)) :
                Settled(x, ids, gids)
           /\ (\A x \in Range(items) : Settled(x, ids, gids)) =>
                CleanItems(items, ids, gids) = items
<1>. DEFINE clean == [k \in DOMAIN items |-> CleanItem(items[k], ids, gids)]
            good  == {item \in Range(clean) : Supported(item)}
<1>1. \A k \in DOMAIN items : items[k] \in AdviceItems(Ids)
  OBVIOUS
<1>2. clean \in Seq(AdviceItems(Ids))
  <2>1. \A k \in DOMAIN items :
          CleanItem(items[k], ids, gids) \in AdviceItems(Ids)
    BY <1>1, CleanItemSettles
  <2>. QED  BY <2>1
<1>3. CleanItems(items, ids, gids) = Picked(clean, good)
  BY DEF CleanItems
<1>4. \A x \in Range(clean) : Supported(x) => Settled(x, ids, gids)
  BY <1>1, CleanItemSettles DEF Range
<1>5. /\ Picked(clean, good) \in Seq(AdviceItems(Ids))
      /\ Range(Picked(clean, good)) = Range(clean) \cap good
  <2>. HIDE DEF clean, good
  <2>. QED  BY <1>2, PickedIn
<1>6. \A x \in Range(Picked(clean, good)) : Settled(x, ids, gids)
  BY <1>4, <1>5
<1>7. ASSUME \A x \in Range(items) : Settled(x, ids, gids)
      PROVE  Picked(clean, good) = items
  <2>1. \A k \in DOMAIN items : Settled(items[k], ids, gids)
    BY <1>7 DEF Range
  <2>2. clean = items
    <3>1. \A k \in DOMAIN items : CleanItem(items[k], ids, gids) = items[k]
      BY <1>1, <2>1, CleanItemSettles
    <3>. QED  BY <3>1
  <2>3. Range(clean) \subseteq good
    BY <1>7, <2>2 DEF Settled
  <2>4. Picked(clean, good) = clean
    <3>. HIDE DEF clean, good
    <3>. QED  BY <1>2, <2>3, PickedAll
  <2>. QED  BY <2>2, <2>4
<1>. HIDE DEF clean, good
<1>. QED  BY <1>3, <1>5, <1>6, <1>7

SettledPlan(p, ids, gids) ==
    /\ p \in Plans(Ids)
    /\ Settled(p.outcome, ids, gids) /\ Settled(p.deliverable, ids, gids)
    /\ \A x \in Range(p.steps) : Settled(x, ids, gids)
    /\ \A x \in Range(p.others) : Settled(x, ids, gids)
    /\ p.steps # <<>>

LEMMA ListOf ==
    /\ \A X : \A x \in X : <<x>> \in Seq(X) /\ Range(<<x>>) = {x} /\ <<x>> # <<>>
    /\ \A X : \A x, y \in X : <<x, y>> \in Seq(X) /\ Range(<<x, y>>) = {x, y}
BY DEF Range

LEMMA MinimalSettled ==
    ASSUME NEW ids, NEW gids
    PROVE  SettledPlan(MinimalPlan, ids, gids)
<1>. DEFINE no  == Bare("MISSING_UNCERTAIN")
            own == Bare("AI_RECOMMENDATION")
<1>1. Settled(no, ids, gids) /\ Settled(own, ids, gids)
  BY BareSettled
<1>2. no \in AdviceItems(Ids) /\ own \in AdviceItems(Ids)
  BY <1>1 DEF Settled
<1>3. /\ MinimalPlan.outcome = no /\ MinimalPlan.deliverable = own
      /\ MinimalPlan.steps = <<own>> /\ MinimalPlan.others = <<no, own>>
      /\ MinimalPlan = [outcome |-> no, deliverable |-> own, steps |-> <<own>>,
                        others |-> <<no, own>>]
  BY DEF MinimalPlan
<1>. HIDE DEF no, own
<1>4. /\ <<own>> \in Seq(AdviceItems(Ids)) /\ <<no, own>> \in Seq(AdviceItems(Ids))
      /\ Range(<<own>>) = {own} /\ Range(<<no, own>>) = {no, own}
      /\ <<own>> # <<>>
  BY <1>2, ListOf
<1>5. MinimalPlan \in Plans(Ids)
  BY <1>2, <1>3, <1>4 DEF Plans
<1>. QED  BY <1>1, <1>3, <1>4, <1>5 DEF SettledPlan

LEMMA CleanPlanSettles ==
    ASSUME NEW ids, NEW gids, NEW p \in Plans(Ids)
    PROVE  /\ SettledPlan(CleanPlan(p, ids, gids), ids, gids)
           /\ SettledPlan(p, ids, gids) => CleanPlan(p, ids, gids) = p
<1>. DEFINE outcome     == OrElse(CleanItem(p.outcome, ids, gids),
                                  "MISSING_UNCERTAIN")
            deliverable == OrElse(CleanItem(p.deliverable, ids, gids),
                                  "AI_RECOMMENDATION")
            some        == CleanItems(p.steps, ids, gids)
            steps       == IF some = <<>> THEN MinimalPlan.steps ELSE some
            others      == CleanItems(p.others, ids, gids)
            clean       == CleanPlan(p, ids, gids)
<1>1. /\ p.outcome \in AdviceItems(Ids) /\ p.deliverable \in AdviceItems(Ids)
      /\ p.steps \in Seq(AdviceItems(Ids)) /\ p.others \in Seq(AdviceItems(Ids))
      /\ p = [outcome |-> p.outcome, deliverable |-> p.deliverable,
              steps |-> p.steps, others |-> p.others]
  BY DEF Plans
<1>2. clean = [outcome |-> outcome, deliverable |-> deliverable,
               steps |-> steps, others |-> others]
  BY DEF CleanPlan
<1>3. Settled(outcome, ids, gids) /\ Settled(deliverable, ids, gids)
  BY <1>1, CleanItemSettles, BareSettled DEF OrElse
<1>4. steps \in Seq(AdviceItems(Ids)) /\ steps # <<>>
      /\ \A x \in Range(steps) : Settled(x, ids, gids)
  BY <1>1, CleanItemsSettle, MinimalSettled DEF SettledPlan, Plans
<1>5. others \in Seq(AdviceItems(Ids))
      /\ \A x \in Range(others) : Settled(x, ids, gids)
  BY <1>1, CleanItemsSettle
<1>6. ASSUME SettledPlan(p, ids, gids) PROVE clean = p
  <2>1. outcome = p.outcome /\ deliverable = p.deliverable
    BY <1>1, <1>6, CleanItemSettles DEF SettledPlan, OrElse, Settled
  <2>2. steps = p.steps /\ others = p.others
    BY <1>1, <1>6, CleanItemsSettle DEF SettledPlan
  <2>. HIDE DEF outcome, deliverable, steps, others, clean
  <2>. QED  BY <1>1, <1>2, <2>1, <2>2
<1>. HIDE DEF outcome, deliverable, steps, others
<1>7. /\ clean.outcome = outcome /\ clean.deliverable = deliverable
      /\ clean.steps = steps /\ clean.others = others
  BY <1>2
<1>8. clean \in Plans(Ids)
  BY <1>2, <1>3, <1>4, <1>5 DEF Plans, Settled
<1>. HIDE DEF clean
<1>9. SettledPlan(clean, ids, gids)
  BY <1>3, <1>4, <1>5, <1>7, <1>8 DEF SettledPlan
<1>. QED  BY <1>6, <1>9 DEF clean

-----------------------------------------------------------------------------
(* What the second pass returns, and what a second application of it       *)
(* leaves as it is.                                                        *)

FactIdsOf(result)     == {f.id : f \in Range(result.facts)}
GuidanceIdsOf(result) == {g.id : g \in Range(result.guidance)}

Stands(result) ==
    /\ Shaped(result)
    /\ result = [x \in DOMAIN result |-> result[x]]
    /\ \A f \in Range(result.facts) : FactStands(f)
    /\ \A k \in DOMAIN result.tasks : TaskStands(result.tasks[k], result.facts)
    /\ Coherent(result.class, result.action, result.tasks)
    /\ \A x \in Range(result.suggestions) :
         x.facts \subseteq FactIdsOf(result)
         /\ x.guidance \subseteq GuidanceIdsOf(result)
    /\ \/ result.tasks = <<>> /\ result.plan = <<>>
       \/ result.tasks # <<>> /\ \E p : 
            /\ result.plan = <<p>>
            /\ SettledPlan(p, FactIdsOf(result), GuidanceIdsOf(result))

Quoted(result, lib) ==
    \A g \in Range(result.guidance) :
        /\ g.resource \in DOMAIN lib
        /\ g.title = lib[g.resource].title
        /\ g.quote \in lib[g.resource].quotes

LEMMA KeptAre ==
    ASSUME NEW result, Shaped(result), NEW lib
    PROVE  /\ KeptFacts(result) \in Seq(FactRows)
           /\ \A f \in Range(KeptFacts(result)) : FactStands(f)
           /\ (\A f \in Range(result.facts) : FactStands(f)) =>
                KeptFacts(result) = result.facts
           /\ KeptGuidance(result, lib) \in Seq(Range(result.guidance))
           /\ \A g \in Range(KeptGuidance(result, lib)) :
                /\ g.resource \in DOMAIN lib
                /\ g.title = lib[g.resource].title
                /\ g.quote \in lib[g.resource].quotes
           /\ Quoted(result, lib) => KeptGuidance(result, lib) = result.guidance
<1>. DEFINE good  == {f \in Range(result.facts) : FactStands(f)}
            quoted == {g \in Range(result.guidance) :
                         /\ g.resource \in DOMAIN lib
                         /\ g.title = lib[g.resource].title
                         /\ g.quote \in lib[g.resource].quotes}
<1>1. KeptFacts(result) = Picked(result.facts, good)
  BY DEF KeptFacts, FactStands
<1>2. KeptGuidance(result, lib) = Picked(result.guidance, quoted)
  BY DEF KeptGuidance
<1>3. /\ result.facts \in Seq(FactRows)
      /\ result.guidance \in Seq(Range(result.guidance))
  BY DEF Shaped
<1>4. /\ (\A f \in Range(result.facts) : FactStands(f)) =>
           Range(result.facts) \subseteq good
      /\ Quoted(result, lib) => Range(result.guidance) \subseteq quoted
      /\ \A f \in good : FactStands(f)
      /\ \A g \in quoted : /\ g.resource \in DOMAIN lib
                           /\ g.title = lib[g.resource].title
                           /\ g.quote \in lib[g.resource].quotes
  BY DEF Quoted
<1>. HIDE DEF good, quoted
<1>5. /\ KeptFacts(result) \in Seq(FactRows)
      /\ Range(KeptFacts(result)) \subseteq good
  BY <1>1, <1>3, PickedIn
<1>6. /\ KeptGuidance(result, lib) \in Seq(Range(result.guidance))
      /\ Range(KeptGuidance(result, lib)) \subseteq quoted
  BY <1>2, <1>3, PickedIn
<1>7. (\A f \in Range(result.facts) : FactStands(f)) =>
        KeptFacts(result) = result.facts
  BY <1>1, <1>3, <1>4, PickedAll
<1>8. Quoted(result, lib) => KeptGuidance(result, lib) = result.guidance
  BY <1>2, <1>3, <1>4, PickedAll
<1>. QED  BY <1>4, <1>5, <1>6, <1>7, <1>8

LEMMA CutSettles ==
    ASSUME NEW ids, NEW gids, NEW items \in Seq(AdviceItems(Ids))
    PROVE  /\ CutSuggestions(items, ids, gids) \in Seq(AdviceItems(Ids))
           /\ \A x \in Range(CutSuggestions(items, ids, gids)) :
                x.facts \subseteq ids /\ x.guidance \subseteq gids
           /\ (\A x \in Range(items) :
                 x.facts \subseteq ids /\ x.guidance \subseteq gids) =>
                CutSuggestions(items, ids, gids) = items
<1>. DEFINE cut(x) == [x EXCEPT !.facts = @ \cap ids,
                                !.guidance = @ \cap gids]
            all    == CutSuggestions(items, ids, gids)
<1>1. all = [k \in DOMAIN items |-> cut(items[k])]
  BY DEF CutSuggestions
<1>2. ASSUME NEW x \in AdviceItems(Ids)
      PROVE  /\ cut(x) \in AdviceItems(Ids)
             /\ cut(x).facts \subseteq ids /\ cut(x).guidance \subseteq gids
             /\ x.facts \subseteq ids /\ x.guidance \subseteq gids => cut(x) = x
  <2>1. PICK fs, gs : fs = x.facts \cap ids /\ gs = x.guidance \cap gids
    OBVIOUS
  <2>2. cut(x) = [x EXCEPT !.facts = fs, !.guidance = gs]
    BY <2>1
  <2>3. fs \in SUBSET Ids /\ gs \in SUBSET Int
    BY <1>2, <2>1 DEF AdviceItems
  <2>. HIDE DEF cut
  <2>4. /\ cut(x) \in AdviceItems(Ids) /\ cut(x).source = x.source
        /\ cut(x).facts = fs /\ cut(x).guidance = gs
    BY <1>2, <2>2, <2>3 DEF AdviceItems
  <2>5. fs = x.facts /\ gs = x.guidance => cut(x) = x
    BY <1>2, <2>4 DEF AdviceItems
  <2>. QED  BY <2>1, <2>4, <2>5
<1>. HIDE DEF cut, all
<1>3. \A k \in DOMAIN items : items[k] \in AdviceItems(Ids)
  OBVIOUS
<1>4. all \in Seq(AdviceItems(Ids))
  BY <1>1, <1>2, <1>3
<1>5. \A x \in Range(all) : x.facts \subseteq ids /\ x.guidance \subseteq gids
  BY <1>1, <1>2, <1>3 DEF Range
<1>6. ASSUME \A x \in Range(items) :
               x.facts \subseteq ids /\ x.guidance \subseteq gids
      PROVE  all = items
  <2>1. \A k \in DOMAIN items : cut(items[k]) = items[k]
    BY <1>2, <1>3, <1>6 DEF Range
  <2>. QED  BY <1>1, <2>1
<1>. QED  BY <1>4, <1>5, <1>6 DEF all

(* The fields of what the second pass returns.                             *)
LEMMA CleanedFields ==
    ASSUME NEW result, Shaped(result), NEW lib
    PROVE  LET clean == Cleaned(result, lib) IN
           /\ DOMAIN clean = ResultFields
           /\ clean = [x \in DOMAIN clean |-> clean[x]]
           /\ clean.class = result.class
           /\ clean.action = result.action
           /\ clean.tasks = result.tasks
           /\ clean.facts = KeptFacts(result)
           /\ clean.guidance = KeptGuidance(result, lib)
           /\ clean.suggestions = CutSuggestions(result.suggestions,
                                    FactIdsOf(clean), GuidanceIdsOf(clean))
           /\ clean.plan = PlanAfter(result,
                             FactIdsOf(clean), GuidanceIdsOf(clean))
<1>. DEFINE facts    == KeptFacts(result)
            guidance == KeptGuidance(result, lib)
            ids      == {f.id : f \in Range(facts)}
            gids     == {g.id : g \in Range(guidance)}
            cut      == CutSuggestions(result.suggestions, ids, gids)
            plan     == PlanAfter(result, ids, gids)
<1>1. PICK clean : clean = Cleaned(result, lib)
  OBVIOUS
<1>2. clean = [result EXCEPT !.facts = facts, !.guidance = guidance,
                             !.suggestions = cut, !.plan = plan]
  BY <1>1 DEF Cleaned
<1>3. DOMAIN result = ResultFields
  BY DEF Shaped
<1>. HIDE DEF cut, plan, facts, guidance
<1>4. /\ DOMAIN clean = ResultFields
      /\ clean = [x \in DOMAIN clean |-> clean[x]]
      /\ clean.class = result.class /\ clean.action = result.action
      /\ clean.tasks = result.tasks
      /\ clean.facts = facts /\ clean.guidance = guidance
      /\ clean.suggestions = cut /\ clean.plan = plan
  BY <1>2, <1>3 DEF ResultFields
<1>5. FactIdsOf(clean) = ids /\ GuidanceIdsOf(clean) = gids
  BY <1>4 DEF FactIdsOf, GuidanceIdsOf
<1>6. /\ clean.facts = KeptFacts(result)
      /\ clean.guidance = KeptGuidance(result, lib)
      /\ clean.suggestions = CutSuggestions(result.suggestions,
                               FactIdsOf(clean), GuidanceIdsOf(clean))
      /\ clean.plan = PlanAfter(result, FactIdsOf(clean), GuidanceIdsOf(clean))
  BY <1>4, <1>5 DEF cut, plan, facts, guidance
<1>. QED  BY <1>1, <1>4, <1>6

(* Of any result that passes, what is returned stands and quotes.          *)
LEMMA CleanedStands ==
    ASSUME NEW result, Shaped(result), SecondPass(result), NEW lib
    PROVE  /\ Stands(Cleaned(result, lib))
           /\ Quoted(Cleaned(result, lib), lib)
<1>1. PICK clean : clean = Cleaned(result, lib)
  OBVIOUS
<1>. DEFINE ids  == FactIdsOf(clean)
            gids == GuidanceIdsOf(clean)
<1>2. /\ DOMAIN clean = ResultFields
      /\ clean = [x \in DOMAIN clean |-> clean[x]]
      /\ clean.class = result.class /\ clean.action = result.action
      /\ clean.tasks = result.tasks /\ clean.facts = KeptFacts(result)
      /\ clean.guidance = KeptGuidance(result, lib)
      /\ clean.suggestions = CutSuggestions(result.suggestions, ids, gids)
      /\ clean.plan = PlanAfter(result, ids, gids)
  BY <1>1, CleanedFields
<1>. HIDE DEF ids, gids
<1>3. /\ result.tasks \in Seq(Todos(Ids))
      /\ result.suggestions \in Seq(AdviceItems(Ids))
      /\ result.plan \in Seq(Plans(Ids))
  BY DEF Shaped
<1>4. /\ clean.facts \in Seq(FactRows)
      /\ \A f \in Range(clean.facts) : FactStands(f)
  BY <1>2, KeptAre
<1>5. clean.guidance \in Seq(Range(clean.guidance)) /\ Quoted(clean, lib)
  <2>1. /\ clean.guidance \in Seq(Range(result.guidance))
        /\ \A g \in Range(clean.guidance) :
             /\ g.resource \in DOMAIN lib
             /\ g.title = lib[g.resource].title
             /\ g.quote \in lib[g.resource].quotes
    BY <1>2, KeptAre
  <2>2. \A k \in DOMAIN clean.guidance : clean.guidance[k] \in Range(clean.guidance)
    BY DEF Range
  <2>. QED  BY <2>1, <2>2 DEF Quoted
<1>6. /\ clean.suggestions \in Seq(AdviceItems(Ids))
      /\ \A x \in Range(clean.suggestions) :
           x.facts \subseteq ids /\ x.guidance \subseteq gids
  BY <1>2, <1>3, CutSettles
<1>7. /\ clean.plan \in Seq(Plans(Ids))
      /\ \/ clean.tasks = <<>> /\ clean.plan = <<>>
         \/ clean.tasks # <<>> /\ \E p : /\ clean.plan = <<p>>
                                         /\ SettledPlan(p, ids, gids)
  <2>1. CASE result.tasks = <<>>
    BY <1>2, <2>1 DEF PlanAfter
  <2>2. CASE result.tasks # <<>>
    <3>1. PICK p : /\ clean.plan = <<p>>
                   /\ SettledPlan(p, ids, gids)
      <4>1. CASE result.plan = <<>>
        BY <1>2, <2>2, <4>1, MinimalSettled DEF PlanAfter
      <4>2. CASE result.plan # <<>>
        <5>1. result.plan[1] \in Plans(Ids)
          BY <1>3, <4>2
        <5>2. clean.plan = <<CleanPlan(result.plan[1], ids, gids)>>
          BY <1>2, <2>2, <4>2 DEF PlanAfter
        <5>. QED  BY <5>1, <5>2, CleanPlanSettles
      <4>. QED  BY <4>1, <4>2
    <3>2. <<p>> \in Seq(Plans(Ids))
      BY <3>1, ListOf DEF SettledPlan
    <3>. QED  BY <1>2, <2>2, <3>1, <3>2
  <2>. QED  BY <2>1, <2>2
<1>8. /\ \A k \in DOMAIN clean.tasks : TaskStands(clean.tasks[k], clean.facts)
      /\ Coherent(clean.class, clean.action, clean.tasks)
  BY <1>2 DEF SecondPass
<1>9. Shaped(clean)
  BY <1>2, <1>3, <1>4, <1>5, <1>6, <1>7 DEF Shaped
<1>10. Stands(clean)
  BY <1>2, <1>4, <1>6, <1>7, <1>8, <1>9 DEF Stands, ids, gids
<1>. QED  BY <1>1, <1>5, <1>10

(* A second validation with the same resources changes nothing.            *)
LEMMA CleanedTwice ==
    ASSUME NEW result, Stands(result), NEW lib, Quoted(result, lib)
    PROVE  SecondPass(result) /\ Cleaned(result, lib) = result
<1>1. /\ Shaped(result)
      /\ \A f \in Range(result.facts) : FactStands(f)
      /\ result = [x \in DOMAIN result |-> result[x]]
  BY DEF Stands
<1>2. /\ KeptFacts(result) = result.facts
      /\ KeptGuidance(result, lib) = result.guidance
  BY <1>1, KeptAre
<1>3. SecondPass(result)
  BY <1>2 DEF SecondPass, Stands
<1>4. PICK clean : clean = Cleaned(result, lib)
  OBVIOUS
<1>. DEFINE ids  == FactIdsOf(result)
            gids == GuidanceIdsOf(result)
<1>5. /\ DOMAIN clean = ResultFields
      /\ clean = [x \in DOMAIN clean |-> clean[x]]
      /\ clean.class = result.class /\ clean.action = result.action
      /\ clean.tasks = result.tasks
      /\ clean.facts = result.facts /\ clean.guidance = result.guidance
  BY <1>1, <1>2, <1>4, CleanedFields
<1>6. FactIdsOf(clean) = ids /\ GuidanceIdsOf(clean) = gids
  BY <1>5 DEF FactIdsOf, GuidanceIdsOf
<1>7. /\ clean.suggestions = CutSuggestions(result.suggestions, ids, gids)
      /\ clean.plan = PlanAfter(result, ids, gids)
  <2>1. /\ clean.suggestions = CutSuggestions(result.suggestions,
                                 FactIdsOf(clean), GuidanceIdsOf(clean))
        /\ clean.plan = PlanAfter(result, FactIdsOf(clean),
                                  GuidanceIdsOf(clean))
    BY <1>1, <1>4, CleanedFields
  <2>. HIDE DEF ids, gids
  <2>. QED  BY <1>6, <2>1
<1>8. clean.suggestions = result.suggestions
  <2>1. result.suggestions \in Seq(AdviceItems(Ids))
    BY <1>1 DEF Shaped
  <2>2. \A x \in Range(result.suggestions) :
          x.facts \subseteq ids /\ x.guidance \subseteq gids
    BY DEF Stands
  <2>. HIDE DEF ids, gids
  <2>. QED  BY <1>7, <2>1, <2>2, CutSettles
<1>9. clean.plan = result.plan
  <2>1. CASE result.tasks = <<>>
    <3>1. result.plan = <<>>
      BY <2>1 DEF Stands
    <3>. QED  BY <1>7, <2>1, <3>1 DEF PlanAfter
  <2>2. CASE result.tasks # <<>>
    <3>1. PICK p : result.plan = <<p>> /\ SettledPlan(p, ids, gids)
      BY <2>2 DEF Stands
    <3>2. result.plan # <<>> /\ result.plan[1] = p
      BY <3>1
    <3>3. CleanPlan(p, ids, gids) = p
      <4>1. p \in Plans(Ids)
        BY <3>1 DEF SettledPlan
      <4>. HIDE DEF ids, gids
      <4>. QED  BY <3>1, <4>1, CleanPlanSettles
    <3>. HIDE DEF ids, gids
    <3>. QED  BY <1>7, <2>2, <3>1, <3>2, <3>3 DEF PlanAfter
  <2>. QED  BY <2>1, <2>2
<1>10. DOMAIN result = ResultFields
  BY <1>1 DEF Shaped
<1>11. \A x \in ResultFields : clean[x] = result[x]
  BY <1>5, <1>8, <1>9 DEF ResultFields
<1>12. clean = result
  BY <1>1, <1>5, <1>10, <1>11
<1>. QED  BY <1>3, <1>4, <1>12

-----------------------------------------------------------------------------
(* The verdict.                                                            *)

LEMMA TaskRules ==
    ASSUME NEW answer, Parsed(answer), NEW k \in DOMAIN answer.tasks
    PROVE  LET t == answer.tasks[k] IN
           /\ t \in Todos(Int) /\ t.titled \in BOOLEAN /\ t.due \in DueDates
           /\ t.refs \in Seq(Int)
           /\ answer.facts \in Seq(Claimed)
<1>1. answer.tasks[k] \in Todos(Int)
  BY DEF Parsed
<1>. QED  BY <1>1 DEF Todos, Parsed

(* The first pass is the rules.                                            *)
LEMMA FirstPassIsSound ==
    ASSUME NEW answer, Parsed(answer)
    PROVE  FirstPass(answer) <=> Sound(answer)
<1>. DEFINE Fine(f) == /\ f.quote # NoText /\ Occurs[f.quote] # {}
                       /\ f.type \in {"deadline", "amount", "document", "link"}
                            => f.value \in Within[f.quote]
                       /\ f.type = "link" => f.value \in Links
            Ruled(t) ==
              /\ t.titled /\ t.due # "unreadable"
              /\ t.refs # <<>> /\ IsInjective(t.refs)
              /\ Range(t.refs) \subseteq DOMAIN answer.facts
              /\ t.due \in {"text", "date"} =>
                   \E n \in DOMAIN t.refs :
                     t.refs[n] \in DOMAIN answer.facts
                     /\ answer.facts[t.refs[n]].type = "deadline"
<1>1. (Accepted(answer) = DOMAIN answer.facts)
        <=> \A f \in Range(answer.facts) : Fine(f)
  <2>1. \A f \in Claimed : FactHolds(f) <=> Fine(f)
    BY DEF Claimed, FactTypes, FactHolds, ValueHolds
  <2>2. \A i \in DOMAIN answer.facts : answer.facts[i] \in Claimed
    BY DEF Parsed
  <2>. HIDE DEF Fine
  <2>. QED  BY <2>1, <2>2 DEF Accepted, Range
<1>2. ASSUME Accepted(answer) = DOMAIN answer.facts,
             NEW k \in DOMAIN answer.tasks
      PROVE  TaskHolds(answer.tasks[k], answer) <=> Ruled(answer.tasks[k])
  <2>1. PICK t : t = answer.tasks[k]
    OBVIOUS
  <2>2. t.due \in DueDates
    BY <2>1, TaskRules
  <2>3. (t.due # "none" /\ t.due # "unreadable") <=> t.due \in {"text", "date"}
    BY <2>2 DEF DueDates
  <2>4. ASSUME Range(t.refs) \subseteq DOMAIN answer.facts
        PROVE  (\E i \in Range(t.refs) : answer.facts[i].type = "deadline")
                 <=> \E n \in DOMAIN t.refs :
                       t.refs[n] \in DOMAIN answer.facts
                       /\ answer.facts[t.refs[n]].type = "deadline"
    BY <2>4 DEF Range
  <2>5. TaskHolds(t, answer) <=> Ruled(t)
    BY <1>2, <2>3, <2>4 DEF TaskHolds
  <2>. QED  BY <2>1, <2>5
<1>3. (\A k \in DOMAIN answer.tasks : Ruled(answer.tasks[k]))
        <=> \A t \in Range(answer.tasks) : Ruled(t)
  <2>. HIDE DEF Ruled
  <2>. QED  BY DEF Range
<1>4. Coherent(answer.class, answer.action, answer.tasks)
        <=> /\ answer.action <=> Len(answer.tasks) > 0
            /\ answer.class = "action_required" => answer.action
  <2>1. answer.tasks # <<>> <=> Len(answer.tasks) > 0
    BY DEF Parsed
  <2>2. answer.action \in BOOLEAN
    BY DEF Parsed
  <2>. QED  BY <2>1, <2>2 DEF Coherent
<1>5. Sound(answer) <=>
        /\ \A f \in Range(answer.facts) : Fine(f)
        /\ \A t \in Range(answer.tasks) : Ruled(t)
        /\ answer.action <=> Len(answer.tasks) > 0
        /\ answer.class = "action_required" => answer.action
  BY DEF Sound
<1>. HIDE DEF Fine, Ruled
<1>. QED  BY <1>1, <1>2, <1>3, <1>4, <1>5 DEF FirstPass

(* References by position become references by id to the same facts.       *)
LEMMA CitedIsRow ==
    ASSUME NEW facts, NEW answer,
           facts = [i \in DOMAIN answer.facts |-> Row(answer, i)],
           NEW i \in DOMAIN answer.facts
    PROVE  Cited(FactId(i), facts) = {facts[i]}
<1>1. Range(facts) = {Row(answer, j) : j \in DOMAIN answer.facts}
  BY DEF Range
<1>2. ASSUME NEW j \in DOMAIN answer.facts
      PROVE  /\ Row(answer, j).id = FactId(j)
             /\ Row(answer, j).eid = EvidenceId(j)
             /\ FactId(i) \in {FactId(j), EvidenceId(j)} <=> i = j
  BY DEF Row, FactId, EvidenceId
<1>3. facts[i] = Row(answer, i)
  OBVIOUS
<1>4. \A f \in Range(facts) : FactId(i) \in {f.id, f.eid} <=> f = facts[i]
  <2>. SUFFICES ASSUME NEW j \in DOMAIN answer.facts
       PROVE  FactId(i) \in {Row(answer, j).id, Row(answer, j).eid}
                <=> Row(answer, j) = Row(answer, i)
    BY <1>1, <1>3
  <2>1. /\ Row(answer, j).id = FactId(j) /\ Row(answer, j).eid = EvidenceId(j)
        /\ Row(answer, i).id = FactId(i)
        /\ FactId(i) \in {FactId(j), EvidenceId(j)} <=> i = j
    BY <1>2
  <2>2. FactId(i) = FactId(j) => i = j
    BY DEF FactId
  <2>. QED  BY <2>1, <2>2
<1>5. facts[i] \in Range(facts)
  BY <1>1, <1>3
<1>. QED  BY <1>4, <1>5 DEF Cited

(* An answer that the first pass lets through, and its result.             *)
LEMMA FirstPassRows ==
    ASSUME NEW answer, Parsed(answer), FirstPass(answer)
    PROVE  LET result == Canonical(answer) IN
           /\ KeptFacts(result) = result.facts
           /\ result.facts = [i \in DOMAIN answer.facts |-> Row(answer, i)]
           /\ DOMAIN result.tasks = DOMAIN answer.tasks
           /\ \A k \in DOMAIN answer.tasks :
                /\ result.tasks[k].titled = answer.tasks[k].titled
                /\ result.tasks[k].due = answer.tasks[k].due
                /\ result.tasks[k].refs
                     = [n \in DOMAIN answer.tasks[k].refs |->
                          FactId(answer.tasks[k].refs[n])]
           /\ result.class = answer.class
           /\ result.action = answer.action
<1>1. /\ Canonical(answer).facts = [i \in DOMAIN answer.facts |-> Row(answer, i)]
      /\ \A f \in Range(Canonical(answer).facts) : FactStands(f)
  BY CanonicalFacts DEF FirstPass
<1>2. KeptFacts(Canonical(answer)) = Canonical(answer).facts
  BY <1>1, CanonicalShaped, KeptAre
<1>3. Canonical(answer).tasks
        = [k \in DOMAIN answer.tasks |->
             [titled |-> answer.tasks[k].titled, due |-> answer.tasks[k].due,
              refs |-> [n \in DOMAIN answer.tasks[k].refs |->
                          FactId(answer.tasks[k].refs[n])]]]
  BY DEF Canonical
<1>4. /\ Canonical(answer).class = answer.class
      /\ Canonical(answer).action = answer.action
  BY DEF Canonical
<1>. QED  BY <1>1, <1>2, <1>3, <1>4

LEMMA FirstPassSuffices ==
    ASSUME NEW answer, Parsed(answer), FirstPass(answer)
    PROVE  SecondPass(Canonical(answer))
<1>1. PICK result : result = Canonical(answer)
  OBVIOUS
<1>. DEFINE facts == result.facts
<1>2. /\ KeptFacts(result) = facts
      /\ facts = [i \in DOMAIN answer.facts |-> Row(answer, i)]
      /\ DOMAIN result.tasks = DOMAIN answer.tasks
      /\ \A k \in DOMAIN answer.tasks :
           /\ result.tasks[k].titled = answer.tasks[k].titled
           /\ result.tasks[k].due = answer.tasks[k].due
           /\ result.tasks[k].refs = [n \in DOMAIN answer.tasks[k].refs |->
                                        FactId(answer.tasks[k].refs[n])]
      /\ result.class = answer.class
      /\ result.action = answer.action
  BY <1>1, FirstPassRows
<1>. HIDE DEF facts
<1>3. ASSUME NEW k \in DOMAIN answer.tasks
      PROVE  TaskStands(result.tasks[k], facts)
  <2>1. PICK t, u : t = answer.tasks[k] /\ u = result.tasks[k]
    OBVIOUS
  <2>2. /\ u.titled = t.titled /\ u.due = t.due
        /\ u.refs = [n \in DOMAIN t.refs |-> FactId(t.refs[n])]
    BY <1>2, <1>3, <2>1
  <2>3. TaskHolds(t, answer) /\ Accepted(answer) = DOMAIN answer.facts
    BY <1>3, <2>1 DEF FirstPass
  <2>4. t.refs \in Seq(Int)
    BY <1>3, <2>1, TaskRules
  <2>5. ASSUME NEW n \in DOMAIN t.refs
        PROVE  /\ t.refs[n] \in DOMAIN answer.facts
               /\ Cited(u.refs[n], facts) = {facts[t.refs[n]]}
    <3>1. t.refs[n] \in DOMAIN answer.facts
      BY <2>3, <2>5 DEF TaskHolds, Range
    <3>2. Cited(FactId(t.refs[n]), facts) = {facts[t.refs[n]]}
      BY <1>2, <3>1, CitedIsRow
    <3>. QED  BY <2>2, <2>5, <3>1, <3>2
  <2>6. u.refs # <<>>
    <3>1. t.refs # <<>>
      BY <2>3 DEF TaskHolds
    <3>2. 1 \in DOMAIN t.refs
      BY <2>4, <3>1
    <3>. QED  BY <2>2, <3>2
  <2>7. \A ref \in Range(u.refs) : Cited(ref, facts) # {}
    BY <2>2, <2>5 DEF Range
  <2>8. ASSUME NEW m \in DOMAIN u.refs, NEW n \in DOMAIN u.refs, m # n
        PROVE  Cited(u.refs[m], facts) \cap Cited(u.refs[n], facts) = {}
    <3>1. m \in DOMAIN t.refs /\ n \in DOMAIN t.refs
      BY <2>2, <2>8
    <3>2. t.refs[m] # t.refs[n]
      BY <2>3, <2>8, <3>1 DEF TaskHolds, IsInjective
    <3>3. \A j \in DOMAIN answer.facts : facts[j].id = FactId(j)
      BY <1>2 DEF Row
    <3>4. facts[t.refs[m]] # facts[t.refs[n]]
      <4>1. facts[t.refs[m]].id = FactId(t.refs[m])
            /\ facts[t.refs[n]].id = FactId(t.refs[n])
        BY <2>5, <3>1, <3>3
      <4>. QED  BY <3>2, <4>1 DEF FactId
    <3>. QED  BY <2>5, <3>1, <3>4
  <2>9. ASSUME u.due # "none"
        PROVE  \E f \in CitedBy(u, facts) : f.type = "deadline"
    <3>1. PICK i \in Range(t.refs) : answer.facts[i].type = "deadline"
      BY <2>2, <2>3, <2>9 DEF TaskHolds
    <3>2. PICK n \in DOMAIN t.refs : t.refs[n] = i
      BY <3>1 DEF Range
    <3>3. /\ i \in DOMAIN answer.facts
          /\ Cited(u.refs[n], facts) = {facts[i]}
      BY <2>5, <3>2
    <3>4. facts[i].type = "deadline"
      BY <1>2, <3>1, <3>3 DEF Row
    <3>5. u.refs[n] \in Range(u.refs)
      BY <2>2, <3>2 DEF Range
    <3>6. facts[i] \in CitedBy(u, facts)
      BY <3>3, <3>5 DEF CitedBy
    <3>. QED  BY <3>4, <3>6
  <2>10. u.titled /\ u.due # "unreadable"
    BY <2>2, <2>3 DEF TaskHolds
  <2>11. TaskStands(u, facts)
    BY <2>6, <2>7, <2>8, <2>9, <2>10 DEF TaskStands
  <2>. QED  BY <2>1, <2>11
<1>4. Coherent(result.class, result.action, result.tasks)
  <2>1. answer.tasks # <<>> <=> result.tasks # <<>>
    <3>1. answer.tasks \in Seq(Todos(Int)) /\ result.tasks \in Seq(Todos(Ids))
      BY <1>1, CanonicalShaped DEF Parsed, Shaped
    <3>. QED  BY <1>2, <3>1
  <2>2. Coherent(answer.class, answer.action, answer.tasks)
    BY DEF FirstPass
  <2>. QED  BY <1>2, <2>1, <2>2 DEF Coherent
<1>. QED  BY <1>1, <1>2, <1>3, <1>4 DEF SecondPass

(* What an answer comes to.                                                *)
LEMMA VerdictOf ==
    ASSUME NEW answer, Parsed(answer), NEW lib
    PROVE  /\ Sound(answer) =>
                LET result == Cleaned(Canonical(answer), lib) IN
                /\ Verdict(answer, lib) = <<result>>
                /\ Stands(result) /\ Quoted(result, lib)
                /\ result.facts = [i \in DOMAIN answer.facts |-> Row(answer, i)]
                /\ result.tasks = Canonical(answer).tasks
           /\ ~Sound(answer) => Verdict(answer, lib) = <<>>
<1>1. ASSUME Sound(answer)
      PROVE  LET result == Cleaned(Canonical(answer), lib) IN
             /\ Verdict(answer, lib) = <<result>>
             /\ Stands(result) /\ Quoted(result, lib)
             /\ result.facts = [i \in DOMAIN answer.facts |-> Row(answer, i)]
             /\ result.tasks = Canonical(answer).tasks
  <2>1. FirstPass(answer)
    BY <1>1, FirstPassIsSound
  <2>2. SecondPass(Canonical(answer)) /\ Shaped(Canonical(answer))
    BY <2>1, FirstPassSuffices, CanonicalShaped
  <2>3. Verdict(answer, lib) = <<Cleaned(Canonical(answer), lib)>>
    BY <2>1, <2>2 DEF Verdict
  <2>4. /\ Stands(Cleaned(Canonical(answer), lib))
        /\ Quoted(Cleaned(Canonical(answer), lib), lib)
    BY <2>2, CleanedStands
  <2>5. /\ Cleaned(Canonical(answer), lib).facts = KeptFacts(Canonical(answer))
        /\ Cleaned(Canonical(answer), lib).tasks = Canonical(answer).tasks
    BY <2>2, CleanedFields
  <2>6. KeptFacts(Canonical(answer))
          = [i \in DOMAIN answer.facts |-> Row(answer, i)]
    BY <2>1, FirstPassRows
  <2>. QED  BY <2>3, <2>4, <2>5, <2>6
<1>2. ASSUME ~Sound(answer) PROVE Verdict(answer, lib) = <<>>
  BY <1>2, FirstPassIsSound DEF Verdict
<1>. QED  BY <1>1, <1>2

-----------------------------------------------------------------------------
(* The inductive invariant: what is judged is an answer of the model, what *)
(* waits to be stored, or is stored, stands, and what the worker's session *)
(* holds during its run it read since it asked.                            *)

Scalars ==
    /\ source \in {"gmail", "demo"}
    /\ library \in Libraries /\ held \in Readings
    /\ analyses \in 0..MaxAnalyses

RunFields == {"stage", "by", "attempt", "known", "since", "answer", "result"}

Typed(stage, by, attempt, known, since) ==
    /\ stage \in Stages /\ by \in Callers /\ attempt \in {1, 2}
    /\ known \in Readings /\ since \subseteq Libraries

AnswerFits(stage, answer) ==
    \/ stage = "judging"
       /\ \E a \in Answers \cup LaterAnswers : answer = <<a>>
    \/ stage # "judging" /\ answer = <<>>

ResultFits(stage, known, result) ==
    \/ stage = "found"
       /\ \E r : result = <<r>> /\ Stands(r) /\ Quoted(r, known)
    \/ stage # "found" /\ result = <<>>

RunInv ==
    /\ DOMAIN run = RunFields
    /\ Typed(run.stage, run.by, run.attempt, run.known, run.since)
    /\ AnswerFits(run.stage, run.answer)
    /\ ResultFits(run.stage, run.known, run.result)

StoredInv ==
    \/ stored = <<>>
    \/ \E r : stored = <<Projection(r)>> /\ Stands(r)

(* The texts of a reading, each as it was in one of the libraries.         *)
ReadFrom(reading, libs) ==
    \A r \in DOMAIN reading :
      \E lib \in libs : r \in DOMAIN lib /\ reading[r] = lib[r]

HeldInv ==
    /\ run.by = "worker" => library \in run.since /\ ReadFrom(held, run.since)
    /\ run.stage = "idle" => run.by # "worker"

AnalysisInv == Scalars /\ RunInv /\ StoredInv /\ HeldInv

LEMMA NothingReads ==
    /\ Nothing \in Readings
    /\ \A libs : ReadFrom(Nothing, libs)
<1>1. Nothing \in [{} -> Texts]
  BY DEF Nothing
<1>2. {} \in SUBSET UNION {DOMAIN lib : lib \in Libraries}
  OBVIOUS
<1>3. Nothing \in Readings
  BY <1>1, <1>2 DEF Readings
<1>. QED  BY <1>3 DEF Nothing, ReadFrom

(* A part of what is loaded is a reading, with texts of what was held and  *)
(* of the library of now.                                                  *)
LEMMA LoadedReads ==
    ASSUME NEW kept \in Readings, NEW lib \in Libraries,
           NEW names \in SUBSET DOMAIN lib
    PROVE  LET part == [r \in names |-> Loaded(kept, lib)[r]] IN
           /\ part \in Readings
           /\ Loaded(kept, lib) \in Readings
           /\ \A libs : lib \in libs /\ ReadFrom(kept, libs) =>
                 ReadFrom(part, libs) /\ ReadFrom(Loaded(kept, lib), libs)
<1>. DEFINE all  == Loaded(kept, lib)
            part == [r \in names |-> all[r]]
<1>1. DOMAIN all = DOMAIN lib
      /\ \A r \in DOMAIN lib :
            all[r] = IF r \in DOMAIN kept THEN kept[r] ELSE lib[r]
  BY DEF Loaded
<1>2. \A r \in DOMAIN kept : kept[r] \in Texts
  BY DEF Readings
<1>3. \A r \in DOMAIN lib : lib[r] \in Texts
  BY DEF Texts, Range
<1>4. \A r \in DOMAIN lib : all[r] \in Texts
  BY <1>1, <1>2, <1>3
<1>5. all = [r \in DOMAIN lib |-> all[r]]
  BY DEF Loaded
<1>. HIDE DEF all
<1>6. all \in [DOMAIN lib -> Texts] /\ part \in [names -> Texts]
  BY <1>4, <1>5
<1>7. /\ DOMAIN lib \in SUBSET UNION {DOMAIN l : l \in Libraries}
      /\ names \in SUBSET UNION {DOMAIN l : l \in Libraries}
  OBVIOUS
<1>8. all \in Readings /\ part \in Readings
  BY <1>6, <1>7 DEF Readings
<1>9. ASSUME NEW libs, lib \in libs, ReadFrom(kept, libs)
      PROVE  ReadFrom(part, libs) /\ ReadFrom(all, libs)
  <2>1. ReadFrom(all, libs)
    BY <1>1, <1>9 DEF ReadFrom
  <2>2. DOMAIN part = names /\ \A r \in names : part[r] = all[r]
    OBVIOUS
  <2>. HIDE DEF part
  <2>. QED  BY <1>1, <2>1, <2>2 DEF ReadFrom
<1>. QED  BY <1>8, <1>9 DEF all

LEMMA IdleRun ==
    /\ DOMAIN Idle = RunFields
    /\ Idle.stage = "idle" /\ Idle.by = "analyze" /\ Idle.attempt = 1
    /\ Idle.known = Nothing /\ Idle.since = {}
    /\ Idle.answer = <<>> /\ Idle.result = <<>>
BY DEF Idle, RunFields

LEMMA ToIdle ==
    ASSUME run' = Idle
    PROVE  RunInv' /\ HeldInv'
<1>1. /\ DOMAIN run' = RunFields
      /\ run'.stage = "idle" /\ run'.by = "analyze" /\ run'.attempt = 1
      /\ run'.known \in Readings /\ run'.since = {}
      /\ run'.answer = <<>> /\ run'.result = <<>>
  BY IdleRun, NothingReads
<1>. QED
  BY <1>1
     DEF RunInv, Typed, Stages, Callers, AnswerFits, ResultFits, HeldInv

(* A failed run, and a step that leaves resources and run alone.           *)
LEMMA FailureHolds ==
    ASSUME Scalars
    PROVE  HeldAfterFailure \in Readings
BY NothingReads DEF HeldAfterFailure, Scalars

LEMMA SameHeld ==
    ASSUME HeldInv, UNCHANGED <<library, held>>,
           run'.by = run.by, run'.since = run.since,
           run'.stage # "idle" \/ run'.stage = run.stage
    PROVE  HeldInv'
BY DEF HeldInv

LEMMA Standing ==
    ASSUME NEW r, Stands(r), stored' = <<Projection(r)>>
    PROVE  StoredInv'
BY DEF StoredInv

LEMMA AnalysisInit == Init => AnalysisInv
<1>. SUFFICES ASSUME Init PROVE AnalysisInv
  OBVIOUS
<1>1. Scalars /\ run = Idle /\ stored = <<>>
  BY AnalysisAssumption, NothingReads DEF Init, Scalars
<1>2. RunInv /\ HeldInv
  <2>1. /\ DOMAIN run = RunFields
        /\ run.stage = "idle" /\ run.by = "analyze" /\ run.attempt = 1
        /\ run.known \in Readings /\ run.since = {}
        /\ run.answer = <<>> /\ run.result = <<>>
    BY <1>1, IdleRun, NothingReads
  <2>. QED
    BY <2>1
       DEF RunInv, Typed, Stages, Callers, AnswerFits, ResultFits, HeldInv
<1>. QED  BY <1>1, <1>2 DEF AnalysisInv, StoredInv

LEMMA BeginKeeps ==
    ASSUME AnalysisInv, NEW by \in Callers, Begin(by)
    PROVE  AnalysisInv'
<1>. DEFINE from == IF by = "worker" THEN {held, Nothing} ELSE {Nothing}
<1>1. PICK kept \in from :
        run' = [Idle EXCEPT !.stage = "asking", !.by = by,
                            !.known = Loaded(kept, library),
                            !.since = {library}]
  BY Zenon DEF Begin
<1>2. /\ held' = IF by = "worker" THEN Nothing ELSE held
      /\ analyses' = analyses + 1 /\ analyses < MaxAnalyses
      /\ UNCHANGED <<source, library, stored>>
  BY DEF Begin, May
<1>3. Scalars /\ Scalars'
  BY <1>2, AnalysisAssumption, NothingReads DEF AnalysisInv, Scalars
<1>4. PICK known : known = Loaded(kept, library) /\ known \in Readings
  <2>1. kept \in Readings
    BY <1>3, NothingReads DEF Scalars
  <2>2. Loaded(kept, library) \in Readings
    BY <1>3, <2>1, LoadedReads DEF Scalars
  <2>. QED  BY <2>2
<1>5. run' = [Idle EXCEPT !.stage = "asking", !.by = by, !.known = known,
                          !.since = {library}]
  BY <1>1, <1>4
<1>6. /\ DOMAIN run' = RunFields
      /\ run'.stage = "asking" /\ run'.by = by /\ run'.attempt = 1
      /\ run'.known = known /\ run'.since = {library}
      /\ run'.answer = <<>> /\ run'.result = <<>>
  BY <1>5, IdleRun DEF RunFields
<1>7. RunInv'
  BY <1>3, <1>4, <1>6
     DEF Scalars, RunInv, Typed, Stages, AnswerFits, ResultFits
<1>8. HeldInv'
  BY <1>2, <1>6, NothingReads DEF HeldInv
<1>. QED  BY <1>2, <1>3, <1>7, <1>8 DEF AnalysisInv, StoredInv

LEMMA DemoKeeps ==
    ASSUME AnalysisInv, NEW by \in Callers, AnalyzeDemo(by)
    PROVE  AnalysisInv'
<1>1. /\ analyses' = analyses + 1 /\ analyses < MaxAnalyses
      /\ UNCHANGED <<source, library, held, run>>
  BY DEF AnalyzeDemo, May
<1>2. Scalars'
  BY <1>1, AnalysisAssumption DEF AnalysisInv, Scalars
<1>3. StoredInv'
  <2>1. CASE UNCHANGED stored
    BY <2>1 DEF AnalysisInv, StoredInv
  <2>2. ASSUME NEW result \in Fallbacks, SecondPass(result),
               stored' = <<Projection(Cleaned(result, library))>>
        PROVE  StoredInv'
    <3>1. Shaped(result)
      BY AnalysisAssumption
    <3>2. Stands(Cleaned(result, library))
      BY <2>2, <3>1, CleanedStands
    <3>. QED  BY <2>2, <3>2, Standing
  <2>. QED  BY <2>1, <2>2 DEF AnalyzeDemo
<1>. QED  BY <1>1, <1>2, <1>3, SameHeld DEF AnalysisInv, RunInv

LEMMA ReceiveKeeps ==
    ASSUME AnalysisInv, Receive
    PROVE  AnalysisInv'
<1>1. PICK a \in Answers \cup LaterAnswers :
        run' = [run EXCEPT !.stage = "judging", !.answer = <<a>>]
  BY DEF Receive
<1>2. /\ run.stage = "asking"
      /\ UNCHANGED <<source, library, held, stored, analyses>>
  BY DEF Receive
<1>3. DOMAIN run = RunFields
  BY DEF AnalysisInv, RunInv
<1>4. /\ DOMAIN run' = RunFields
      /\ run'.stage = "judging" /\ run'.by = run.by
      /\ run'.attempt = run.attempt /\ run'.known = run.known
      /\ run'.since = run.since
      /\ run'.answer = <<a>> /\ run'.result = run.result
  BY <1>1, <1>3 DEF RunFields
<1>5. RunInv'
  BY <1>2, <1>4
     DEF AnalysisInv, RunInv, Typed, Stages, AnswerFits, ResultFits
<1>. QED  BY <1>2, <1>4, <1>5, SameHeld DEF AnalysisInv, Scalars, StoredInv

(* What a judged answer leads to.                                          *)
LEMMA JudgeIs ==
    ASSUME AnalysisInv, Judge
    PROVE  \E a \in Answers \cup LaterAnswers :
             /\ run.answer = <<a>> /\ run.stage = "judging" /\ Parsed(a)
             /\ Sound(a) =>
                  /\ run' = [run EXCEPT !.stage = "found", !.answer = <<>>,
                               !.result = Verdict(a, run.known)]
                  /\ run'.stage = "found"
             /\ ~Sound(a) =>
                  /\ \/ run' = [run EXCEPT !.stage = "asking", !.answer = <<>>,
                                           !.attempt = 2]
                     \/ run' = Idle
                  /\ run'.stage \in {"asking", "idle"}
<1>1. run.stage = "judging" /\ DOMAIN run = RunFields
  BY DEF Judge, AnalysisInv, RunInv
<1>2. PICK a \in Answers \cup LaterAnswers : run.answer = <<a>>
  BY <1>1 DEF AnalysisInv, RunInv, AnswerFits
<1>3. Parsed(a)
  BY AnalysisAssumption
<1>4. run.answer[1] = a
  BY <1>2
<1>5. run' = IF Verdict(a, run.known) # <<>>
               THEN [run EXCEPT !.stage = "found", !.answer = <<>>,
                                !.result = Verdict(a, run.known)]
             ELSE IF run.attempt = 1
               THEN [run EXCEPT !.stage = "asking", !.answer = <<>>,
                                !.attempt = 2]
             ELSE Idle
  BY <1>4 DEF Judge
<1>6. ASSUME Sound(a)
      PROVE  /\ run' = [run EXCEPT !.stage = "found", !.answer = <<>>,
                          !.result = Verdict(a, run.known)]
             /\ run'.stage = "found"
  <2>1. \A x : <<x>> # <<>>
    OBVIOUS
  <2>2. Verdict(a, run.known) # <<>>
    <3>1. Verdict(a, run.known) = <<Cleaned(Canonical(a), run.known)>>
      BY <1>3, <1>6, VerdictOf
    <3>. QED  BY <2>1, <3>1
  <2>3. run' = [run EXCEPT !.stage = "found", !.answer = <<>>,
                  !.result = Verdict(a, run.known)]
    BY <1>5, <2>2
  <2>. QED  BY <1>1, <2>3 DEF RunFields
<1>7. ASSUME ~Sound(a)
      PROVE  /\ \/ run' = [run EXCEPT !.stage = "asking", !.answer = <<>>,
                                      !.attempt = 2]
                \/ run' = Idle
             /\ run'.stage \in {"asking", "idle"}
  <2>1. Verdict(a, run.known) = <<>>
    BY <1>3, <1>7, VerdictOf
  <2>2. \/ run' = [run EXCEPT !.stage = "asking", !.answer = <<>>,
                              !.attempt = 2]
        \/ run' = Idle
    BY <1>5, <2>1
  <2>3. Idle.stage = "idle"
    BY IdleRun
  <2>. QED  BY <1>1, <2>2, <2>3 DEF RunFields
<1>. QED  BY <1>1, <1>2, <1>3, <1>6, <1>7

LEMMA JudgeKeeps ==
    ASSUME AnalysisInv, Judge
    PROVE  AnalysisInv'
<1>1. UNCHANGED <<source, library, stored, analyses>>
      /\ held' = IF run'.stage = "idle" THEN HeldAfterFailure ELSE held
  BY DEF Judge
<1>2. PICK a \in Answers \cup LaterAnswers :
             /\ run.answer = <<a>> /\ run.stage = "judging" /\ Parsed(a)
             /\ Sound(a) =>
                  run' = [run EXCEPT !.stage = "found", !.answer = <<>>,
                            !.result = Verdict(a, run.known)]
             /\ ~Sound(a) =>
                  \/ run' = [run EXCEPT !.stage = "asking", !.answer = <<>>,
                                        !.attempt = 2]
                  \/ run' = Idle
  BY JudgeIs, Zenon
<1>3. DOMAIN run = RunFields
  BY DEF AnalysisInv, RunInv
<1>4. RunInv' /\ HeldInv'
  <2>1. CASE Sound(a)
    <3>1. PICK r : Verdict(a, run.known) = <<r>> /\ Stands(r)
                   /\ Quoted(r, run.known)
      BY <1>2, <2>1, VerdictOf
    <3>2. run' = [run EXCEPT !.stage = "found", !.answer = <<>>,
                             !.result = <<r>>]
      BY <1>2, <2>1, <3>1
    <3>3. /\ DOMAIN run' = RunFields
          /\ run'.stage = "found" /\ run'.by = run.by
          /\ run'.attempt = run.attempt /\ run'.known = run.known
          /\ run'.since = run.since
          /\ run'.answer = <<>> /\ run'.result = <<r>>
      BY <1>3, <3>2 DEF RunFields
    <3>4. HeldInv'
      BY <1>1, <3>3, SameHeld DEF AnalysisInv
    <3>. QED
      BY <3>1, <3>3, <3>4
         DEF AnalysisInv, RunInv, Typed, Stages, AnswerFits, ResultFits
  <2>2. CASE run' = [run EXCEPT !.stage = "asking", !.answer = <<>>,
                                !.attempt = 2]
    <3>1. /\ DOMAIN run' = RunFields
          /\ run'.stage = "asking" /\ run'.by = run.by
          /\ run'.attempt = 2 /\ run'.known = run.known
          /\ run'.since = run.since
          /\ run'.answer = <<>> /\ run'.result = run.result
      BY <1>3, <2>2 DEF RunFields
    <3>2. HeldInv'
      BY <1>1, <3>1, SameHeld DEF AnalysisInv
    <3>. QED
      BY <1>2, <3>1, <3>2
         DEF AnalysisInv, RunInv, Typed, Stages, AnswerFits, ResultFits
  <2>3. CASE run' = Idle
    BY <2>3, ToIdle
  <2>. QED  BY <1>2, <2>1, <2>2, <2>3
<1>5. Scalars'
  BY <1>1, FailureHolds DEF AnalysisInv, Scalars
<1>. QED  BY <1>1, <1>4, <1>5 DEF AnalysisInv, StoredInv

(* What is stored of what was found.                                       *)
LEMMA StoreIs ==
    ASSUME AnalysisInv, Store
    PROVE  \E r : /\ run.result = <<r>> /\ Stands(r) /\ Quoted(r, run.known)
                  /\ IF run.by = "worker"
                       THEN LET now == Loaded(held, library) IN
                            /\ stored' = <<Projection(Cleaned(r, now))>>
                            /\ Stands(Cleaned(r, now))
                            /\ Quoted(Cleaned(r, now), now)
                       ELSE stored' = <<Projection(r)>>
<1>1. PICK r : run.result = <<r>> /\ Stands(r) /\ Quoted(r, run.known)
  BY DEF Store, AnalysisInv, RunInv, ResultFits
<1>2. run.result[1] = r
  BY <1>1
<1>3. CASE run.by = "worker"
  <2>. DEFINE now == Loaded(held, library)
  <2>1. SecondPass(r) /\ stored' = <<Projection(Cleaned(r, now))>>
    BY <1>2, <1>3 DEF Store
  <2>2. Shaped(r)
    BY <1>1 DEF Stands
  <2>. HIDE DEF now
  <2>3. Stands(Cleaned(r, now)) /\ Quoted(Cleaned(r, now), now)
    BY <2>1, <2>2, CleanedStands
  <2>. QED  BY <1>1, <1>3, <2>1, <2>3 DEF now
<1>4. CASE run.by # "worker"
  <2>1. stored' = <<Projection(r)>>
    BY <1>2, <1>4 DEF Store
  <2>. QED  BY <1>1, <1>4, <2>1
<1>. QED  BY <1>3, <1>4

LEMMA StoreKeeps ==
    ASSUME AnalysisInv, Store
    PROVE  AnalysisInv'
<1>1. UNCHANGED <<source, library, analyses>> /\ run' = Idle
      /\ (held' = Loaded(held, library) \/ held' = held)
  BY DEF Store
<1>2. RunInv' /\ HeldInv'
  BY <1>1, ToIdle
<1>3. StoredInv'
  <2>1. \E r : Stands(r) /\ stored' = <<Projection(r)>>
    BY StoreIs, Zenon
  <2>. QED  BY <2>1, Standing
<1>4. Scalars'
  BY <1>1, LoadedReads DEF AnalysisInv, Scalars
<1>. QED  BY <1>2, <1>3, <1>4 DEF AnalysisInv

(* Another email is judged: the session holds what it has read just now.   *)
LEMMA OtherKeeps ==
    ASSUME AnalysisInv, JudgeOther
    PROVE  AnalysisInv'
<1>1. PICK names \in SUBSET DOMAIN library :
        held' = [r \in names |-> Loaded(held, library)[r]]
  BY DEF JudgeOther
<1>2. UNCHANGED <<source, library, stored, run, analyses>>
  BY DEF JudgeOther
<1>3. /\ held' \in Readings
      /\ \A libs : library \in libs /\ ReadFrom(held, libs) =>
           ReadFrom(held', libs)
  BY <1>1, LoadedReads, Zenon DEF AnalysisInv, Scalars
<1>4. HeldInv'
  BY <1>2, <1>3 DEF AnalysisInv, HeldInv
<1>. QED
  BY <1>2, <1>3, <1>4 DEF AnalysisInv, Scalars, RunInv, StoredInv

LEMMA EditKeeps ==
    ASSUME AnalysisInv, EditResources
    PROVE  AnalysisInv'
<1>1. /\ library' \in Libraries /\ UNCHANGED <<source, held, stored, analyses>>
      /\ run' = IF run.stage = "idle" THEN run
                ELSE [run EXCEPT !.since = run.since \cup {library'}]
  BY DEF EditResources
<1>2. CASE run.stage = "idle"
  <2>1. run' = run
    BY <1>1, <1>2
  <2>2. run.by # "worker"
    BY <1>2 DEF AnalysisInv, HeldInv
  <2>. QED
    BY <1>1, <2>1, <2>2 DEF AnalysisInv, Scalars, RunInv, StoredInv, HeldInv
<1>3. CASE run.stage # "idle"
  <2>1. run' = [run EXCEPT !.since = run.since \cup {library'}]
    BY <1>1, <1>3
  <2>2. DOMAIN run = RunFields
    BY DEF AnalysisInv, RunInv
  <2>3. /\ DOMAIN run' = RunFields
        /\ run'.stage = run.stage /\ run'.by = run.by
        /\ run'.attempt = run.attempt /\ run'.known = run.known
        /\ run'.since = run.since \cup {library'}
        /\ run'.answer = run.answer /\ run'.result = run.result
    BY <2>1, <2>2 DEF RunFields
  <2>4. RunInv'
    BY <1>1, <2>3 DEF AnalysisInv, RunInv, Typed
  <2>5. HeldInv'
    BY <1>1, <2>3 DEF AnalysisInv, HeldInv, ReadFrom
  <2>. QED  BY <1>1, <2>4, <2>5 DEF AnalysisInv, Scalars, StoredInv
<1>. QED  BY <1>2, <1>3

LEMMA AnalysisStep == AnalysisInv /\ [Next]_vars => AnalysisInv'
<1>. SUFFICES ASSUME AnalysisInv, [Next]_vars PROVE AnalysisInv'
  OBVIOUS
<1>1. ASSUME NEW by \in Callers, Begin(by) PROVE AnalysisInv'
  BY <1>1, BeginKeeps
<1>2. ASSUME NEW by \in Callers, AnalyzeDemo(by) PROVE AnalysisInv'
  BY <1>2, DemoKeeps
<1>3. CASE AskFails \/ StoreFails
  <2>1. /\ run' = Idle /\ held' = HeldAfterFailure
        /\ UNCHANGED <<source, library, stored, analyses>>
    BY <1>3 DEF AskFails, StoreFails
  <2>2. RunInv' /\ HeldInv'
    BY <2>1, ToIdle
  <2>. QED
    BY <2>1, <2>2, FailureHolds DEF AnalysisInv, Scalars, StoredInv
<1>4. CASE Receive
  BY <1>4, ReceiveKeeps
<1>5. CASE Judge
  BY <1>5, JudgeKeeps
<1>6. CASE Store
  BY <1>6, StoreKeeps
<1>7. CASE JudgeOther
  BY <1>7, OtherKeeps
<1>8. CASE EditResources
  BY <1>8, EditKeeps
<1>9. CASE UNCHANGED vars
  BY <1>9 DEF vars, AnalysisInv, Scalars, RunInv, StoredInv, HeldInv
<1>. QED
  BY <1>1, <1>2, <1>3, <1>4, <1>5, <1>6, <1>7, <1>8, <1>9 DEF Next

LEMMA AnalysisAlways == Spec => []AnalysisInv
BY AnalysisInit, AnalysisStep, PTL DEF Spec

-----------------------------------------------------------------------------
(* What is stored.                                                         *)

LEMMA ProjectionIs ==
    ASSUME NEW r
    PROVE  LET s == Projection(r)
               chosen == r.action /\ r.tasks # <<>>
           IN /\ s.result = r
              /\ s.action = chosen
              /\ s.evidence = EvidenceOf(r)
              /\ s.task = IF chosen THEN <<TaskRow(r.tasks[1], r.facts)>>
                          ELSE <<>>
BY DEF Projection

LEMMA StoredIs ==
    ASSUME StoredInv, NEW s \in Range(stored)
    PROVE  /\ \E r : s = Projection(r) /\ Stands(r)
           /\ Len(stored) = 1
<1>1. stored # <<>>
  BY DEF Range
<1>2. PICK r : stored = <<Projection(r)>> /\ Stands(r)
  BY <1>1 DEF StoredInv
<1>3. \A x : Range(<<x>>) = {x} /\ Len(<<x>>) = 1
  BY DEF Range
<1>. QED  BY <1>2, <1>3

LEMMA AtMostOne ==
    ASSUME NEW t, t = <<>> \/ \E x : t = <<x>>
    PROVE  Len(t) <= 1
<1>1. CASE t = <<>>
  BY <1>1
<1>2. CASE \E x : t = <<x>>
  <2>1. PICK x : t = <<x>>
    BY <1>2
  <2>2. Len(t) = 1
    BY <2>1
  <2>. QED  BY <2>2
<1>. QED  BY <1>1, <1>2

(* A prepared result or a verdict, run and resources keep their types.     *)
THEOREM AnalysisTypes == Spec => []TypeOK
<1>1. ASSUME AnalysisInv PROVE TypeOK
  <2>1. /\ run.stage \in Stages /\ run.by \in Callers /\ run.attempt \in {1, 2}
        /\ run.known \in Readings /\ run.since \subseteq Libraries
    BY <1>1 DEF AnalysisInv, RunInv, Typed
  <2>2. Len(<<>>) = 0 /\ \A x : Len(<<x>>) = 1
    OBVIOUS
  <2>3. Len(run.answer) = IF run.stage = "judging" THEN 1 ELSE 0
    BY <1>1, <2>2 DEF AnalysisInv, RunInv, AnswerFits
  <2>4. Len(run.result) = IF run.stage = "found" THEN 1 ELSE 0
    BY <1>1, <2>2 DEF AnalysisInv, RunInv, ResultFits
  <2>5. ASSUME NEW s \in Range(stored)
        PROVE  /\ \A f \in Range(s.result.facts) : f \in FactRows
               /\ Len(s.result.plan) <= 1 /\ Len(s.task) <= 1
               /\ Len(stored) = 1
    <3>1. PICK r : s = Projection(r) /\ Stands(r)
      BY <1>1, StoredIs DEF AnalysisInv
    <3>2. r.facts \in Seq(FactRows)
      BY <3>1 DEF Stands, Shaped
    <3>3. \A f \in Range(r.facts) : f \in FactRows
      BY <3>2 DEF Range
    <3>4. Len(r.plan) <= 1
      <4>1. r.plan = <<>> \/ \E x : r.plan = <<x>>
        BY <3>1 DEF Stands
      <4>. QED  BY <4>1, AtMostOne
    <3>5. s.result = r /\ (s.task = <<>> \/ \E x : s.task = <<x>>)
      BY <3>1, ProjectionIs
    <3>6. Len(s.task) <= 1
      BY <3>5, AtMostOne
    <3>. QED  BY <1>1, <3>3, <3>4, <3>5, <3>6, StoredIs DEF AnalysisInv
  <2>. QED
    BY <1>1, <2>1, <2>3, <2>4, <2>5 DEF AnalysisInv, Scalars, TypeOK
<1>. QED  BY <1>1, AnalysisAlways, PTL

LEMMA StandsBacked ==
    ASSUME NEW r, Stands(r)
    PROVE  Backed(r)
<1>1. ASSUME NEW k \in DOMAIN r.tasks
      PROVE  CitedBy(r.tasks[k], r.facts) # {}
  <2>1. r.tasks[k] \in Todos(Ids) /\ TaskStands(r.tasks[k], r.facts)
    BY <1>1 DEF Stands, Shaped
  <2>2. /\ r.tasks[k].refs \in Seq(Ids) /\ r.tasks[k].refs # <<>>
        /\ \A ref \in Range(r.tasks[k].refs) : Cited(ref, r.facts) # {}
    BY <2>1 DEF Todos, TaskStands
  <2>3. r.tasks[k].refs[1] \in Range(r.tasks[k].refs)
    BY <2>2 DEF Range
  <2>. QED  BY <2>2, <2>3 DEF CitedBy
<1>2. r.action <=> r.tasks # <<>>
  BY DEF Stands, Coherent
<1>. QED  BY <1>1, <1>2 DEF Backed

(* Whatever the model answers, what is stored is backed by kept facts.     *)
THEOREM BackedAlways == Spec => []StoredIsBacked
<1>1. ASSUME AnalysisInv PROVE StoredIsBacked
  <2>1. ASSUME NEW s \in Range(stored)
        PROVE  /\ Backed(s.result)
               /\ s.action <=> s.task # <<>>
               /\ s.action <=> s.result.action
    <3>1. PICK r : s = Projection(r) /\ Stands(r)
      BY <1>1, StoredIs DEF AnalysisInv
    <3>2. Backed(r)
      BY <3>1, StandsBacked
    <3>. DEFINE chosen == r.action /\ r.tasks # <<>>
    <3>3. /\ s.result = r /\ s.action = chosen
          /\ s.task = IF chosen THEN <<TaskRow(r.tasks[1], r.facts)>> ELSE <<>>
      BY <3>1, ProjectionIs
    <3>4. \A x : <<x>> # <<>>
      OBVIOUS
    <3>5. s.task # <<>> <=> chosen
      BY <3>3, <3>4
    <3>6. chosen <=> r.action
      BY <3>2 DEF Backed
    <3>. HIDE DEF chosen
    <3>. QED  BY <3>2, <3>3, <3>5, <3>6
  <2>. QED  BY <2>1 DEF StoredIsBacked
<1>. QED  BY <1>1, AnalysisAlways, PTL

LEMMA FirstCitedIs ==
    ASSUME NEW task, task.refs \in Seq(Ids), NEW facts
    PROVE  \/ /\ FirstCited(task, facts) = <<>>
              /\ \A ref \in Range(task.refs) : Cited(ref, facts) = {}
           \/ \E f \in CitedBy(task, facts) : FirstCited(task, facts) = <<f>>
<1>. DEFINE good == {ref \in Range(task.refs) : Cited(ref, facts) # {}}
            hits == Picked(task.refs, good)
<1>1. FirstCited(task, facts)
        = IF hits = <<>> THEN <<>>
          ELSE <<CHOOSE f \in Cited(hits[1], facts) : TRUE>>
  BY DEF FirstCited
<1>2. hits \in Seq(Ids) /\ Range(hits) = good
  <2>1. Range(task.refs) \cap good = good
    OBVIOUS
  <2>. HIDE DEF good
  <2>. QED  BY <2>1, PickedIn
<1>3. CASE hits = <<>>
  <2>1. good = {}
    <3>. HIDE DEF hits, good
    <3>. QED  BY <1>2, <1>3 DEF Range
  <2>. QED  BY <1>1, <1>3, <2>1
<1>4. CASE hits # <<>>
  <2>1. hits[1] \in good
    <3>. HIDE DEF hits, good
    <3>1. 1 \in DOMAIN hits
      BY <1>2, <1>4
    <3>. QED  BY <1>2, <3>1 DEF Range
  <2>. HIDE DEF hits
  <2>2. PICK f : f = CHOOSE x \in Cited(hits[1], facts) : TRUE
    OBVIOUS
  <2>3. f \in Cited(hits[1], facts)
    BY <2>1, <2>2
  <2>4. f \in CitedBy(task, facts)
    BY <2>1, <2>3 DEF CitedBy
  <2>. QED  BY <1>1, <1>4, <2>2, <2>4
<1>. QED  BY <1>3, <1>4

(* The deadline that is shown.                                             *)
LEMMA DeadlineIsCited ==
    ASSUME NEW facts \in Seq(FactRows), NEW task \in Todos(Ids),
           TaskStands(task, facts)
    PROVE  /\ task.due = "date" => DeadlineText(task, facts) # "none"
           /\ DeadlineText(task, facts) # "none" =>
                \E f \in CitedBy(task, facts) :
                  f.type = "deadline" /\ f.value = DeadlineText(task, facts)
<1>. DEFINE late      == {f \in Range(facts) : f.type = "deadline"}
            deadlines == Picked(facts, late)
            cited     == FirstCited(task, deadlines)
<1>1. Range(deadlines) = late
  <2>1. Range(facts) \cap late = late
    OBVIOUS
  <2>. HIDE DEF late
  <2>. QED  BY <2>1, PickedIn
<1>2. DeadlineText(task, facts)
        = IF cited # <<>> THEN cited[1].value
          ELSE IF task.due = "none" THEN "none" ELSE "own"
  BY DEF DeadlineText
<1>3. task.refs \in Seq(Ids)
  BY DEF Todos
<1>. HIDE DEF deadlines
<1>4. \A f \in CitedBy(task, deadlines) :
        f \in CitedBy(task, facts) /\ f.type = "deadline" /\ f.value \in Values
  <2>1. \A f \in late : f \in Range(facts) /\ f.type = "deadline"
    OBVIOUS
  <2>2. \A f \in Range(facts) : f \in FactRows
    BY DEF Range
  <2>3. \A f \in FactRows : f.value \in Values
    BY DEF FactRows
  <2>. HIDE DEF late
  <2>. QED  BY <1>1, <2>1, <2>2, <2>3 DEF CitedBy, Cited
<1>5. CASE \E f \in CitedBy(task, deadlines) : cited = <<f>>
  <2>1. PICK f \in CitedBy(task, deadlines) : cited = <<f>>
    BY <1>5
  <2>2. cited # <<>> /\ cited[1] = f
    BY <2>1
  <2>. HIDE DEF cited
  <2>3. DeadlineText(task, facts) = f.value
    BY <1>2, <2>2
  <2>4. f \in CitedBy(task, facts) /\ f.type = "deadline" /\ f.value \in Values
    BY <1>4
  <2>. QED  BY <2>3, <2>4, AnalysisAssumption
<1>6. CASE cited = <<>>
           /\ \A ref \in Range(task.refs) : Cited(ref, deadlines) = {}
  <2>1. task.due = "none"
    <3>. SUFFICES ASSUME task.due # "none" PROVE FALSE
      OBVIOUS
    <3>1. PICK f \in CitedBy(task, facts) : f.type = "deadline"
      BY DEF TaskStands
    <3>2. PICK ref \in Range(task.refs) : f \in Cited(ref, facts)
      BY DEF CitedBy
    <3>3. f \in late
      BY <3>1, <3>2 DEF Cited
    <3>. HIDE DEF late
    <3>4. f \in Cited(ref, deadlines)
      BY <1>1, <3>2, <3>3 DEF Cited
    <3>. QED  BY <1>6, <3>4
  <2>. HIDE DEF cited
  <2>2. DeadlineText(task, facts) = "none"
    BY <1>2, <1>6, <2>1
  <2>. QED  BY <2>1, <2>2
<1>7. \/ /\ cited = <<>>
         /\ \A ref \in Range(task.refs) : Cited(ref, deadlines) = {}
      \/ \E f \in CitedBy(task, deadlines) : cited = <<f>>
  <2>1. PICK d : d = deadlines
    OBVIOUS
  <2>. QED  BY <1>3, <2>1, FirstCitedIs
<1>. QED  BY <1>5, <1>6, <1>7

(* The evidence and the deadline on the task page are of cited facts.      *)
THEOREM TaskShowsAlways == Spec => []TaskShowsItsFacts
<1>1. ASSUME AnalysisInv PROVE TaskShowsItsFacts
  <2>. SUFFICES ASSUME NEW s \in Range(stored), s.task # <<>>
       PROVE LET cited == CitedBy(s.result.tasks[1], s.result.facts) IN
             /\ s.evidence # <<>> /\ Range(s.evidence) \subseteq cited
             /\ \A f \in Range(s.evidence) : f.start \in Occurs[f.quote]
             /\ s.task[1].deadline => s.task[1].text # "none"
             /\ s.task[1].text # "none" =>
                  \E f \in cited :
                    f.type = "deadline" /\ f.value = s.task[1].text
    BY DEF TaskShowsItsFacts
  <2>1. PICK r : s = Projection(r) /\ Stands(r)
    BY <1>1, StoredIs DEF AnalysisInv
  <2>2. /\ s.result = r /\ s.evidence = EvidenceOf(r)
        /\ r.action /\ r.tasks # <<>>
        /\ s.task = <<TaskRow(r.tasks[1], r.facts)>>
    BY <2>1, ProjectionIs
  <2>3. PICK task : task = r.tasks[1]
    OBVIOUS
  <2>4. /\ task \in Todos(Ids) /\ TaskStands(task, r.facts)
        /\ task.refs \in Seq(Ids) /\ task.refs # <<>>
        /\ r.facts \in Seq(FactRows)
        /\ \A f \in Range(r.facts) : FactStands(f)
    <3>1. r.tasks \in Seq(Todos(Ids)) /\ r.facts \in Seq(FactRows)
      BY <2>1 DEF Stands, Shaped
    <3>2. 1 \in DOMAIN r.tasks
      BY <2>2, <3>1
    <3>3. task \in Todos(Ids) /\ TaskStands(task, r.facts)
      BY <2>1, <2>3, <3>1, <3>2 DEF Stands
    <3>. QED  BY <2>1, <3>1, <3>3 DEF Stands, Todos, TaskStands
  <2>5. PICK f \in CitedBy(task, r.facts) : FirstCited(task, r.facts) = <<f>>
    <3>1. task.refs[1] \in Range(task.refs)
      BY <2>4 DEF Range
    <3>2. Cited(task.refs[1], r.facts) # {}
      BY <2>4, <3>1 DEF TaskStands
    <3>. QED  BY <2>4, <3>1, <3>2, FirstCitedIs
  <2>6. s.evidence = <<f>>
    <3>1. <<f>> # <<>>
      OBVIOUS
    <3>. QED  BY <2>2, <2>3, <2>5, <3>1 DEF EvidenceOf
  <2>7. s.evidence # <<>> /\ Range(s.evidence) = {f}
    BY <2>6 DEF Range
  <2>8. f.start \in Occurs[f.quote]
    <3>1. f \in Range(r.facts)
      BY <2>5 DEF CitedBy, Cited
    <3>. QED  BY <2>4, <3>1 DEF FactStands
  <2>9. /\ s.task[1].deadline <=> task.due = "date"
        /\ s.task[1].text = DeadlineText(task, r.facts)
    <3>1. s.task[1] = TaskRow(task, r.facts)
      BY <2>2, <2>3
    <3>2. /\ TaskRow(task, r.facts).deadline = (task.due = "date")
          /\ TaskRow(task, r.facts).text = DeadlineText(task, r.facts)
      BY Zenon DEF TaskRow
    <3>. QED  BY <3>1, <3>2
  <2>. QED  BY <2>2, <2>3, <2>4, <2>7, <2>8, <2>9, DeadlineIsCited
<1>. QED  BY <1>1, AnalysisAlways, PTL

(* Advice cites what was kept, and a task has a plan with a step.          *)
THEOREM AdviceAlways == Spec => []AdviceIsBacked
<1>1. ASSUME AnalysisInv PROVE AdviceIsBacked
  <2>. SUFFICES ASSUME NEW s \in Range(stored)
       PROVE LET ids  == {f.id : f \in Range(s.result.facts)}
                 gids == {g.id : g \in Range(s.result.guidance)}
             IN /\ \A item \in Items(s.result) \cup Range(s.result.suggestions) :
                     item.facts \subseteq ids /\ item.guidance \subseteq gids
                /\ \A item \in Items(s.result) :
                     /\ item.source = "EMAIL_FACT" => item.facts # {}
                     /\ item.source = "BUSINESS_GUIDANCE" => item.guidance # {}
                /\ s.task # <<>> =>
                     s.result.plan # <<>> /\ s.result.plan[1].steps # <<>>
    BY DEF AdviceIsBacked
  <2>1. PICK r : s = Projection(r) /\ Stands(r)
    BY <1>1, StoredIs DEF AnalysisInv
  <2>2. s.result = r /\ (s.task # <<>> => r.tasks # <<>>)
    BY <2>1, ProjectionIs
  <2>3. PICK ids, gids : ids = FactIdsOf(r) /\ gids = GuidanceIdsOf(r)
    OBVIOUS
  <2>4. \A x \in Range(r.suggestions) :
          x.facts \subseteq ids /\ x.guidance \subseteq gids
    BY <2>1, <2>3 DEF Stands
  <2>5. \/ r.tasks = <<>> /\ r.plan = <<>>
        \/ \E p : r.plan = <<p>> /\ SettledPlan(p, ids, gids)
    BY <2>1, <2>3 DEF Stands
  <2>6. \A item \in Items(r) :
          /\ item.facts \subseteq ids /\ item.guidance \subseteq gids
          /\ item.source = "EMAIL_FACT" => item.facts # {}
          /\ item.source = "BUSINESS_GUIDANCE" => item.guidance # {}
    <3>1. CASE r.plan = <<>>
      <4>1. Range(r.plan) = {}
        BY <3>1 DEF Range
      <4>. QED  BY <4>1 DEF Items
    <3>2. CASE \E p : r.plan = <<p>> /\ SettledPlan(p, ids, gids)
      <4>1. PICK p : r.plan = <<p>> /\ SettledPlan(p, ids, gids)
        BY <3>2
      <4>2. Range(r.plan) = {p}
        BY <4>1 DEF Range
      <4>3. \A item \in Items(r) : Settled(item, ids, gids)
        BY <4>1, <4>2 DEF Items, SettledPlan
      <4>. QED  BY <4>3 DEF Settled, Supported
    <3>. QED  BY <2>5, <3>1, <3>2
  <2>7. ASSUME r.tasks # <<>> PROVE r.plan # <<>> /\ r.plan[1].steps # <<>>
    <3>1. PICK p : r.plan = <<p>> /\ SettledPlan(p, ids, gids)
      BY <2>5, <2>7
    <3>2. r.plan # <<>> /\ r.plan[1] = p
      BY <3>1
    <3>. QED  BY <3>1, <3>2 DEF SettledPlan
  <2>8. /\ ids = {f.id : f \in Range(r.facts)}
        /\ gids = {g.id : g \in Range(r.guidance)}
    BY <2>3 DEF FactIdsOf, GuidanceIdsOf
  <2>. QED  BY <2>2, <2>4, <2>6, <2>7, <2>8
<1>. QED  BY <1>1, AnalysisAlways, PTL

-----------------------------------------------------------------------------
(* What a step does.                                                       *)

(* Only Judge ends the judging, and only Store ends what was found.        *)
LEMMA OnlyJudge ==
    ASSUME AnalysisInv, Next, Judged
    PROVE  Judge
<1>1. run.stage = "judging" /\ run' # run /\ run'.stage # run.stage
  BY DEF Judged
<1>2. DOMAIN run = RunFields
  BY DEF AnalysisInv, RunInv
<1>3. ~EditResources
  BY <1>1, <1>2 DEF EditResources, RunFields
<1>. QED
  BY <1>1, <1>3 DEF Next, Begin, AnalyzeDemo, May, AskFails, Receive, Store,
                    StoreFails, JudgeOther

LEMMA OnlyStore ==
    ASSUME Next, run.stage = "found", stored' # stored
    PROVE  Store
BY DEF Next, Begin, AnalyzeDemo, May, AskFails, Receive, Judge, StoreFails,
       JudgeOther, EditResources

(* The verdict accepts the answers that follow the rules, and no others.   *)
THEOREM VerdictAlways == Spec => VerdictIsExact
<1>1. ASSUME AnalysisInv, [Next]_vars
      PROVE  [Judged => (run'.stage = "found" <=> Sound(run.answer[1]))]_vars
  <2>. SUFFICES ASSUME Next, Judged
       PROVE run'.stage = "found" <=> Sound(run.answer[1])
    BY <1>1
  <2>1. Judge
    BY <1>1, OnlyJudge
  <2>2. PICK a \in Answers \cup LaterAnswers :
          /\ run.answer = <<a>>
          /\ Sound(a) => run'.stage = "found"
          /\ ~Sound(a) => run'.stage \in {"asking", "idle"}
    BY <1>1, <2>1, JudgeIs, Zenon
  <2>3. run.answer[1] = a
    BY <2>2
  <2>. QED  BY <2>2, <2>3
<1>. QED  BY <1>1, AnalysisAlways, PTL DEF Spec, VerdictIsExact

(* What is accepted keeps each fact and the references of each task.       *)
THEOREM DropsNothing == Spec => NothingIsDropped
<1>. DEFINE Same(answer, result) ==
              /\ DOMAIN result.facts = DOMAIN answer.facts
              /\ \A i \in DOMAIN answer.facts :
                   /\ result.facts[i].quote = answer.facts[i].quote
                   /\ result.facts[i].start \in Occurs[answer.facts[i].quote]
                   /\ \A n \in Occurs[answer.facts[i].quote] :
                        result.facts[i].start <= n
              /\ DOMAIN result.tasks = DOMAIN answer.tasks
              /\ \A k \in DOMAIN answer.tasks :
                   \A n \in DOMAIN answer.tasks[k].refs :
                     Cited(result.tasks[k].refs[n], result.facts)
                       = {result.facts[answer.tasks[k].refs[n]]}
<1>1. ASSUME NEW a, Parsed(a), Sound(a), NEW r,
             r.facts = [i \in DOMAIN a.facts |-> Row(a, i)],
             r.tasks = Canonical(a).tasks
      PROVE  Same(a, r)
  <2>1. FirstPass(a)
    BY <1>1, FirstPassIsSound
  <2>2. DOMAIN r.facts = DOMAIN a.facts
    BY <1>1
  <2>3. ASSUME NEW i \in DOMAIN a.facts
        PROVE  /\ r.facts[i].quote = a.facts[i].quote
               /\ r.facts[i].start \in Occurs[a.facts[i].quote]
               /\ \A n \in Occurs[a.facts[i].quote] : r.facts[i].start <= n
    <3>1. a.facts[i] \in Claimed /\ FactHolds(a.facts[i])
      BY <1>1, <2>1, <2>3 DEF Parsed, FirstPass, Accepted
    <3>2. a.facts[i].quote \in Quotes /\ Occurs[a.facts[i].quote] # {}
      BY <3>1 DEF Claimed, FactHolds
    <3>3. /\ r.facts[i].quote = a.facts[i].quote
          /\ r.facts[i].start = Min(Occurs[a.facts[i].quote])
      BY <1>1, <2>3 DEF Row
    <3>. QED  BY <3>2, <3>3, LeastOccurs
  <2>4. /\ DOMAIN r.tasks = DOMAIN a.tasks
        /\ \A k \in DOMAIN a.tasks :
             r.tasks[k].refs = [n \in DOMAIN a.tasks[k].refs |->
                                  FactId(a.tasks[k].refs[n])]
    BY <1>1, <2>1, FirstPassRows
  <2>5. ASSUME NEW k \in DOMAIN a.tasks, NEW n \in DOMAIN a.tasks[k].refs
        PROVE  Cited(r.tasks[k].refs[n], r.facts)
                 = {r.facts[a.tasks[k].refs[n]]}
    <3>1. a.tasks[k].refs[n] \in DOMAIN a.facts
      BY <2>1, <2>5 DEF FirstPass, TaskHolds, Range
    <3>2. r.tasks[k].refs[n] = FactId(a.tasks[k].refs[n])
      BY <2>4, <2>5
    <3>3. PICK facts : facts = r.facts
      OBVIOUS
    <3>4. Cited(FactId(a.tasks[k].refs[n]), facts)
            = {facts[a.tasks[k].refs[n]]}
      BY <1>1, <3>1, <3>3, CitedIsRow
    <3>. QED  BY <3>2, <3>3, <3>4
  <2>. QED  BY <2>2, <2>3, <2>4, <2>5
<1>2. ASSUME AnalysisInv, [Next]_vars
      PROVE  [Judged /\ run'.stage = "found" =>
                Same(run.answer[1], run'.result[1])]_vars
  <2>. SUFFICES ASSUME Next, Judged, run'.stage = "found"
       PROVE Same(run.answer[1], run'.result[1])
    BY <1>2, Zenon
  <2>1. Judge
    BY <1>2, OnlyJudge
  <2>2. PICK a \in Answers \cup LaterAnswers :
          /\ run.answer = <<a>> /\ Parsed(a)
          /\ Sound(a) =>
               run' = [run EXCEPT !.stage = "found", !.answer = <<>>,
                         !.result = Verdict(a, run.known)]
          /\ ~Sound(a) => run'.stage \in {"asking", "idle"}
    BY <1>2, <2>1, JudgeIs, Zenon
  <2>3. Sound(a) /\ run.answer[1] = a
    BY <2>2
  <2>4. PICK r : r = Cleaned(Canonical(a), run.known)
    OBVIOUS
  <2>5. /\ Verdict(a, run.known) = <<r>>
        /\ r.facts = [i \in DOMAIN a.facts |-> Row(a, i)]
        /\ r.tasks = Canonical(a).tasks
    BY <2>2, <2>3, <2>4, VerdictOf
  <2>6. run'.result[1] = r
    <3>1. run' = [run EXCEPT !.stage = "found", !.answer = <<>>,
                             !.result = <<r>>]
      BY <2>2, <2>3, <2>5
    <3>2. DOMAIN run = RunFields
      BY <1>2 DEF AnalysisInv, RunInv
    <3>3. run'.result = <<r>>
      BY <3>1, <3>2 DEF RunFields
    <3>. QED  BY <3>3
  <2>7. Same(a, r)
    <3>. HIDE DEF Same
    <3>. QED  BY <1>1, <2>2, <2>3, <2>5
  <2>. HIDE DEF Same
  <2>. QED  BY <2>3, <2>6, <2>7
<1>. QED  BY <1>2, AnalysisAlways, PTL DEF Spec, NothingIsDropped

(* What the worker stores quotes resources that are enabled, with a text    *)
(* they had at some time since it asked; what a route stores quotes what   *)
(* it read; and texts that are as they were read change no result.         *)
THEOREM StoresAlways == Spec => StoresWhatHolds
<1>. DEFINE Has(lib, g) == /\ g.resource \in DOMAIN lib
                           /\ g.quote \in lib[g.resource].quotes
            Fits(g) ==
              IF run.by # "worker" THEN Has(run.known, g)
              ELSE /\ g.resource \in DOMAIN library
                   /\ \E lib \in run.since : Has(lib, g)
                   /\ DOMAIN held = {} => Has(library, g)
            Holds ==
              LET result == stored'[1].result IN
              /\ \A g \in Range(result.guidance) : Fits(g)
              /\ run.by # "worker" \/ Loaded(held, library) = run.known =>
                   result = run.result[1]
<1>1. ASSUME AnalysisInv, [Next]_vars
      PROVE  [run.stage = "found" /\ stored' # stored => Holds]_vars
  <2>. SUFFICES ASSUME Next, run.stage = "found", stored' # stored PROVE Holds
    BY <1>1, Zenon
  <2>. DEFINE now == Loaded(held, library)
  <2>1. Store
    BY OnlyStore
  <2>2. PICK r : /\ run.result = <<r>> /\ Stands(r) /\ Quoted(r, run.known)
                 /\ IF run.by = "worker"
                      THEN /\ stored' = <<Projection(Cleaned(r, now))>>
                           /\ Stands(Cleaned(r, now))
                           /\ Quoted(Cleaned(r, now), now)
                      ELSE stored' = <<Projection(r)>>
    BY <1>1, <2>1, StoreIs, Zenon
  <2>3. run.result[1] = r
    BY <2>2
  <2>4. /\ DOMAIN now = DOMAIN library
        /\ \A n \in DOMAIN library :
             now[n] = IF n \in DOMAIN held THEN held[n] ELSE library[n]
    BY DEF Loaded
  <2>. HIDE DEF now
  <2>5. PICK x : x = IF run.by = "worker" THEN Cleaned(r, now) ELSE r
    OBVIOUS
  <2>6. stored'[1].result = x
    <3>1. stored' = <<Projection(x)>>
      BY <2>2, <2>5
    <3>2. stored'[1] = Projection(x)
      BY <3>1
    <3>. QED  BY <3>2, ProjectionIs
  <2>7. ASSUME NEW g \in Range(x.guidance) PROVE Fits(g)
    <3>1. CASE run.by # "worker"
      BY <2>2, <2>5, <2>7, <3>1 DEF Quoted
    <3>2. CASE run.by = "worker"
      <4>1. g.resource \in DOMAIN now /\ g.quote \in now[g.resource].quotes
        BY <2>2, <2>5, <2>7, <3>2 DEF Quoted
      <4>2. library \in run.since /\ ReadFrom(held, run.since)
        BY <1>1, <3>2 DEF AnalysisInv, HeldInv
      <4>3. CASE g.resource \in DOMAIN held
        <5>1. PICK lib \in run.since : /\ g.resource \in DOMAIN lib
                                       /\ held[g.resource] = lib[g.resource]
          BY <4>2, <4>3 DEF ReadFrom
        <5>. QED  BY <2>4, <3>2, <4>1, <4>3, <5>1
      <4>4. CASE g.resource \notin DOMAIN held
        BY <2>4, <3>2, <4>1, <4>2, <4>4
      <4>. QED  BY <4>3, <4>4
    <3>. QED  BY <3>1, <3>2
  <2>8. run.by # "worker" \/ now = run.known => x = r
    BY <2>2, <2>5, CleanedTwice
  <2>. HIDE DEF Fits
  <2>. QED  BY <2>3, <2>6, <2>7, <2>8 DEF now
<1>. QED  BY <1>1, AnalysisAlways, PTL DEF Spec, StoresWhatHolds

(* Only Store and AnalyzeDemo write the analysis, and both write one.      *)
LEMMA StepKeepsAnalysis ==
    ASSUME [Next]_vars, stored # <<>>
    PROVE  stored' # <<>>
<1>1. ASSUME NEW by \in Callers, Begin(by) PROVE stored' # <<>>
  BY <1>1 DEF Begin
<1>2. ASSUME NEW by \in Callers, AnalyzeDemo(by) PROVE stored' # <<>>
  <2>1. \A x : <<x>> # <<>>  OBVIOUS
  <2>2. \/ stored' = stored
        \/ \E result \in Fallbacks :
              stored' = <<Projection(Cleaned(result, library))>>
    BY <1>2 DEF AnalyzeDemo
  <2>. QED  BY <2>1, <2>2
<1>3. CASE \/ AskFails \/ Receive \/ Judge \/ StoreFails \/ JudgeOther
           \/ EditResources
  BY <1>3 DEF AskFails, Receive, Judge, StoreFails, JudgeOther, EditResources
<1>4. CASE Store
  <2>1. \A x : <<x>> # <<>>  OBVIOUS
  <2>2. \/ stored' = <<Projection(Cleaned(run.result[1],
                                          Loaded(held, library)))>>
        \/ stored' = <<Projection(run.result[1])>>
    BY <1>4 DEF Store
  <2>. QED  BY <2>1, <2>2
<1>5. CASE UNCHANGED vars
  BY <1>5 DEF vars
<1>. QED  BY <1>1, <1>2, <1>3, <1>4, <1>5 DEF Next

(* A forced analysis that fails, in whatever step, leaves what was there.  *)
THEOREM AnalysisKept == Spec => AnalysisIsKept
<1>1. [Next]_vars => [stored # <<>> => stored' # <<>>]_vars
  BY StepKeepsAnalysis
<1>. QED  BY <1>1, PTL DEF Spec, AnalysisIsKept
=============================================================================
