--------------------------- MODULE EnrichmentProofs ---------------------------
(***************************************************************************)
(* What holds of Enrichment for any number of runs, enrichers and subjects *)
(* and any budgets: how the budget bounds the lookups, that a run does not *)
(* look up again what it found, that every subject gets an answer, and     *)
(* that a refusal is the budget's.                                         *)
(***************************************************************************)
EXTENDS Enrichment, FiniteSetTheorems, TLAPS

-----------------------------------------------------------------------------
(* Sizes of sets of subjects *)

LEMMA SubjectSetsAreFinite ==
    ASSUME NEW S \in SUBSET Subjects
    PROVE  IsFiniteSet(S) /\ Cardinality(S) \in Nat
BY SubjectsAssumption, FS_Subset, FS_CardinalityType

LEMMA TakingABatch ==
    ASSUME NEW S \in SUBSET Subjects, NEW batch \in SUBSET S
    PROVE  /\ Cardinality(batch) \in Nat
           /\ Cardinality(S \ batch) \in Nat
           /\ Cardinality(S) = Cardinality(S \ batch) + Cardinality(batch)
<1>1. IsFiniteSet(S) /\ Cardinality(S) \in Nat
  BY SubjectSetsAreFinite
<1>2. Cardinality(S \ batch) = Cardinality(S) - Cardinality(S \cap batch)
  BY <1>1, FS_Difference
<1>3. S \cap batch = batch
  OBVIOUS
<1>4. Cardinality(batch) \in Nat /\ Cardinality(S \ batch) \in Nat
  BY SubjectSetsAreFinite
<1> QED BY <1>1, <1>2, <1>3, <1>4

LEMMA FormsAreSubjects ==
    ASSUME NEW e \in Enrichers, NEW S \in SUBSET Subjects
    PROVE  prefilter(e, S) \in SUBSET Subjects
BY SubjectsAssumption DEF prefilter

LEMMA AnswerType ==
    ASSUME NEW e \in Enrichers, NEW S \in SUBSET Subjects, NEW k \in Kinds
    PROVE  Answer(e, S, k) \subseteq Answers
BY DEF Answer, Answers

LEMMA BudgetType ==
    ASSUME NEW e \in Enrichers
    PROVE  Budget[e] \in Nat
BY LimitsAssumption

-----------------------------------------------------------------------------
(* Types *)

LEMMA InitType == Init => TypeOK
BY LimitsAssumption DEF Init, TypeOK, Phases, Zero, Nothing

LEMMA ForgetType ==
    ASSUME TypeOK, NEW p \in Processes, Forget(p)
    PROVE  /\ asked' \in [Processes -> SUBSET Subjects]
           /\ left' \in [Processes -> SUBSET Enrichers]
           /\ at' \in [Processes -> Enrichers]
           /\ pending' \in [Processes -> SUBSET Subjects]
           /\ answers' \in [Processes -> SUBSET Answers]
BY DEF TypeOK, Forget

LEMMA ReplyType ==
    ASSUME TypeOK, NEW p \in Processes, NEW batch \in SUBSET pending[p],
           NEW outcome, NEW stored, Reply(p, batch, outcome, stored)
    PROVE  /\ spent' \in [Processes -> [Enrichers -> Nat]]
           /\ replies' \in [Processes -> [Enrichers -> Nat]]
           /\ cache' \in [Enrichers -> SUBSET Subjects]
           /\ found' \in [Processes -> [Enrichers -> SUBSET Subjects]]
<1>1. batch \in SUBSET Subjects /\ at[p] \in Enrichers
  BY DEF TypeOK
<1>2. Cardinality(batch) \in Nat
  BY <1>1, SubjectSetsAreFinite
<1>3. stored \subseteq batch
  BY DEF Reply
<1> QED BY <1>1, <1>2, <1>3 DEF TypeOK, Reply

LEMMA BatchType ==
    ASSUME NEW p, NEW batch \in batches(p)
    PROVE  batch \in SUBSET pending[p]
BY DEF batches

LEMMA OneCallMore ==
    ASSUME TypeOK, NEW p \in Processes, calls[p] < MaxCalls[p],
           calls' = [calls EXCEPT ![p] = @ + 1]
    PROVE  /\ calls' \in [Processes -> Nat]
           /\ \A q \in Processes : calls'[q] <= MaxCalls[q]
<1>1. calls \in [Processes -> Nat] /\ MaxCalls \in [Processes -> Nat]
  BY LimitsAssumption DEF TypeOK
<1>2. calls' \in [Processes -> Nat]
  BY <1>1
<1>3. ASSUME NEW q \in Processes PROVE calls'[q] <= MaxCalls[q]
  <2>1. CASE q = p
    <3>1. calls'[q] = calls[p] + 1 /\ calls[p] \in Nat /\ MaxCalls[p] \in Nat
      BY <1>1, <2>1
    <3> QED BY <3>1, <2>1
  <2>2. CASE q # p
    BY <1>1, <2>2 DEF TypeOK
  <2> QED BY <2>1, <2>2
<1> QED BY <1>2, <1>3

LEMMA NextType == TypeOK /\ [Next]_vars => TypeOK'
<1> SUFFICES ASSUME TypeOK, [Next]_vars PROVE TypeOK'
  OBVIOUS
<1> USE DEF Phases, call
<1>1. ASSUME NEW p \in Processes, Begin(p) PROVE TypeOK'
  BY <1>1 DEF TypeOK, Begin
<1>2. ASSUME NEW p \in Processes, Enrich(p) PROVE TypeOK'
  <2>1. asked' \in [Processes -> SUBSET Subjects]
    BY <1>2, SubjectsAssumption DEF TypeOK, Enrich
  <2>2. /\ calls' \in [Processes -> Nat]
        /\ \A q \in Processes : calls'[q] <= MaxCalls[q]
    BY <1>2, OneCallMore DEF Enrich
  <2> QED BY <1>2, <2>1, <2>2 DEF TypeOK, Enrich
<1>3. ASSUME NEW p \in Processes, Refuse(p) PROVE TypeOK'
  <2>1. PICK subjects \in Asks :
            /\ asked' = [asked EXCEPT ![p] = subjects]
            /\ answers' = [answers EXCEPT ![p] =
                   [enricher : Enrichers, subject : subjects, kind : {"disabled"}]]
    BY <1>3 DEF Refuse
  <2>2. subjects \in SUBSET Subjects
    BY SubjectsAssumption
  <2>3. [enricher : Enrichers, subject : subjects, kind : {"disabled"}] \subseteq Answers
    BY <2>2 DEF Answers, Kinds
  <2>4. asked' \in [Processes -> SUBSET Subjects] /\ answers' \in [Processes -> SUBSET Answers]
    BY <2>1, <2>2, <2>3 DEF TypeOK
  <2>5. /\ calls' \in [Processes -> Nat]
        /\ \A q \in Processes : calls'[q] <= MaxCalls[q]
    BY <1>3, OneCallMore DEF Refuse
  <2> QED BY <1>3, <2>4, <2>5 DEF TypeOK, Refuse
<1>4. ASSUME NEW p \in Processes, NEW e \in Enrichers, Prepare(p, e) PROVE TypeOK'
  <2> DEFINE kept == prefilter(e, asked[p])
  <2> DEFINE want == missing(e, kept)
  <2>1. kept \in SUBSET Subjects /\ asked[p] \in SUBSET Subjects
    BY FormsAreSubjects DEF TypeOK
  <2>2. want \in SUBSET Subjects
    BY <2>1 DEF missing
  <2>3. PICK chosen \in SUBSET want :
            /\ pending' = [pending EXCEPT ![p] = chosen]
            /\ answers' = [answers EXCEPT ![p] = @
                   \cup Answer(e, asked[p] \ kept, "prefiltered")
                   \cup Answer(e, kept \ want, "cached")
                   \cup Answer(e, want \ chosen, "refused")]
    BY <1>4 DEF Prepare
  <2>4. /\ Answer(e, asked[p] \ kept, "prefiltered") \subseteq Answers
        /\ Answer(e, kept \ want, "cached") \subseteq Answers
        /\ Answer(e, want \ chosen, "refused") \subseteq Answers
    BY <2>1, <2>2, AnswerType DEF Kinds
  <2> HIDE DEF kept, want
  <2>5. answers' \in [Processes -> SUBSET Answers]
    BY <2>3, <2>4 DEF TypeOK
  <2>6. pending' \in [Processes -> SUBSET Subjects]
    BY <2>2, <2>3 DEF TypeOK
  <2> QED BY <1>4, <2>5, <2>6 DEF TypeOK, Prepare
<1>5. ASSUME NEW p \in Processes, LookupRaises(p) PROVE TypeOK'
  <2>1. PICK batch \in batches(p) :
            /\ pending' = [pending EXCEPT ![p] = @ \ batch]
            /\ answers' = [answers EXCEPT ![p] = @ \cup Answer(at[p], batch, "failed")]
    BY <1>5 DEF LookupRaises
  <2>2. Answer(at[p], batch, "failed") \subseteq Answers
    BY BatchType, AnswerType DEF TypeOK, Kinds
  <2> QED BY <1>5, <2>1, <2>2 DEF TypeOK, LookupRaises
<1>6. ASSUME NEW p \in Processes, LookupReturns(p) PROVE TypeOK'
  <2>1. PICK batch \in batches(p) : \E outcome \in [batch -> Outcomes] :
            /\ Reply(p, batch, outcome, {s \in batch : outcome[s] = "found"})
            /\ pending' = [pending EXCEPT ![p] = @ \ batch]
            /\ answers' = [answers EXCEPT ![p] = @ \cup
                  {[enricher |-> at[p], subject |-> s, kind |-> outcome[s]] : s \in batch}]
    BY <1>6 DEF LookupReturns
  <2>2. PICK outcome \in [batch -> Outcomes] :
            /\ Reply(p, batch, outcome, {s \in batch : outcome[s] = "found"})
            /\ pending' = [pending EXCEPT ![p] = @ \ batch]
            /\ answers' = [answers EXCEPT ![p] = @ \cup
                  {[enricher |-> at[p], subject |-> s, kind |-> outcome[s]] : s \in batch}]
    BY <2>1
  <2>3. batch \in SUBSET pending[p]
    BY BatchType
  <2>4. {[enricher |-> at[p], subject |-> s, kind |-> outcome[s]] : s \in batch} \subseteq Answers
    BY <2>3 DEF TypeOK, Answers, Kinds
  <2>5. answers' \in [Processes -> SUBSET Answers]
    BY <2>2, <2>4 DEF TypeOK
  <2>6. pending' \in [Processes -> SUBSET Subjects]
    BY <2>2 DEF TypeOK
  <2> QED BY <1>6, <2>2, <2>3, <2>5, <2>6, ReplyType DEF TypeOK, LookupReturns
<1>7. ASSUME NEW p \in Processes, StoreRaises(p) PROVE TypeOK'
  <2>1. PICK batch \in batches(p) :
            \E outcome, stored : Reply(p, batch, outcome, stored)
    BY <1>7 DEF StoreRaises
  <2>2. batch \in SUBSET pending[p]
    BY BatchType
  <2>3. Forget(p)
    BY <1>7 DEF StoreRaises
  <2> QED BY <1>7, <2>1, <2>2, <2>3, ReplyType, ForgetType DEF TypeOK, StoreRaises
<1>8. ASSUME NEW p \in Processes, CacheRaises(p) PROVE TypeOK'
  BY <1>8, ForgetType DEF TypeOK, CacheRaises
<1>9. ASSUME NEW p \in Processes, NextEnricher(p) \/ Return(p) PROVE TypeOK'
  BY <1>9 DEF TypeOK, NextEnricher, Return
<1>10. ASSUME NEW p \in Processes, End(p) PROVE TypeOK'
  <2>1. /\ calls' \in [Processes -> Nat]
        /\ \A q \in Processes : calls'[q] <= MaxCalls[q]
    <3>1. calls' = [calls EXCEPT ![p] = 0] /\ calls \in [Processes -> Nat]
      BY <1>10 DEF TypeOK, End
    <3>2. ASSUME NEW q \in Processes PROVE calls'[q] <= MaxCalls[q]
      <4>1. MaxCalls[q] \in Nat /\ calls[q] <= MaxCalls[q]
        BY LimitsAssumption DEF TypeOK
      <4>2. calls'[q] = 0 \/ calls'[q] = calls[q]
        BY <3>1
      <4> QED BY <4>1, <4>2
    <3> QED BY <3>1, <3>2
  <2>2. /\ spent' \in [Processes -> [Enrichers -> Nat]]
        /\ replies' \in [Processes -> [Enrichers -> Nat]]
        /\ found' \in [Processes -> [Enrichers -> SUBSET Subjects]]
    BY <1>10 DEF TypeOK, End, Zero, Nothing
  <2> QED BY <1>10, <2>1, <2>2, ForgetType DEF TypeOK, End
<1>11. ASSUME NEW e \in Enrichers, NEW s \in Subjects, Expire(e, s) PROVE TypeOK'
  BY <1>11 DEF TypeOK, Expire
<1>12. CASE UNCHANGED vars
  BY <1>12 DEF TypeOK, vars
<1> QED BY <1>1, <1>2, <1>3, <1>4, <1>5, <1>6, <1>7, <1>8, <1>9, <1>10, <1>11, <1>12
        DEF Next, Broker

\* Every variable keeps the kind of value its definition in broker.py has.
THEOREM TypeCorrect == Spec => []TypeOK
BY InitType, NextType, PTL DEF Spec

-----------------------------------------------------------------------------
(* The budget *)

\* A run is charged exactly for what the services replied to, and while it
\* looks up, what is still pending fits in what is left of the budget.
BudgetInv ==
    \A p \in Processes, e \in Enrichers :
        /\ replies[p][e] = spent[p][e]
        /\ spent[p][e] <= Budget[e]
        /\ phase[p] = "lookup" /\ at[p] = e =>
               spent[p][e] + Cardinality(pending[p]) <= Budget[e]

LEMMA InitBudget == Init => BudgetInv
BY LimitsAssumption DEF Init, BudgetInv, Zero

\* Reply charges one process at one enricher, within what was pending.
LEMMA ReplyWithinBudget ==
    ASSUME TypeOK, BudgetInv, NEW p \in Processes, phase[p] = "lookup",
           NEW batch \in SUBSET pending[p], NEW outcome, NEW stored,
           Reply(p, batch, outcome, stored),
           NEW q \in Processes, NEW e \in Enrichers
    PROVE  /\ replies'[q][e] = spent'[q][e]
           /\ spent'[q][e] <= Budget[e]
           /\ q # p => spent'[q][e] = spent[q][e]
           /\ q = p /\ e = at[p] =>
                  spent'[q][e] + Cardinality(pending[p] \ batch) <= Budget[e]
<1>1. /\ pending[p] \in SUBSET Subjects /\ at[p] \in Enrichers
      /\ spent \in [Processes -> [Enrichers -> Nat]]
      /\ replies \in [Processes -> [Enrichers -> Nat]]
  BY DEF TypeOK
<1> DEFINE size == Cardinality(batch)
<1>2. /\ size \in Nat /\ Cardinality(pending[p] \ batch) \in Nat
      /\ Cardinality(pending[p]) = Cardinality(pending[p] \ batch) + size
  BY <1>1, TakingABatch
<1>3. /\ replies' = [replies EXCEPT ![p][at[p]] = @ + size]
      /\ spent' = [spent EXCEPT ![p][at[p]] = @ + size]
  BY DEF Reply
<1>4. Budget[e] \in Nat
  BY BudgetType
<1>5. spent[q][e] \in Nat /\ replies[q][e] = spent[q][e] /\ spent[q][e] <= Budget[e]
  BY <1>1 DEF BudgetInv
<1> HIDE DEF size
<1>6. CASE q = p /\ e = at[p]
  <2>1. spent'[q][e] = spent[q][e] + size /\ replies'[q][e] = replies[q][e] + size
    BY <1>1, <1>3, <1>6
  <2>2. spent[q][e] + Cardinality(pending[p]) <= Budget[e]
    BY <1>6 DEF BudgetInv
  <2> QED BY <1>2, <1>4, <1>5, <1>6, <2>1, <2>2
<1>7. CASE ~(q = p /\ e = at[p])
  <2>1. spent'[q][e] = spent[q][e] /\ replies'[q][e] = replies[q][e]
    BY <1>1, <1>3, <1>7
  <2> QED BY <1>5, <1>7, <2>1
<1> QED BY <1>6, <1>7

LEMMA NextBudget == TypeOK /\ BudgetInv /\ [Next]_vars => BudgetInv'
<1> SUFFICES ASSUME TypeOK, BudgetInv, [Next]_vars,
                    NEW q \in Processes, NEW f \in Enrichers
             PROVE  /\ replies'[q][f] = spent'[q][f]
                    /\ spent'[q][f] <= Budget[f]
                    /\ phase'[q] = "lookup" /\ at'[q] = f =>
                           spent'[q][f] + Cardinality(pending'[q]) <= Budget[f]
  BY DEF BudgetInv
<1> DEFINE Goal == /\ replies'[q][f] = spent'[q][f]
                   /\ spent'[q][f] <= Budget[f]
                   /\ phase'[q] = "lookup" /\ at'[q] = f =>
                          spent'[q][f] + Cardinality(pending'[q]) <= Budget[f]
<1>0. /\ Budget[f] \in Nat /\ spent[q][f] \in Nat
      /\ replies[q][f] = spent[q][f] /\ spent[q][f] <= Budget[f]
      /\ phase[q] = "lookup" /\ at[q] = f =>
             spent[q][f] + Cardinality(pending[q]) <= Budget[f]
  BY BudgetType DEF BudgetInv, TypeOK
\* Steps that charge nothing and start no lookup.
<1>1. ASSUME NEW p \in Processes,
             Begin(p) \/ Enrich(p) \/ Refuse(p) \/ CacheRaises(p) \/ NextEnricher(p) \/ Return(p)
      PROVE  Goal
  <2>1. spent' = spent /\ replies' = replies /\ phase'[p] # "lookup"
    BY <1>1 DEF Begin, Enrich, Refuse, CacheRaises, NextEnricher, Return, TypeOK
  <2>2. q # p => phase'[q] = phase[q] /\ at'[q] = at[q] /\ pending'[q] = pending[q]
    BY <1>1 DEF Begin, Enrich, Refuse, CacheRaises, NextEnricher, Return, Forget, call, TypeOK
  <2> QED BY <1>0, <2>1, <2>2
<1>2. ASSUME NEW p \in Processes, NEW e \in Enrichers, Prepare(p, e) PROVE Goal
  <2>1. spent' = spent /\ replies' = replies
    BY <1>2 DEF Prepare
  <2>2. CASE q # p
    <3>1. phase'[q] = phase[q] /\ at'[q] = at[q] /\ pending'[q] = pending[q]
      BY <1>2, <2>2 DEF Prepare, TypeOK
    <3> QED BY <1>0, <2>1, <3>1
  <2>3. CASE q = p
    <3> DEFINE want == missing(e, prefilter(e, asked[p]))
    <3>1. want \in SUBSET Subjects
      BY FormsAreSubjects DEF TypeOK, missing
    <3>2. PICK chosen \in SUBSET want :
              /\ IF Cardinality(want) <= remaining(p, e) THEN chosen = want
                 ELSE Cardinality(chosen) = remaining(p, e)
              /\ pending' = [pending EXCEPT ![p] = chosen]
      BY <1>2 DEF Prepare
    <3>3. Cardinality(want) \in Nat /\ Cardinality(chosen) \in Nat
      BY <3>1, SubjectSetsAreFinite
    <3>4. at'[p] = e /\ pending'[p] = chosen
      BY <1>2, <3>2 DEF Prepare, TypeOK
    <3> HIDE DEF want
    <3>5. CASE e = f
      <4>1. remaining(p, e) = Budget[f] - spent[q][f]
        BY <1>0, <2>3, <3>5 DEF remaining
      <4>2. Cardinality(chosen) <= Budget[f] - spent[q][f]
        BY <1>0, <3>2, <3>3, <4>1
      <4> QED BY <1>0, <2>1, <2>3, <3>3, <3>4, <4>2
    <3>6. CASE e # f
      BY <1>0, <2>1, <2>3, <3>4, <3>6
    <3> QED BY <3>5, <3>6
  <2> QED BY <2>2, <2>3
<1>3. ASSUME NEW p \in Processes, LookupRaises(p) PROVE Goal
  <2>1. spent' = spent /\ replies' = replies /\ phase' = phase /\ at' = at
    BY <1>3 DEF LookupRaises
  <2>2. PICK batch \in batches(p) : pending' = [pending EXCEPT ![p] = @ \ batch]
    BY <1>3 DEF LookupRaises
  <2>3. CASE q # p
    <3>1. pending'[q] = pending[q]
      BY <2>2, <2>3 DEF TypeOK
    <3> QED BY <1>0, <2>1, <3>1
  <2>4. CASE q = p
    <3>1. pending'[q] = pending[q] \ batch /\ pending[q] \in SUBSET Subjects
      BY <2>2, <2>4 DEF TypeOK
    <3>2. batch \in SUBSET pending[q]
      BY <2>4, BatchType
    <3>3. /\ Cardinality(batch) \in Nat /\ Cardinality(pending'[q]) \in Nat
          /\ Cardinality(pending[q]) = Cardinality(pending'[q]) + Cardinality(batch)
      BY <3>1, <3>2, TakingABatch
    <3> QED BY <1>0, <2>1, <3>3
  <2> QED BY <2>3, <2>4
<1>4. ASSUME NEW p \in Processes, LookupReturns(p) PROVE Goal
  <2>1. PICK batch \in batches(p) :
            /\ \E outcome, stored : Reply(p, batch, outcome, stored)
            /\ pending' = [pending EXCEPT ![p] = @ \ batch]
    BY <1>4 DEF LookupReturns
  <2>2. batch \in SUBSET pending[p] /\ phase[p] = "lookup" /\ phase' = phase /\ at' = at
    BY <1>4, BatchType DEF LookupReturns
  <2>3. /\ replies'[q][f] = spent'[q][f]
        /\ spent'[q][f] <= Budget[f]
        /\ q # p => spent'[q][f] = spent[q][f]
        /\ q = p /\ f = at[p] =>
               spent'[q][f] + Cardinality(pending[p] \ batch) <= Budget[f]
    BY <2>1, <2>2, ReplyWithinBudget
  <2>4. /\ q # p => pending'[q] = pending[q]
        /\ pending'[p] = pending[p] \ batch
    BY <2>1 DEF TypeOK
  <2> QED BY <1>0, <2>2, <2>3, <2>4
<1>5. ASSUME NEW p \in Processes, StoreRaises(p) PROVE Goal
  <2>1. PICK batch \in batches(p) : \E outcome, stored : Reply(p, batch, outcome, stored)
    BY <1>5 DEF StoreRaises
  <2>2. batch \in SUBSET pending[p] /\ phase[p] = "lookup"
    BY <1>5, BatchType DEF StoreRaises
  <2>3. /\ replies'[q][f] = spent'[q][f]
        /\ spent'[q][f] <= Budget[f]
        /\ q # p => spent'[q][f] = spent[q][f]
    BY <2>1, <2>2, ReplyWithinBudget
  <2>4. /\ phase'[p] # "lookup"
        /\ q # p => phase'[q] = phase[q] /\ at'[q] = at[q] /\ pending'[q] = pending[q]
    BY <1>5 DEF StoreRaises, Forget, TypeOK
  <2> QED BY <1>0, <2>3, <2>4
<1>6. ASSUME NEW p \in Processes, End(p) PROVE Goal
  <2>1. /\ phase'[p] # "lookup"
        /\ q = p => spent'[q][f] = 0 /\ replies'[q][f] = 0
        /\ q # p => /\ spent'[q] = spent[q] /\ replies'[q] = replies[q]
                    /\ phase'[q] = phase[q] /\ at'[q] = at[q] /\ pending'[q] = pending[q]
    BY <1>6 DEF End, Forget, Zero, TypeOK
  <2> QED BY <1>0, <2>1
<1>7. ASSUME NEW e \in Enrichers, NEW s \in Subjects, Expire(e, s) PROVE Goal
  BY <1>0, <1>7 DEF Expire, call
<1>8. CASE UNCHANGED vars
  BY <1>0, <1>8 DEF vars
<1> QED BY <1>1, <1>2, <1>3, <1>4, <1>5, <1>6, <1>7, <1>8 DEF Next, Broker

THEOREM BudgetInvariant == Spec => []BudgetInv
BY InitType, NextType, InitBudget, NextBudget, PTL DEF Spec

\* Whatever the model asks for and however its attempts end, no service replies
\* for more subjects of a run than the enricher's budget (broker.py:66-67).
THEOREM BudgetIsABoundary == Spec => []RepliesWithinBudget
<1>1. BudgetInv => RepliesWithinBudget
  BY DEF BudgetInv, RepliesWithinBudget
<1> QED BY <1>1, BudgetInvariant, PTL

-----------------------------------------------------------------------------
(* What was found is not looked up again *)

\* What a run found and has not expired is in the cache, so the next call takes
\* it from there; other processes only add to the cache.
PaidInv ==
    /\ NothingIsPaidTwice
    /\ \A p \in Processes, e \in Enrichers : found[p][e] \subseteq cache[e]

LEMMA InitPaid == Init => PaidInv
BY DEF Init, PaidInv, NothingIsPaidTwice, Nothing

\* Reply stores what a process found, which is part of a batch.
LEMMA ReplyIsStored ==
    ASSUME TypeOK, PaidInv, NEW p \in Processes, phase[p] = "lookup",
           NEW batch \in SUBSET pending[p], NEW outcome, NEW stored,
           Reply(p, batch, outcome, stored), NEW q \in Processes
    PROVE  /\ \A e \in Enrichers : found'[q][e] \subseteq cache'[e]
           /\ q # p => found'[q] = found[q]
           /\ (pending[p] \ batch) \cap found'[p][at[p]] = {}
<1>1. /\ stored \subseteq batch
      /\ cache' = [cache EXCEPT ![at[p]] = @ \cup stored]
      /\ found' = [found EXCEPT ![p][at[p]] = @ \cup stored]
  BY DEF Reply
<1>2. pending[p] \cap found[p][at[p]] = {}
  BY DEF PaidInv, NothingIsPaidTwice
<1>3. found'[p][at[p]] = found[p][at[p]] \cup stored
  BY <1>1 DEF TypeOK
<1>4. q # p => found'[q] = found[q]
  BY <1>1 DEF TypeOK
<1>5. ASSUME NEW e \in Enrichers PROVE found'[q][e] \subseteq cache'[e]
  <2>1. found[q][e] \subseteq cache[e]
    BY DEF PaidInv
  <2>2. CASE e = at[p]
    <3>1. found'[q][e] \subseteq found[q][e] \cup stored
      BY <1>1, <2>2 DEF TypeOK
    <3>2. cache'[e] = cache[e] \cup stored
      BY <1>1, <2>2 DEF TypeOK
    <3> QED BY <2>1, <3>1, <3>2
  <2>3. CASE e # at[p]
    <3>1. found'[q][e] = found[q][e] /\ cache'[e] = cache[e]
      BY <1>1, <2>3 DEF TypeOK
    <3> QED BY <2>1, <3>1
  <2> QED BY <2>2, <2>3
<1> QED BY <1>1, <1>2, <1>3, <1>4, <1>5

LEMMA NextPaid == TypeOK /\ PaidInv /\ [Next]_vars => PaidInv'
<1> SUFFICES ASSUME TypeOK, PaidInv, [Next]_vars, NEW q \in Processes
             PROVE  /\ phase'[q] = "lookup" => pending'[q] \cap found'[q][at'[q]] = {}
                    /\ \A f \in Enrichers : found'[q][f] \subseteq cache'[f]
  BY DEF PaidInv, NothingIsPaidTwice
<1> DEFINE Goal == /\ phase'[q] = "lookup" => pending'[q] \cap found'[q][at'[q]] = {}
                   /\ \A f \in Enrichers : found'[q][f] \subseteq cache'[f]
<1>0. /\ phase[q] = "lookup" => pending[q] \cap found[q][at[q]] = {}
      /\ \A f \in Enrichers : found[q][f] \subseteq cache[f]
  BY DEF PaidInv, NothingIsPaidTwice
<1>1. ASSUME NEW p \in Processes,
             Begin(p) \/ Enrich(p) \/ Refuse(p) \/ CacheRaises(p) \/ NextEnricher(p) \/ Return(p)
      PROVE  Goal
  <2>1. found' = found /\ cache' = cache /\ phase'[p] # "lookup"
    BY <1>1 DEF Begin, Enrich, Refuse, CacheRaises, NextEnricher, Return, TypeOK
  <2>2. q # p => phase'[q] = phase[q] /\ at'[q] = at[q] /\ pending'[q] = pending[q]
    BY <1>1 DEF Begin, Enrich, Refuse, CacheRaises, NextEnricher, Return, Forget, call, TypeOK
  <2> QED BY <1>0, <2>1, <2>2
<1>2. ASSUME NEW p \in Processes, NEW e \in Enrichers, Prepare(p, e) PROVE Goal
  <2>1. found' = found /\ cache' = cache
    BY <1>2 DEF Prepare
  <2>2. CASE q # p
    <3>1. phase'[q] = phase[q] /\ at'[q] = at[q] /\ pending'[q] = pending[q]
      BY <1>2, <2>2 DEF Prepare, TypeOK
    <3> QED BY <1>0, <2>1, <3>1
  <2>3. CASE q = p
    <3>1. PICK chosen \in SUBSET missing(e, prefilter(e, asked[p])) :
              pending' = [pending EXCEPT ![p] = chosen]
      BY <1>2 DEF Prepare
    <3>2. at'[p] = e /\ pending'[p] = chosen
      BY <1>2, <3>1 DEF Prepare, TypeOK
    <3>3. chosen \cap cache[e] = {}
      BY DEF missing
    <3>4. found[p][e] \subseteq cache[e]
      BY <1>0, <2>3
    <3> QED BY <1>0, <2>1, <2>3, <3>2, <3>3, <3>4
  <2> QED BY <2>2, <2>3
<1>3. ASSUME NEW p \in Processes, LookupRaises(p) PROVE Goal
  <2>1. found' = found /\ cache' = cache /\ phase' = phase /\ at' = at
    BY <1>3 DEF LookupRaises
  <2>2. pending'[q] \subseteq pending[q]
    BY <1>3 DEF LookupRaises, TypeOK
  <2> QED BY <1>0, <2>1, <2>2
<1>4. ASSUME NEW p \in Processes, LookupReturns(p) PROVE Goal
  <2>1. PICK batch \in batches(p) :
            /\ \E outcome, stored : Reply(p, batch, outcome, stored)
            /\ pending' = [pending EXCEPT ![p] = @ \ batch]
    BY <1>4 DEF LookupReturns
  <2>2. batch \in SUBSET pending[p] /\ phase[p] = "lookup" /\ phase' = phase /\ at' = at
    BY <1>4, BatchType DEF LookupReturns
  <2>3. /\ \A e \in Enrichers : found'[q][e] \subseteq cache'[e]
        /\ q # p => found'[q] = found[q]
        /\ (pending[p] \ batch) \cap found'[p][at[p]] = {}
    BY <2>1, <2>2, ReplyIsStored
  <2>4. pending'[q] = IF q = p THEN pending[p] \ batch ELSE pending[q]
    BY <2>1 DEF TypeOK
  <2> QED BY <1>0, <2>2, <2>3, <2>4
<1>5. ASSUME NEW p \in Processes, StoreRaises(p) PROVE Goal
  <2>1. PICK batch \in batches(p) : \E outcome, stored : Reply(p, batch, outcome, stored)
    BY <1>5 DEF StoreRaises
  <2>2. batch \in SUBSET pending[p] /\ phase[p] = "lookup"
    BY <1>5, BatchType DEF StoreRaises
  <2>3. /\ \A e \in Enrichers : found'[q][e] \subseteq cache'[e]
        /\ q # p => found'[q] = found[q]
    BY <2>1, <2>2, ReplyIsStored
  <2>4. /\ phase'[p] # "lookup"
        /\ q # p => phase'[q] = phase[q] /\ at'[q] = at[q] /\ pending'[q] = pending[q]
    BY <1>5 DEF StoreRaises, Forget, TypeOK
  <2> QED BY <1>0, <2>3, <2>4
<1>6. ASSUME NEW p \in Processes, End(p) PROVE Goal
  <2>1. /\ phase'[p] # "lookup" /\ cache' = cache
        /\ q = p => \A f \in Enrichers : found'[q][f] = {}
        /\ q # p => /\ found'[q] = found[q] /\ phase'[q] = phase[q]
                    /\ at'[q] = at[q] /\ pending'[q] = pending[q]
    BY <1>6 DEF End, Forget, Nothing, TypeOK
  <2> QED BY <1>0, <2>1
<1>7. ASSUME NEW e \in Enrichers, NEW s \in Subjects, Expire(e, s) PROVE Goal
  <2>1. phase' = phase /\ at' = at /\ pending' = pending
    BY <1>7 DEF Expire, call
  <2>2. \A f \in Enrichers : /\ found'[q][f] = IF f = e THEN found[q][f] \ {s} ELSE found[q][f]
                             /\ cache'[f] = IF f = e THEN cache[f] \ {s} ELSE cache[f]
    BY <1>7 DEF Expire, TypeOK
  <2>3. at[q] \in Enrichers
    BY DEF TypeOK
  <2>4. phase'[q] = "lookup" => pending'[q] \cap found'[q][at'[q]] = {}
    BY <1>0, <2>1, <2>2, <2>3
  <2>5. \A f \in Enrichers : found'[q][f] \subseteq cache'[f]
    BY <1>0, <2>2
  <2> QED BY <2>4, <2>5
<1>8. CASE UNCHANGED vars
  BY <1>0, <1>8 DEF vars
<1> QED BY <1>1, <1>2, <1>3, <1>4, <1>5, <1>6, <1>7, <1>8 DEF Next, Broker

\* A run never sends a service a subject it found before in this run, unless the
\* entry expired or could not be stored (broker.py:106-119).
THEOREM NoDoublePayment == Spec => []NothingIsPaidTwice
<1>1. PaidInv => NothingIsPaidTwice
  BY DEF PaidInv
<1> QED BY <1>1, InitType, NextType, InitPaid, NextPaid, PTL DEF Spec

-----------------------------------------------------------------------------
(* Every subject is answered *)

\* An enricher the call has passed has answered for everything asked; the one it
\* is at still has the rest pending.
CoverInv ==
    \A p \in Processes : \A e \in Enrichers, s \in asked[p] :
        /\ phase[p] = "answered" => Answered(p, e, s)
        /\ phase[p] = "next" /\ e \notin left[p] => Answered(p, e, s)
        /\ phase[p] = "lookup" /\ e \notin left[p] =>
               Answered(p, e, s) \/ (e = at[p] /\ Looked(e, s) \in pending[p])

LEMMA InitCover == Init => CoverInv
BY DEF Init, CoverInv

LEMMA MoreAnswers ==
    ASSUME NEW p, NEW e, NEW s, answers[p] \subseteq answers'[p], Answered(p, e, s)
    PROVE  Answered(p, e, s)'
BY DEF Answered

\* An answer of the enricher the call is at, for what it looked up.
LEMMA AnsweredNow ==
    ASSUME NEW p, NEW e, NEW s, NEW a \in answers'[p],
           a.enricher = e, a.subject = Looked(e, s)
    PROVE  Answered(p, e, s)'
BY DEF Answered, Looked

\* A step that changes nothing a process's call depends on.
LEMMA OtherProcess ==
    ASSUME CoverInv, NEW q \in Processes,
           phase'[q] = phase[q], asked'[q] = asked[q], left'[q] = left[q],
           at'[q] = at[q], pending'[q] = pending[q], answers'[q] = answers[q],
           NEW e \in Enrichers, NEW s \in asked'[q]
    PROVE  /\ phase'[q] = "answered" => Answered(q, e, s)'
           /\ phase'[q] = "next" /\ e \notin left'[q] => Answered(q, e, s)'
           /\ phase'[q] = "lookup" /\ e \notin left'[q] =>
                  Answered(q, e, s)' \/ (e = at'[q] /\ Looked(e, s) \in pending'[q])
BY DEF CoverInv, Answered, Looked

\* A batch that gets an answer for each of its subjects leaves nobody out.
LEMMA BatchAnswered ==
    ASSUME CoverInv, NEW p \in Processes, phase[p] = "lookup", NEW batch,
           left'[p] = left[p], asked'[p] = asked[p], phase'[p] = "lookup", at'[p] = at[p],
           pending'[p] = pending[p] \ batch,
           answers[p] \subseteq answers'[p],
           \A b \in batch : \E a \in answers'[p] : a.enricher = at[p] /\ a.subject = b,
           NEW e \in Enrichers, NEW s \in asked'[p], e \notin left'[p]
    PROVE  Answered(p, e, s)' \/ (e = at'[p] /\ Looked(e, s) \in pending'[p])
<1>1. CASE Answered(p, e, s)
  BY <1>1, MoreAnswers
<1>2. CASE ~Answered(p, e, s)
  <2>1. e = at[p] /\ Looked(e, s) \in pending[p]
    BY <1>2 DEF CoverInv
  <2>2. CASE Looked(e, s) \in batch
    <3>1. PICK a \in answers'[p] : a.enricher = e /\ a.subject = Looked(e, s)
      BY <2>1, <2>2
    <3> QED BY <3>1, AnsweredNow
  <2>3. CASE Looked(e, s) \notin batch
    BY <2>1, <2>3
  <2> QED BY <2>2, <2>3
<1> QED BY <1>1, <1>2

\* Prepare answers for whatever it does not leave pending.
LEMMA PreparedCovers ==
    ASSUME TypeOK, CoverInv, NEW p \in Processes, NEW e \in Enrichers, Prepare(p, e),
           NEW f \in Enrichers, NEW s \in asked[p], f \notin left'[p]
    PROVE  Answered(p, f, s)' \/ (f = e /\ Looked(f, s) \in pending'[p])
<1> DEFINE kept == prefilter(e, asked[p])
<1> DEFINE want == missing(e, kept)
<1>1. PICK chosen \in SUBSET want :
          /\ pending' = [pending EXCEPT ![p] = chosen]
          /\ answers' = [answers EXCEPT ![p] = @
                 \cup Answer(e, asked[p] \ kept, "prefiltered")
                 \cup Answer(e, kept \ want, "cached")
                 \cup Answer(e, want \ chosen, "refused")]
  BY DEF Prepare
<1>2. /\ pending'[p] = chosen
      /\ answers[p] \subseteq answers'[p]
      /\ Answer(e, asked[p] \ kept, "prefiltered") \subseteq answers'[p]
      /\ Answer(e, kept \ want, "cached") \subseteq answers'[p]
      /\ Answer(e, want \ chosen, "refused") \subseteq answers'[p]
  BY <1>1, Zenon DEF TypeOK
<1>3. left' = [left EXCEPT ![p] = @ \ {e}] /\ phase[p] = "next"
  BY DEF Prepare
<1>4. CASE f # e
  <2>1. f \notin left[p]
    BY <1>3, <1>4 DEF TypeOK
  <2>2. Answered(p, f, s)
    BY <1>3, <2>1 DEF CoverInv
  <2> QED BY <1>2, <2>2, MoreAnswers
<1>5. CASE f = e
  <2> DEFINE k == Looked(e, s)
  <2>1. k \in kept \/ k \in asked[p] \ kept
    BY SubjectsAssumption DEF Looked, prefilter, TypeOK
  <2> HIDE DEF kept, want
  <2>2. \/ k \in asked[p] \ kept \/ k \in kept \ want \/ k \in want \ chosen \/ k \in chosen
    BY <2>1
  <2> HIDE DEF k
  <2>3. CASE k \in asked[p] \ kept
    <3>1. [enricher |-> e, subject |-> k, kind |-> "prefiltered"] \in answers'[p]
      BY <1>2, <2>3 DEF Answer
    <3> QED BY <1>5, <3>1, AnsweredNow DEF k
  <2>4. CASE k \in kept \ want
    <3>1. [enricher |-> e, subject |-> k, kind |-> "cached"] \in answers'[p]
      BY <1>2, <2>4 DEF Answer
    <3> QED BY <1>5, <3>1, AnsweredNow DEF k
  <2>5. CASE k \in want \ chosen
    <3>1. [enricher |-> e, subject |-> k, kind |-> "refused"] \in answers'[p]
      BY <1>2, <2>5 DEF Answer
    <3> QED BY <1>5, <3>1, AnsweredNow DEF k
  <2>6. CASE k \in chosen
    BY <1>2, <1>5, <2>6 DEF k
  <2> QED BY <2>2, <2>3, <2>4, <2>5, <2>6
<1> QED BY <1>4, <1>5

LEMMA NextCover == TypeOK /\ CoverInv /\ [Next]_vars => CoverInv'
<1> SUFFICES ASSUME TypeOK, CoverInv, [Next]_vars,
                    NEW q \in Processes, NEW f \in Enrichers, NEW s \in asked'[q]
             PROVE  /\ phase'[q] = "answered" => Answered(q, f, s)'
                    /\ phase'[q] = "next" /\ f \notin left'[q] => Answered(q, f, s)'
                    /\ phase'[q] = "lookup" /\ f \notin left'[q] =>
                           Answered(q, f, s)' \/ (f = at'[q] /\ Looked(f, s) \in pending'[q])
  BY DEF CoverInv, Looked
<1> DEFINE Goal == /\ phase'[q] = "answered" => Answered(q, f, s)'
                   /\ phase'[q] = "next" /\ f \notin left'[q] => Answered(q, f, s)'
                   /\ phase'[q] = "lookup" /\ f \notin left'[q] =>
                          Answered(q, f, s)' \/ (f = at'[q] /\ Looked(f, s) \in pending'[q])
<1> DEFINE Same == /\ phase'[q] = phase[q] /\ asked'[q] = asked[q] /\ left'[q] = left[q]
                   /\ at'[q] = at[q] /\ pending'[q] = pending[q] /\ answers'[q] = answers[q]
<1>0. Same => Goal
  BY OtherProcess
<1>1. ASSUME NEW p \in Processes,
             Begin(p) \/ Refuse(p) \/ CacheRaises(p) \/ StoreRaises(p) \/ End(p)
      PROVE  Goal
  <2>1. q # p => Same
    BY <1>1 DEF Begin, Refuse, CacheRaises, StoreRaises, End, Forget, call, TypeOK
  <2>2. phase'[p] \notin {"answered", "next", "lookup"}
    BY <1>1 DEF Begin, Refuse, CacheRaises, StoreRaises, End, TypeOK
  <2> QED BY <1>0, <2>1, <2>2
<1>2. ASSUME NEW p \in Processes, Enrich(p) PROVE Goal
  <2>1. q # p => Same
    BY <1>2 DEF Enrich, TypeOK
  <2>2. phase'[p] = "next" /\ left'[p] = Enrichers
    BY <1>2 DEF Enrich, TypeOK
  <2> QED BY <1>0, <2>1, <2>2
<1>3. ASSUME NEW p \in Processes, NEW e \in Enrichers, Prepare(p, e) PROVE Goal
  <2>1. q # p => Same
    BY <1>3 DEF Prepare, TypeOK
  <2>2. phase'[p] = "lookup" /\ at'[p] = e /\ asked' = asked
    BY <1>3 DEF Prepare, TypeOK
  <2>3. CASE q = p
    BY <1>3, <2>2, <2>3, PreparedCovers
  <2> QED BY <1>0, <2>1, <2>3
<1>4. ASSUME NEW p \in Processes, LookupRaises(p) PROVE Goal
  <2>1. q # p => Same
    BY <1>4 DEF LookupRaises, TypeOK
  <2>2. PICK batch \in batches(p) :
            /\ pending' = [pending EXCEPT ![p] = @ \ batch]
            /\ answers' = [answers EXCEPT ![p] = @ \cup Answer(at[p], batch, "failed")]
    BY <1>4 DEF LookupRaises
  <2>3. /\ pending'[p] = pending[p] \ batch
        /\ answers'[p] = answers[p] \cup Answer(at[p], batch, "failed")
    BY <2>2 DEF TypeOK
  <2>4. ASSUME NEW b \in batch
        PROVE  \E a \in answers'[p] : a.enricher = at[p] /\ a.subject = b
    <3>1. [enricher |-> at[p], subject |-> b, kind |-> "failed"] \in answers'[p]
      BY <2>3 DEF Answer
    <3> QED BY <3>1
  <2>5. phase' = phase /\ phase[p] = "lookup" /\ left' = left /\ at' = at /\ asked' = asked
    BY <1>4 DEF LookupRaises
  <2>6. CASE q = p
    BY <2>3, <2>4, <2>5, <2>6, BatchAnswered
  <2> QED BY <1>0, <2>1, <2>6
<1>5. ASSUME NEW p \in Processes, LookupReturns(p) PROVE Goal
  <2>1. q # p => Same
    BY <1>5 DEF LookupReturns, TypeOK
  <2>2. PICK batch \in batches(p) : \E outcome \in [batch -> Outcomes] :
            /\ pending' = [pending EXCEPT ![p] = @ \ batch]
            /\ answers' = [answers EXCEPT ![p] = @ \cup
                  {[enricher |-> at[p], subject |-> b, kind |-> outcome[b]] : b \in batch}]
    BY <1>5 DEF LookupReturns
  <2>3. PICK outcome \in [batch -> Outcomes] :
            /\ pending' = [pending EXCEPT ![p] = @ \ batch]
            /\ answers' = [answers EXCEPT ![p] = @ \cup
                  {[enricher |-> at[p], subject |-> b, kind |-> outcome[b]] : b \in batch}]
    BY <2>2
  <2>4. /\ pending'[p] = pending[p] \ batch
        /\ answers'[p] = answers[p] \cup
              {[enricher |-> at[p], subject |-> b, kind |-> outcome[b]] : b \in batch}
    BY <2>3 DEF TypeOK
  <2>5. ASSUME NEW b \in batch
        PROVE  \E a \in answers'[p] : a.enricher = at[p] /\ a.subject = b
    <3>1. [enricher |-> at[p], subject |-> b, kind |-> outcome[b]] \in answers'[p]
      BY <2>4
    <3> QED BY <3>1
  <2>6. phase' = phase /\ phase[p] = "lookup" /\ left' = left /\ at' = at /\ asked' = asked
    BY <1>5 DEF LookupReturns
  <2>7. CASE q = p
    BY <2>4, <2>5, <2>6, <2>7, BatchAnswered
  <2> QED BY <1>0, <2>1, <2>7
<1>6. ASSUME NEW p \in Processes, NextEnricher(p) \/ Return(p) PROVE Goal
  <2>1. q # p => Same
    BY <1>6 DEF NextEnricher, Return, call, TypeOK
  <2>2. /\ asked' = asked /\ left' = left /\ answers' = answers
        /\ \/ phase[p] = "lookup" /\ pending[p] = {} /\ phase'[p] = "next"
           \/ phase[p] = "next" /\ left[p] = {} /\ phase'[p] = "answered"
    <3>1. CASE NextEnricher(p)
      BY <3>1 DEF NextEnricher, call, TypeOK
    <3>2. CASE Return(p)
      BY <3>2 DEF Return, call, TypeOK
    <3> QED BY <1>6, <3>1, <3>2
  <2>3. f \notin left[q] /\ q = p => Answered(q, f, s)
    BY <2>2 DEF CoverInv
  <2>4. Answered(q, f, s) => Answered(q, f, s)'
    BY <2>2 DEF Answered, Looked
  <2> QED BY <1>0, <2>1, <2>2, <2>3, <2>4
<1>7. ASSUME NEW e \in Enrichers, NEW x \in Subjects, Expire(e, x) PROVE Goal
  BY <1>0, <1>7 DEF Expire, call
<1>8. CASE UNCHANGED vars
  BY <1>0, <1>8 DEF vars
<1> QED BY <1>1, <1>2, <1>3, <1>4, <1>5, <1>6, <1>7, <1>8 DEF Next, Broker

\* When enrich returns, every enricher has answered for every subject it was
\* asked about, whichever of prefilter, cache, budget, failure or reply decided
\* (broker.py:74-145).
THEOREM EverySubjectIsAnswered == Spec => []NobodyIsForgotten
<1>1. CoverInv => NobodyIsForgotten
  BY DEF CoverInv, NobodyIsForgotten
<1> QED BY <1>1, InitType, NextType, InitCover, NextCover, PTL DEF Spec

-----------------------------------------------------------------------------
(* A refusal is the budget's *)

Failures(p, e) == {a \in answers[p] : a.enricher = e /\ a.kind = "failed"}
Refused(p, e) == \E a \in answers[p] : a.enricher = e /\ a.kind = "refused"
PendingAt(p, e) == IF phase[p] = "lookup" /\ at[p] = e THEN pending[p] ELSE {}
OnCall(p) == phase[p] \in {"next", "lookup", "answered"}

\* Once an enricher refused a subject, its budget is what was charged, what
\* failed in this call and what is pending; before the call comes to it, it has
\* said nothing, and what is pending has not failed yet.
Accounted(p, e) ==
    /\ Refused(p, e) =>
           Budget[e] = spent[p][e] + Cardinality(Failures(p, e)) + Cardinality(PendingAt(p, e))
    /\ e \in left[p] => \A a \in answers[p] : a.enricher # e
    /\ phase[p] = "lookup" /\ at[p] = e =>
           e \notin left[p] /\ \A a \in Failures(p, e) : a.subject \notin pending[p]

RefusalInv == \A p \in Processes : OnCall(p) => \A e \in Enrichers : Accounted(p, e)

LEMMA InitRefusal == Init => RefusalInv
BY DEF Init, RefusalInv, OnCall

\* One answer for each subject.
LEMMA AnswersOfASet ==
    ASSUME NEW e \in Enrichers, NEW S \in SUBSET Subjects, NEW k \in Kinds
    PROVE  IsFiniteSet(Answer(e, S, k)) /\ Cardinality(Answer(e, S, k)) = Cardinality(S)
<1> DEFINE f == [s \in S |-> [enricher |-> e, subject |-> s, kind |-> k]]
<1>1. IsFiniteSet(S)
  BY SubjectSetsAreFinite
<1>2. f \in [S -> Answer(e, S, k)]
  BY DEF Answer
<1>3. \A a, b \in S : f[a] = f[b] => a = b
  OBVIOUS
<1>4. \A t \in Answer(e, S, k) : \E s \in S : f[s] = t
  BY DEF Answer
<1> HIDE DEF f
<1>5. f \in Injection(S, Answer(e, S, k)) /\ f \in Surjection(S, Answer(e, S, k))
  <2>1. f \in Injection(S, Answer(e, S, k))
    BY <1>2, <1>3 DEF Injection, IsInjective
  <2>2. f \in Surjection(S, Answer(e, S, k))
    BY <1>2, <1>4 DEF Surjection
  <2> QED BY <2>1, <2>2
<1>6. ExistsBijection(S, Answer(e, S, k))
  BY <1>5, Zenon DEF ExistsBijection, Bijection
<1> QED BY <1>1, <1>6, FS_Bijection

LEMMA FailuresAreFinite ==
    ASSUME TypeOK, NEW p \in Processes, NEW e \in Enrichers
    PROVE  IsFiniteSet(Failures(p, e)) /\ Cardinality(Failures(p, e)) \in Nat
<1>1. Failures(p, e) \subseteq Answer(e, Subjects, "failed")
  BY DEF Failures, Answer, Answers, TypeOK
<1>2. IsFiniteSet(Answer(e, Subjects, "failed"))
  BY AnswersOfASet DEF Kinds
<1> QED BY <1>1, <1>2, FS_Subset, FS_CardinalityType

\* A failed batch moves from what is pending to what failed.
LEMMA BatchFails ==
    ASSUME TypeOK, NEW p \in Processes, NEW e \in Enrichers, NEW batch \in SUBSET pending[p],
           \A a \in Failures(p, e) : a.subject \notin pending[p],
           answers'[p] = answers[p] \cup Answer(e, batch, "failed")
    PROVE  /\ Failures(p, e)' = Failures(p, e) \cup Answer(e, batch, "failed")
           /\ Cardinality(Failures(p, e)') = Cardinality(Failures(p, e)) + Cardinality(batch)
<1>1. batch \in SUBSET Subjects
  BY DEF TypeOK
<1>2. \A a \in Answer(e, batch, "failed") :
          a.enricher = e /\ a.kind = "failed" /\ a.subject \in batch
  BY DEF Answer
<1>3. Failures(p, e)' = Failures(p, e) \cup Answer(e, batch, "failed")
  BY <1>2 DEF Failures
<1>4. Failures(p, e) \cap Answer(e, batch, "failed") = {}
  BY <1>2
<1>5. /\ IsFiniteSet(Answer(e, batch, "failed"))
      /\ Cardinality(Answer(e, batch, "failed")) = Cardinality(batch)
  BY <1>1, AnswersOfASet DEF Kinds
<1>6. Cardinality({}) = 0
  BY FS_EmptySet
<1>7. Cardinality(Failures(p, e)) \in Nat /\ Cardinality(batch) \in Nat
  BY <1>1, FailuresAreFinite, SubjectSetsAreFinite
<1>8. Cardinality(Failures(p, e) \cup Answer(e, batch, "failed"))
          = Cardinality(Failures(p, e)) + Cardinality(Answer(e, batch, "failed"))
                - Cardinality(Failures(p, e) \cap Answer(e, batch, "failed"))
  BY <1>5, FailuresAreFinite, FS_Union
<1>9. Cardinality(Failures(p, e) \cap Answer(e, batch, "failed")) = 0
  BY <1>4, <1>6
<1>10. Cardinality(Failures(p, e) \cup Answer(e, batch, "failed"))
           = Cardinality(Failures(p, e)) + Cardinality(batch)
  BY <1>5, <1>7, <1>8, <1>9
<1> QED BY <1>3, <1>10

\* Answers of another enricher, or that neither failed nor were refused.
LEMMA NothingFailed ==
    ASSUME NEW p, NEW e, NEW more, answers'[p] = answers[p] \cup more,
           \A a \in more : a.enricher = e => a.kind \notin {"failed", "refused"}
    PROVE  Failures(p, e)' = Failures(p, e) /\ (Refused(p, e)' <=> Refused(p, e))
BY DEF Failures, Refused

\* The budget when a call comes to an enricher, which has said nothing yet.
LEMMA PreparedIsAccounted ==
    ASSUME TypeOK, BudgetInv, RefusalInv, NEW p \in Processes, NEW e \in Enrichers,
           Prepare(p, e)
    PROVE  Accounted(p, e)'
<1> DEFINE kept == prefilter(e, asked[p])
<1> DEFINE want == missing(e, kept)
<1> DEFINE more == Answer(e, asked[p] \ kept, "prefiltered")
                       \cup Answer(e, kept \ want, "cached")
<1>1. want \in SUBSET Subjects
  BY FormsAreSubjects DEF TypeOK, missing
<1>2. PICK chosen \in SUBSET want :
          /\ IF Cardinality(want) <= remaining(p, e) THEN chosen = want
             ELSE Cardinality(chosen) = remaining(p, e)
          /\ pending' = [pending EXCEPT ![p] = chosen]
          /\ answers' = [answers EXCEPT ![p] = @
                 \cup Answer(e, asked[p] \ kept, "prefiltered")
                 \cup Answer(e, kept \ want, "cached")
                 \cup Answer(e, want \ chosen, "refused")]
  BY DEF Prepare
<1>3. /\ pending'[p] = chosen
      /\ answers'[p] = answers[p] \cup more \cup Answer(e, want \ chosen, "refused")
  BY <1>2, Zenon DEF TypeOK
<1>4. /\ phase[p] = "next" /\ e \in left[p] /\ spent' = spent
      /\ left'[p] = left[p] \ {e} /\ at'[p] = e /\ phase'[p] = "lookup"
  BY DEF Prepare, TypeOK
<1>5. \A a \in answers[p] : a.enricher # e
  BY <1>4 DEF RefusalInv, OnCall, Accounted
<1>6. \A a \in more : a.kind \in {"prefiltered", "cached"}
  BY DEF Answer
<1>7. \A a \in Answer(e, want \ chosen, "refused") :
          a.kind = "refused" /\ a.subject \in want \ chosen
  BY DEF Answer
<1> HIDE DEF more, want, kept
<1>8. Failures(p, e)' = {}
  BY <1>3, <1>5, <1>6, <1>7 DEF Failures
<1>9. Refused(p, e)' => want # chosen
  BY <1>3, <1>5, <1>6, <1>7 DEF Refused
<1>10. /\ Cardinality(chosen) \in Nat /\ Budget[e] \in Nat /\ spent[p][e] \in Nat
       /\ spent[p][e] <= Budget[e]
  BY <1>1, SubjectSetsAreFinite, BudgetType DEF TypeOK, BudgetInv
<1>11. remaining(p, e) = Budget[e] - spent[p][e]
  BY <1>10 DEF remaining
<1>12. PendingAt(p, e)' = chosen
  BY <1>3, <1>4 DEF PendingAt
<1>13. Cardinality(Failures(p, e)') = 0
  BY <1>8, FS_EmptySet
<1>14. want # chosen => Budget[e] = spent[p][e] + 0 + Cardinality(chosen)
  BY <1>2, <1>10, <1>11
<1>15. Refused(p, e)' =>
           Budget[e] = spent'[p][e] + Cardinality(Failures(p, e)') + Cardinality(PendingAt(p, e)')
  BY <1>4, <1>9, <1>12, <1>13, <1>14
<1> QED BY <1>4, <1>8, <1>15 DEF Accounted

\* What a batch leaves of another enricher's account.
LEMMA BatchOfAnother ==
    ASSUME RefusalInv, NEW p \in Processes, NEW f \in Enrichers, phase[p] = "lookup",
           at[p] # f, phase'[p] = "lookup", at'[p] = at[p], left'[p] = left[p],
           spent'[p][f] = spent[p][f], NEW more,
           answers'[p] = answers[p] \cup more, \A a \in more : a.enricher = at[p]
    PROVE  Accounted(p, f)'
<1>1. Accounted(p, f)
  BY DEF RefusalInv, OnCall
<1>2. Failures(p, f)' = Failures(p, f) /\ (Refused(p, f)' <=> Refused(p, f))
  BY NothingFailed
<1>3. PendingAt(p, f) = {} /\ PendingAt(p, f)' = {}
  BY DEF PendingAt
<1>4. \A a \in more : a.enricher # f
  OBVIOUS
<1> QED BY <1>1, <1>2, <1>3, <1>4 DEF Accounted

LEMMA RaisedIsAccounted ==
    ASSUME TypeOK, RefusalInv, NEW p \in Processes, NEW f \in Enrichers, LookupRaises(p)
    PROVE  Accounted(p, f)'
<1>1. PICK batch \in batches(p) :
          /\ pending' = [pending EXCEPT ![p] = @ \ batch]
          /\ answers' = [answers EXCEPT ![p] = @ \cup Answer(at[p], batch, "failed")]
  BY DEF LookupRaises
<1>2. /\ pending'[p] = pending[p] \ batch /\ pending[p] \in SUBSET Subjects
      /\ answers'[p] = answers[p] \cup Answer(at[p], batch, "failed")
  BY <1>1 DEF TypeOK
<1>3. /\ phase[p] = "lookup" /\ phase' = phase /\ left' = left /\ at' = at /\ spent' = spent
  BY DEF LookupRaises
<1>4. batch \in SUBSET pending[p]
  BY BatchType
<1>5. \A a \in Answer(at[p], batch, "failed") :
          a.enricher = at[p] /\ a.kind = "failed" /\ a.subject \in batch
  BY DEF Answer
<1>6. CASE f # at[p]
  BY <1>2, <1>3, <1>5, <1>6, BatchOfAnother
<1>7. CASE f = at[p]
  <2>1. Accounted(p, f)
    BY <1>3 DEF RefusalInv, OnCall
  <2>2. \A a \in Failures(p, f) : a.subject \notin pending[p]
    BY <1>3, <1>7, <2>1 DEF Accounted
  <2>3. /\ Failures(p, f)' = Failures(p, f) \cup Answer(f, batch, "failed")
        /\ Cardinality(Failures(p, f)') = Cardinality(Failures(p, f)) + Cardinality(batch)
    BY <1>2, <1>4, <1>7, <2>2, BatchFails
  <2>4. Refused(p, f)' => Refused(p, f)
    BY <1>2, <1>5 DEF Refused
  <2>5. PendingAt(p, f) = pending[p] /\ PendingAt(p, f)' = pending[p] \ batch
    BY <1>2, <1>3, <1>7 DEF PendingAt
  <2>6. /\ Cardinality(batch) \in Nat /\ Cardinality(pending[p] \ batch) \in Nat
        /\ Cardinality(pending[p]) = Cardinality(pending[p] \ batch) + Cardinality(batch)
    BY <1>2, <1>4, TakingABatch
  <2>7. Cardinality(Failures(p, f)) \in Nat /\ spent[p][f] \in Nat
    BY FailuresAreFinite DEF TypeOK
  <2>8. Refused(p, f) =>
            Budget[f] = spent[p][f] + Cardinality(Failures(p, f)) + Cardinality(pending[p])
    BY <2>1, <2>5 DEF Accounted
  <2>9. Refused(p, f)' => Budget[f] = spent'[p][f] + Cardinality(Failures(p, f)')
                                          + Cardinality(PendingAt(p, f)')
    BY <1>3, <2>3, <2>4, <2>5, <2>6, <2>7, <2>8
  <2>10. f \notin left'[p]
    BY <1>3, <1>7, <2>1 DEF Accounted
  <2>11. \A a \in Failures(p, f)' : a.subject \notin pending'[p]
    BY <1>2, <1>5, <1>7, <2>2, <2>3
  <2> QED BY <2>9, <2>10, <2>11 DEF Accounted
<1> QED BY <1>6, <1>7

LEMMA ReturnedIsAccounted ==
    ASSUME TypeOK, RefusalInv, NEW p \in Processes, NEW f \in Enrichers, LookupReturns(p)
    PROVE  Accounted(p, f)'
<1>1. PICK batch \in batches(p) : \E outcome \in [batch -> Outcomes] :
          /\ spent' = [spent EXCEPT ![p][at[p]] = @ + Cardinality(batch)]
          /\ pending' = [pending EXCEPT ![p] = @ \ batch]
          /\ answers' = [answers EXCEPT ![p] = @ \cup
                {[enricher |-> at[p], subject |-> b, kind |-> outcome[b]] : b \in batch}]
  BY DEF LookupReturns, Reply
<1>2. PICK outcome \in [batch -> Outcomes] :
          answers' = [answers EXCEPT ![p] = @ \cup
                {[enricher |-> at[p], subject |-> b, kind |-> outcome[b]] : b \in batch}]
  BY <1>1
<1> DEFINE more == {[enricher |-> at[p], subject |-> b, kind |-> outcome[b]] : b \in batch}
<1>3. /\ pending'[p] = pending[p] \ batch /\ pending[p] \in SUBSET Subjects
      /\ answers'[p] = answers[p] \cup more
      /\ spent'[p][at[p]] = spent[p][at[p]] + Cardinality(batch)
      /\ f # at[p] => spent'[p][f] = spent[p][f]
  BY <1>1, <1>2 DEF TypeOK
<1>4. phase[p] = "lookup" /\ phase' = phase /\ left' = left /\ at' = at
  BY DEF LookupReturns
<1>5. batch \in SUBSET pending[p]
  BY BatchType
<1>6. \A a \in more : a.enricher = at[p] /\ a.kind \notin {"failed", "refused"}
  BY DEF Outcomes
<1> HIDE DEF more
<1>7. CASE f # at[p]
  BY <1>3, <1>4, <1>6, <1>7, BatchOfAnother
<1>8. CASE f = at[p]
  <2>1. Accounted(p, f)
    BY <1>4 DEF RefusalInv, OnCall
  <2>2. Failures(p, f)' = Failures(p, f) /\ (Refused(p, f)' <=> Refused(p, f))
    BY <1>3, <1>6, NothingFailed
  <2>3. PendingAt(p, f) = pending[p] /\ PendingAt(p, f)' = pending[p] \ batch
    BY <1>3, <1>4, <1>8 DEF PendingAt
  <2>4. /\ Cardinality(batch) \in Nat /\ Cardinality(pending[p] \ batch) \in Nat
        /\ Cardinality(pending[p]) = Cardinality(pending[p] \ batch) + Cardinality(batch)
    BY <1>3, <1>5, TakingABatch
  <2>5. Cardinality(Failures(p, f)) \in Nat /\ spent[p][f] \in Nat
    BY FailuresAreFinite DEF TypeOK
  <2>6. Refused(p, f) =>
            Budget[f] = spent[p][f] + Cardinality(Failures(p, f)) + Cardinality(pending[p])
    BY <2>1, <2>3 DEF Accounted
  <2>7. Refused(p, f)' => Budget[f] = spent'[p][f] + Cardinality(Failures(p, f)')
                                          + Cardinality(PendingAt(p, f)')
    BY <1>3, <1>8, <2>2, <2>3, <2>4, <2>5, <2>6
  <2>8. f \notin left'[p] /\ \A a \in Failures(p, f) : a.subject \notin pending[p]
    BY <1>4, <1>8, <2>1 DEF Accounted
  <2> QED BY <1>3, <2>2, <2>7, <2>8 DEF Accounted
<1> QED BY <1>7, <1>8

LEMMA NextRefusal == TypeOK /\ BudgetInv /\ RefusalInv /\ [Next]_vars => RefusalInv'
<1> SUFFICES ASSUME TypeOK, BudgetInv, RefusalInv, [Next]_vars,
                    NEW q \in Processes, NEW f \in Enrichers
             PROVE  OnCall(q)' => Accounted(q, f)'
  BY DEF RefusalInv
<1> DEFINE Goal == OnCall(q)' => Accounted(q, f)'
<1> DEFINE Same == /\ phase'[q] = phase[q] /\ left'[q] = left[q] /\ at'[q] = at[q]
                   /\ pending'[q] = pending[q] /\ answers'[q] = answers[q]
                   /\ spent'[q] = spent[q]
<1>0. Same => Goal
  <2> SUFFICES ASSUME Same, OnCall(q)' PROVE Accounted(q, f)'
    OBVIOUS
  <2>1. Accounted(q, f)
    BY DEF RefusalInv, OnCall
  <2>2. Failures(q, f)' = Failures(q, f)
    BY DEF Failures
  <2>3. Refused(q, f)' <=> Refused(q, f)
    BY DEF Refused
  <2>4. PendingAt(q, f)' = PendingAt(q, f)
    BY DEF PendingAt
  <2> HIDE DEF Goal
  <2> QED BY <2>1, <2>2, <2>3, <2>4 DEF Accounted
<1>1. ASSUME NEW p \in Processes,
             Begin(p) \/ Refuse(p) \/ CacheRaises(p) \/ StoreRaises(p) \/ End(p)
      PROVE  Goal
  <2>1. q # p => Same
    <3>1. Begin(p) \/ Refuse(p) \/ CacheRaises(p) \/ End(p) => (q # p => Same)
      BY DEF Begin, Refuse, CacheRaises, End, Forget, call, TypeOK
    <3>2. StoreRaises(p) => (q # p => Same)
      BY DEF StoreRaises, Reply, Forget, TypeOK
    <3> QED BY <1>1, <3>1, <3>2
  <2>2. phase'[p] \notin {"answered", "next", "lookup"}
    BY <1>1 DEF Begin, Refuse, CacheRaises, StoreRaises, End, TypeOK
  <2> QED BY <1>0, <2>1, <2>2 DEF OnCall
<1>2. ASSUME NEW p \in Processes, Enrich(p) PROVE Goal
  <2>1. q # p => Same
    BY <1>2 DEF Enrich, TypeOK
  <2>2. phase'[p] = "next" /\ answers'[p] = {}
    BY <1>2 DEF Enrich, TypeOK
  <2>3. q = p => Accounted(q, f)'
    BY <2>2 DEF Accounted, Refused
  <2> QED BY <1>0, <2>1, <2>3
<1>3. ASSUME NEW p \in Processes, NEW e \in Enrichers, Prepare(p, e) PROVE Goal
  <2>1. q # p => Same
    BY <1>3 DEF Prepare, TypeOK
  <2>2. CASE q = p /\ f = e
    BY <1>3, <2>2, PreparedIsAccounted
  <2>3. CASE q = p /\ f # e
    <3>1. /\ phase[p] = "next" /\ phase'[p] = "lookup" /\ at'[p] = e /\ spent' = spent
          /\ left'[p] \subseteq left[p]
      BY <1>3 DEF Prepare, TypeOK
    <3>2. PICK one, two, three \in SUBSET Answers :
              /\ answers'[p] = answers[p] \cup (one \cup two \cup three)
              /\ \A a \in one \cup two \cup three : a.enricher = e
      <4> DEFINE kept == prefilter(e, asked[p])
      <4> DEFINE want == missing(e, kept)
      <4>1. PICK chosen \in SUBSET want :
                answers' = [answers EXCEPT ![p] = @
                    \cup Answer(e, asked[p] \ kept, "prefiltered")
                    \cup Answer(e, kept \ want, "cached")
                    \cup Answer(e, want \ chosen, "refused")]
        BY <1>3 DEF Prepare
      <4>2. kept \in SUBSET Subjects /\ want \in SUBSET kept
        BY FormsAreSubjects DEF TypeOK, missing
      <4>3. asked[p] \in SUBSET Subjects
        BY DEF TypeOK
      <4> HIDE DEF kept, want
      <4>4. /\ Answer(e, asked[p] \ kept, "prefiltered") \subseteq Answers
            /\ Answer(e, kept \ want, "cached") \subseteq Answers
            /\ Answer(e, want \ chosen, "refused") \subseteq Answers
        BY <4>2, <4>3, AnswerType DEF Kinds
      <4>5. answers'[p] = answers[p] \cup (Answer(e, asked[p] \ kept, "prefiltered")
                    \cup Answer(e, kept \ want, "cached")
                    \cup Answer(e, want \ chosen, "refused"))
        BY <4>1, Zenon DEF TypeOK
      <4>6. \A a \in Answer(e, asked[p] \ kept, "prefiltered")
                    \cup Answer(e, kept \ want, "cached")
                    \cup Answer(e, want \ chosen, "refused") : a.enricher = e
        BY DEF Answer
      <4> QED BY <4>4, <4>5, <4>6
    <3>3. Accounted(p, f)
      BY <3>1 DEF RefusalInv, OnCall
    <3>4. Failures(p, f)' = Failures(p, f) /\ (Refused(p, f)' <=> Refused(p, f))
      BY <2>3, <3>2, NothingFailed
    <3>5. PendingAt(p, f) = {} /\ PendingAt(p, f)' = {}
      BY <2>3, <3>1 DEF PendingAt
    <3>6. f \in left'[p] => \A a \in answers'[p] : a.enricher # f
      BY <2>3, <3>1, <3>2, <3>3 DEF Accounted
    <3>7. Accounted(p, f)'
      BY <2>3, <3>1, <3>3, <3>4, <3>5, <3>6 DEF Accounted
    <3> QED BY <2>3, <3>7
  <2> QED BY <1>0, <2>1, <2>2, <2>3
<1>4. ASSUME NEW p \in Processes, LookupRaises(p) PROVE Goal
  <2>1. q # p => Same
    BY <1>4 DEF LookupRaises, TypeOK
  <2> QED BY <1>0, <1>4, <2>1, RaisedIsAccounted
<1>5. ASSUME NEW p \in Processes, LookupReturns(p) PROVE Goal
  <2>1. q # p => Same
    BY <1>5 DEF LookupReturns, Reply, TypeOK
  <2> QED BY <1>0, <1>5, <2>1, ReturnedIsAccounted
<1>6. ASSUME NEW p \in Processes, NextEnricher(p) \/ Return(p) PROVE Goal
  <2>1. q # p => Same
    BY <1>6 DEF NextEnricher, Return, call, TypeOK
  <2>2. /\ left' = left /\ answers' = answers /\ spent' = spent
        /\ phase[p] = "next" \/ (phase[p] = "lookup" /\ pending[p] = {})
        /\ phase'[p] # "lookup"
    BY <1>6 DEF NextEnricher, Return, call, TypeOK
  <2>3. CASE q = p
    <3>1. Accounted(q, f)
      BY <2>2, <2>3 DEF RefusalInv, OnCall
    <3>2. PendingAt(q, f) = {} /\ PendingAt(q, f)' = {}
      BY <2>2, <2>3 DEF PendingAt
    <3>3. Failures(q, f)' = Failures(q, f) /\ (Refused(q, f)' <=> Refused(q, f))
      BY <2>2 DEF Failures, Refused
    <3> QED BY <2>2, <2>3, <3>1, <3>2, <3>3 DEF Accounted
  <2> QED BY <1>0, <2>1, <2>3
<1>7. ASSUME NEW e \in Enrichers, NEW s \in Subjects, Expire(e, s) PROVE Goal
  BY <1>0, <1>7 DEF Expire, call
<1>8. CASE UNCHANGED vars
  BY <1>0, <1>8 DEF vars
<1> QED BY <1>1, <1>2, <1>3, <1>4, <1>5, <1>6, <1>7, <1>8 DEF Next, Broker

\* Whoever is refused is refused because the whole budget went to others: it was
\* charged for them, or they were tried in this very call and failed
\* (broker.py:113-145).
THEOREM RefusalsAreTheBudgets == Spec => []RefusedMeansSpent
<1>1. TypeOK /\ RefusalInv => RefusedMeansSpent
  <2> SUFFICES ASSUME TypeOK, RefusalInv, NEW p \in Processes, phase[p] = "answered",
                      NEW e \in Enrichers, Refused(p, e)
               PROVE  Budget[e] = spent[p][e] + Cardinality(Failures(p, e))
    BY DEF RefusedMeansSpent, Refused, Failures
  <2>1. PendingAt(p, e) = {}
    BY DEF PendingAt
  <2>2. Budget[e] = spent[p][e] + Cardinality(Failures(p, e)) + Cardinality({})
    BY <2>1 DEF RefusalInv, OnCall, Accounted
  <2>3. Cardinality({}) = 0 /\ Cardinality(Failures(p, e)) \in Nat /\ spent[p][e] \in Nat
    BY FS_EmptySet, FailuresAreFinite DEF TypeOK
  <2> QED BY <2>2, <2>3
<1> QED BY <1>1, InitType, NextType, InitBudget, NextBudget, InitRefusal, NextRefusal, PTL
        DEF Spec
=============================================================================
