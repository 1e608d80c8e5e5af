------------------------------ MODULE Enrichment ------------------------------
(***************************************************************************)
(* The enrichment broker: enrichment/broker.py and the cache of store.py.  *)
(*                                                                         *)
(* A process is one run's model stage.  All attempts of its fallback chain *)
(* share one EnrichmentBroker, and all processes share the cache.  Every   *)
(* enricher here answers the subject type asked for.                       *)
(***************************************************************************)
EXTENDS Naturals, FiniteSets

CONSTANTS
    Processes,  \* runs that enrich at the same time
    Enrichers,
    Subjects,   \* what the model may ask for, and the forms kept of it
    Asks,       \* bound: the sets of subjects one call may ask for
    Useless,    \* the form of a subject that prefilter drops
    Form,       \* enricher -> subject -> the form prefilter keeps of it
    Budget,     \* enricher -> lookups a run may make
    batch_size, \* enricher -> subjects in one request
    MaxCalls    \* bound: process -> calls a run makes

Outcomes == {"found", "unknown", "error"}
Kinds == Outcomes \cup {"disabled", "prefiltered", "cached", "refused", "failed"}

Answer(e, subjects, kind) == [enricher : {e}, subject : subjects, kind : {kind}]

ASSUME SubjectsAssumption ==
    /\ IsFiniteSet(Subjects)
    /\ Asks \subseteq (SUBSET Subjects) \ {{}}
    /\ Useless \notin Subjects
    /\ Form \in [Enrichers -> [Subjects -> Subjects \cup {Useless}]]

ASSUME LimitsAssumption ==
    /\ Budget \in [Enrichers -> Nat]
    /\ batch_size \in [Enrichers -> Nat \ {0}]
    /\ MaxCalls \in [Processes -> Nat]

-----------------------------------------------------------------------------

VARIABLES
    phase,   \* of a process's broker
    calls,   \* calls of enrich so far
    asked,   \* subjects of the current call
    left,    \* enrichers the current call has not come to
    at,      \* the enricher it is at
    pending, \* subjects _enrich_one has still to look up
    spent,   \* EnrichmentBroker._spent
    answers, \* results of the call so far, or of the last call
    cache,   \* enricher -> subjects with an entry that has not expired
    replies, \* history: subjects a service has replied for, per run
    found    \* history: entries a run has stored that have not expired

vars == <<phase, calls, asked, left, at, pending, spent, answers, cache,
          replies, found>>
call == <<asked, left, at, pending, answers>>

\* "thinking": a call raised or none was made; "answered": one returned.
Phases == {"none", "off", "thinking", "answered", "next", "lookup"}
Answers == [enricher : Enrichers, subject : Subjects, kind : Kinds]
Zero == [e \in Enrichers |-> 0]
Nothing == [e \in Enrichers |-> {}]

TypeOK ==
    /\ phase \in [Processes -> Phases]
    /\ calls \in [Processes -> Nat] /\ \A p \in Processes : calls[p] <= MaxCalls[p]
    /\ asked \in [Processes -> SUBSET Subjects]
    /\ left \in [Processes -> SUBSET Enrichers]
    /\ at \in [Processes -> Enrichers]
    /\ pending \in [Processes -> SUBSET Subjects]
    /\ spent \in [Processes -> [Enrichers -> Nat]]
    /\ answers \in [Processes -> SUBSET Answers]
    /\ cache \in [Enrichers -> SUBSET Subjects]
    /\ replies \in [Processes -> [Enrichers -> Nat]]
    /\ found \in [Processes -> [Enrichers -> SUBSET Subjects]]

Init ==
    /\ phase = [p \in Processes |-> "none"]
    /\ calls = [p \in Processes |-> 0]
    /\ asked = [p \in Processes |-> {}]
    /\ left = [p \in Processes |-> {}]
    /\ at \in [Processes -> Enrichers]
    /\ pending = [p \in Processes |-> {}]
    /\ spent = [p \in Processes |-> Zero]
    /\ answers = [p \in Processes |-> {}]
    /\ cache = Nothing
    /\ replies = [p \in Processes |-> Zero]
    /\ found = [p \in Processes |-> Nothing]

\* The run's EnrichmentBroker is made, with enrichment switched on or off.
Begin(p) ==
    /\ phase[p] = "none"
    /\ \E s \in {"thinking", "off"} : phase' = [phase EXCEPT ![p] = s]
    /\ UNCHANGED <<calls, call, spent, cache, replies, found>>

\* enrich, called by the tools with at least one subject.
Enrich(p) ==
    /\ phase[p] \in {"thinking", "answered"}
    /\ calls[p] < MaxCalls[p]
    /\ calls' = [calls EXCEPT ![p] = @ + 1]
    /\ \E subjects \in Asks :
           asked' = [asked EXCEPT ![p] = subjects]
    /\ left' = [left EXCEPT ![p] = Enrichers]
    /\ answers' = [answers EXCEPT ![p] = {}]
    /\ phase' = [phase EXCEPT ![p] = "next"]
    /\ UNCHANGED <<at, pending, spent, cache, replies, found>>

\* enrich of a broker that is switched off.
Refuse(p) ==
    /\ phase[p] = "off"
    /\ calls[p] < MaxCalls[p]
    /\ calls' = [calls EXCEPT ![p] = @ + 1]
    /\ \E subjects \in Asks :
           /\ asked' = [asked EXCEPT ![p] = subjects]
           /\ answers' = [answers EXCEPT ![p] =
                  [enricher : Enrichers, subject : subjects, kind : {"disabled"}]]
    /\ UNCHANGED <<phase, left, at, pending, spent, cache, replies, found>>

prefilter(e, subjects) == {Form[e][s] : s \in subjects} \ {Useless}

\* Slip: a call may spend the whole budget again.
whole_budget(p, e) == Budget[e]

remaining(p, e) == IF spent[p][e] < Budget[e] THEN Budget[e] - spent[p][e] ELSE 0

\* Slip: the cache is written and never read.
every_one(e, kept) == kept

missing(e, kept) == kept \ cache[e]

\* The first part of _enrich_one: prefilter, cache, budget.  The model decides
\* the order of the subjects and thereby which the budget still covers.
Prepare(p, e) ==
    LET kept    == prefilter(e, asked[p])
        dropped == asked[p] \ kept
        want    == missing(e, kept)
        allowed == remaining(p, e)
    IN  /\ phase[p] = "next"
        /\ e \in left[p]
        /\ \E chosen \in SUBSET want :
               /\ IF Cardinality(want) <= allowed THEN chosen = want
                  ELSE Cardinality(chosen) = allowed
               /\ pending' = [pending EXCEPT ![p] = chosen]
               /\ answers' = [answers EXCEPT ![p] = @
                      \cup Answer(e, dropped, "prefiltered")
                      \cup Answer(e, kept \ want, "cached")
                      \cup Answer(e, want \ chosen, "refused")]
        /\ left' = [left EXCEPT ![p] = @ \ {e}]
        /\ at' = [at EXCEPT ![p] = e]
        /\ phase' = [phase EXCEPT ![p] = "lookup"]
        /\ UNCHANGED <<calls, asked, spent, cache, replies, found>>

\* The batches a list of pending subjects may be cut into next.
batches(p) ==
    {b \in (SUBSET pending[p]) \ {{}} :
        \/ Cardinality(b) = batch_size[at[p]]
        \/ Cardinality(b) < batch_size[at[p]] /\ b = pending[p]}

\* The locals of a call are gone with it.
Forget(p) ==
    /\ asked' = [asked EXCEPT ![p] = {}]
    /\ left' = [left EXCEPT ![p] = {}]
    /\ pending' = [pending EXCEPT ![p] = {}]
    /\ answers' = [answers EXCEPT ![p] = {}]
    /\ UNCHANGED at

\* Slip: a failed batch is left out of the results.
RaisesSilently(p) ==
    /\ phase[p] = "lookup"
    /\ \E batch \in batches(p) : pending' = [pending EXCEPT ![p] = @ \ batch]
    /\ UNCHANGED <<phase, calls, asked, left, at, answers, spent, cache, replies, found>>

\* Slip: a failed batch is charged.
RaisesCharged(p) ==
    /\ phase[p] = "lookup"
    /\ \E batch \in batches(p) :
           /\ pending' = [pending EXCEPT ![p] = @ \ batch]
           /\ answers' = [answers EXCEPT ![p] = @ \cup Answer(at[p], batch, "failed")]
           /\ spent' = [spent EXCEPT ![p][at[p]] = @ + Cardinality(batch)]
    /\ UNCHANGED <<phase, calls, asked, left, at, cache, replies, found>>

\* lookup raises: the batch is answered with the error and not charged.
LookupRaises(p) ==
    /\ phase[p] = "lookup"
    /\ \E batch \in batches(p) :
           /\ pending' = [pending EXCEPT ![p] = @ \ batch]
           /\ answers' = [answers EXCEPT ![p] = @ \cup Answer(at[p], batch, "failed")]
    /\ UNCHANGED <<phase, calls, asked, left, at, spent, cache, replies, found>>

\* What the service says of a batch: cache_put stores what was found.
Reply(p, batch, outcome, stored) ==
    /\ replies' = [replies EXCEPT ![p][at[p]] = @ + Cardinality(batch)]
    /\ spent' = [spent EXCEPT ![p][at[p]] = @ + Cardinality(batch)]
    /\ stored \subseteq {s \in batch : outcome[s] = "found"}
    /\ cache' = [cache EXCEPT ![at[p]] = @ \cup stored]
    /\ found' = [found EXCEPT ![p][at[p]] = @ \cup stored]

LookupReturns(p) ==
    /\ phase[p] = "lookup"
    /\ \E batch \in batches(p) : \E outcome \in [batch -> Outcomes] :
           /\ Reply(p, batch, outcome, {s \in batch : outcome[s] = "found"})
           /\ pending' = [pending EXCEPT ![p] = @ \ batch]
           /\ answers' = [answers EXCEPT ![p] = @ \cup
                  {[enricher |-> at[p], subject |-> s, kind |-> outcome[s]] : s \in batch}]
    /\ UNCHANGED <<phase, calls, asked, left, at>>

\* A cache_put raises: the tool call fails with nothing to show.
StoreRaises(p) ==
    /\ phase[p] = "lookup"
    /\ \E batch \in batches(p) : \E outcome \in [batch -> Outcomes] :
       \E stored \in SUBSET batch :
           /\ Reply(p, batch, outcome, stored)
           /\ \E s \in batch \ stored : outcome[s] = "found"
    /\ phase' = [phase EXCEPT ![p] = "thinking"]
    /\ Forget(p)
    /\ UNCHANGED calls

\* A cache_get raises.
CacheRaises(p) ==
    /\ phase[p] = "next"
    /\ left[p] # {}
    /\ phase' = [phase EXCEPT ![p] = "thinking"]
    /\ Forget(p)
    /\ UNCHANGED <<calls, spent, cache, replies, found>>

\* _enrich_one returns.
NextEnricher(p) ==
    /\ phase[p] = "lookup"
    /\ pending[p] = {}
    /\ phase' = [phase EXCEPT ![p] = "next"]
    /\ UNCHANGED <<calls, call, spent, cache, replies, found>>

\* enrich returns.
Return(p) ==
    /\ phase[p] = "next"
    /\ left[p] = {}
    /\ phase' = [phase EXCEPT ![p] = "answered"]
    /\ UNCHANGED <<calls, call, spent, cache, replies, found>>

\* The model stage is over and its broker is gone.
End(p) ==
    /\ phase[p] \in {"off", "thinking", "answered"}
    /\ phase' = [phase EXCEPT ![p] = "none"]
    /\ Forget(p)
    /\ calls' = [calls EXCEPT ![p] = 0]
    /\ spent' = [spent EXCEPT ![p] = Zero]
    /\ replies' = [replies EXCEPT ![p] = Zero]
    /\ found' = [found EXCEPT ![p] = Nothing]
    /\ UNCHANGED cache

\* The cache_ttl of an entry passes; purge deletes it some time later.
Expire(e, s) ==
    /\ s \in cache[e]
    /\ cache' = [cache EXCEPT ![e] = @ \ {s}]
    /\ found' = [p \in Processes |-> [found[p] EXCEPT ![e] = @ \ {s}]]
    /\ UNCHANGED <<phase, calls, call, spent, replies>>

Broker(p) ==
    \/ Begin(p)
    \/ Enrich(p)
    \/ Refuse(p)
    \/ \E e \in Enrichers : Prepare(p, e)
    \/ LookupRaises(p)
    \/ LookupReturns(p)
    \/ StoreRaises(p)
    \/ CacheRaises(p)
    \/ NextEnricher(p)
    \/ Return(p)
    \/ End(p)

Next ==
    \/ \E p \in Processes : Broker(p)
    \/ \E e \in Enrichers, s \in Subjects : Expire(e, s)

Spec == Init /\ [][Next]_vars

-----------------------------------------------------------------------------

\* The boundary the broker is: over all calls of all attempts of a run, a
\* service replies for no more subjects than the enricher's budget.
RepliesWithinBudget ==
    \A p \in Processes, e \in Enrichers : replies[p][e] <= Budget[e]

\* A call that returns has an answer from every enricher for every subject: for
\* the form it keeps of it, or for the subject when it keeps none.
Looked(e, s) == IF Form[e][s] = Useless THEN s ELSE Form[e][s]
Answered(p, e, s) ==
    \E a \in answers[p] : a.enricher = e /\ a.subject = Looked(e, s)
NobodyIsForgotten ==
    \A p \in Processes : phase[p] = "answered" =>
        \A e \in Enrichers, s \in asked[p] : Answered(p, e, s)

\* A subject is refused only when the rest of the budget really went to the
\* others: it is charged, or was tried in this call and failed.
RefusedMeansSpent ==
    \A p \in Processes : phase[p] = "answered" =>
        \A e \in Enrichers :
            (\E a \in answers[p] : a.enricher = e /\ a.kind = "refused") =>
                Budget[e] = spent[p][e] +
                    Cardinality({a \in answers[p] : a.enricher = e /\ a.kind = "failed"})

\* A run does not pay again for what it found, until that expires.
NothingIsPaidTwice ==
    \A p \in Processes :
        phase[p] = "lookup" => pending[p] \cap found[p][at[p]] = {}
=============================================================================
