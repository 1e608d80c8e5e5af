---------------------------- MODULE EventQueries ----------------------------
(***************************************************************************)
(* The helpers of query.py that analyzers use, over a set of events.  An   *)
(* event is a record with an `id`, a time `ts` and its columns; a column   *)
(* without a value holds NoValue.  `ip` is the client of a lookup and the  *)
(* source of everything else.  Where SQL leaves open which of equal rows   *)
(* come first, an operator yields the set of answers it may give.          *)
(***************************************************************************)
EXTENDS Integers, FiniteSets, FiniteSetsExt

NoValue == ""

\* _base: the events of a kind, and of a kind with one of some actions.
OfKind(events, kind) == {ev \in events : ev.kind = kind}
WithAction(events, kind, actions) == {ev \in OfKind(events, kind) : ev.action \in actions}

\* distinct_values: no limit below is reached by what the analyzers ask of it.
Distinct(events, col) == {ev[col] : ev \in events} \ {NoValue}

Hits(events, col, v) == Cardinality({ev \in events : ev[col] = v})

\* A limit on a set.
AtMost(n, S) == IF Cardinality(S) < n THEN Cardinality(S) ELSE n

\* The first n of a set when it is sorted by a number, the largest first.
Leading(n, S, f) ==
    {T \in kSubset(AtMost(n, S), S) : \A v \in T, w \in S \ T : f[v] >= f[w]}

\* top: n values of a column, the most frequent ones.
Top(events, col, n) ==
    {T \in kSubset(AtMost(n, Distinct(events, col)), Distinct(events, col)) :
        \A v \in T, w \in Distinct(events, col) \ T :
            Hits(events, col, v) >= Hits(events, col, w)}

\* sample: the newest n events.
Newest(events, n) ==
    {T \in kSubset(AtMost(n, events), events) :
        \A x \in T, y \in events \ T : x.ts >= y.ts}

\* group_pairs: n pairs of two columns, the most frequent ones; only the first
\* column must hold a value.
Pair(ev, a, b) == <<ev[a], ev[b]>>
PairHits(events, a, b, p) == Cardinality({ev \in events : Pair(ev, a, b) = p})
TopPairs(events, a, b, n) ==
    LET pairs == {Pair(ev, a, b) : ev \in {x \in events : x[a] # NoValue}}
    IN  {T \in kSubset(AtMost(n, pairs), pairs) :
            \A p \in T, r \in pairs \ T :
                PairHits(events, a, b, p) >= PairHits(events, a, b, r)}

\* Twice the median of the values of a function over a set of peers.
Ranked(f, peers, k) ==
    Min({f[p] : p \in {p \in peers : Cardinality({q \in peers : f[q] <= f[p]}) >= k}})
TwiceMedian(f, peers) ==
    LET n == Cardinality(peers)
    IN  Ranked(f, peers, (n + 1) \div 2) + Ranked(f, peers, (n + 2) \div 2)
=============================================================================
