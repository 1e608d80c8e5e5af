---------------------------- MODULE MCAdjudication ----------------------------
EXTENDS Adjudication, TLC

MChint == "info" :> INFO @@ "low" :> LOW @@ "high" :> HIGH @@ "critical" :> CRITICAL

Asks(cited, kinds, severity, marks) ==
    [title |-> TRUE, signal_ids |-> cited, event |-> cited = {},
     evidence_kinds |-> kinds, severity |-> severity, marks |-> marks]

\* Over-reaching, modest and unrated findings on one signal, on two, on events
\* alone, and with evidence that may not support what is asked; an unrated one
\* on reputation takes a CRITICAL hint as it is.
MCSubmissions ==
    {Asks({s}, {"local_behavior"}, CRITICAL, {"scan"}) : s \in Signals \ {"critical"}}
    \cup {Asks({"critical"}, {"reputation", "baseline_delta"}, SUSPECTED, {"host"}),
          Asks({"high"}, {"policy_violation"}, MEDIUM, {"scan", "host"}),
          Asks({"low", "high"}, {}, CRITICAL, {}),
          Asks({}, {"correlation"}, CRITICAL, {"scan"}),
          Asks({"high"}, {"reputation"}, HIGH, {}),
          Asks({"high"}, {"reputation", "baseline_delta"}, CRITICAL, {"scan", "host"}),
          [Asks({"high"}, {"local_behavior"}, HIGH, {}) EXCEPT !.title = FALSE]}

MCMatchers ==
    {[needs |-> {"scan"}, max_severity |-> LOW],
     [needs |-> {"scan", "host"}, max_severity |-> Unbounded],
     [needs |-> {}, max_severity |-> Unbounded]}
=============================================================================
