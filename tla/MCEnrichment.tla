----------------------------- MODULE MCEnrichment -----------------------------
EXTENDS Enrichment, TLC

CONSTANTS p1, p2

\* Two spellings of one domain, two more domains, and one the profile trusts.
MCForm ==
    [e \in Enrichers |-> "Example" :> "example" @@ "example" :> "example"
                             @@ "other" :> "other" @@ "another" :> "another" @@ "trusted" :> Useless]
MCAsks == {Subjects \ {"example"}, {"Example", "example"}}
MCBudget == [e \in Enrichers |-> 2]
MCBatchSize == [e \in Enrichers |-> 2]
MCMaxCalls == p1 :> 2 @@ p2 :> 1
=============================================================================
