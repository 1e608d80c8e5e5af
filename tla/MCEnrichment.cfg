CONSTANTS
    p1 = p1
    p2 = p2
    Processes = {p1, p2}
    Enrichers = {"ismalicious"}
    Subjects = {"example", "Example", "other", "another", "trusted"}
    Asks <- MCAsks
    Useless = Useless
    Form <- MCForm
    Budget <- MCBudget
    batch_size <- MCBatchSize
    MaxCalls <- MCMaxCalls
SPECIFICATION Spec
INVARIANTS RepliesWithinBudget NobodyIsForgotten RefusedMeansSpent NothingIsPaidTwice
