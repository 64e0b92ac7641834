SPECIFICATION Spec

CONSTANTS
    venom = venom
    grizzly = grizzly
    Callback = {c1, c2}
    MaxChoices = 2
    Ship = {venom, grizzly}
    Hosted <- VoyagesHosted
    Fleet = {venom, grizzly}
    Query = {q1, q2}
    NowYear = 2
    NowMonths = {1, 6, 12}
    Pages = 3
    MaxQueries = 3
    MaxClicks = 26
    MaxEdits = 2
    Key = {k1, k2, k3}
    Seconds = 2
    MaxSize = 2
    MaxTime = 3
    MaxChanges = 1

INVARIANTS ReportsTypeOK ViewsAreTrue AnswersWereTrue
CHECK_DEADLOCK FALSE
