SPECIFICATION Spec
CONSTANTS
    x = x
    y = y
    Chars = {x, y}
    Grants = {"g"}
    Dims <- OneDim
    Policies = {"base", "strict", "gate", "lax"}
    Calls <- SmallCalls
    IssueRequests <- SmallIssues
    DeriveRequests <- SmallDerives
    Required <- SmallRequired
    Absent = Absent
    MaxTime = 7
    MaxWait = 1
    MaxRemits = 3
    MaxDeriving = 2
    Users = {"m"}
    Roles = {"admin", "finance"}
    Paths = {"manager"}
    Nobody = Nobody
    Unset = Unset
    ManagerPath = "manager"
    Admin = "admin"
    DefaultSLA = 2
    Facts = {0, 1, 2, 3}
    Sources <- SmallSources
    Proposals <- SmallProposals
INVARIANTS
    
    RunKeepsItsRemit
    
CHECK_DEADLOCK FALSE
