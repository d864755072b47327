SPECIFICATION Spec
CONSTANTS
    Users = {"tom", "cfo"}
    Roles = {"admin", "finance"}
    Paths = {"manager"}
    Nobody = Nobody
    Unset = Unset
    ManagerPath = "manager"
    Admin = "admin"
    DefaultSLA = 1
    Facts = {0, 1}
    Actions <- SmallActions
    Actors <- SmallActors
    Directory <- SmallDirectory
    Names = {"p", "q"}
    Versions <- FewVersions
    Sources <- FewSources
    FirstSources <- FirstVersions
    PolicySet <- BothPolicies
    Runs = {"r1"}
    MaxProposals = 2
    MaxRequestTime = 1
    MaxTime = 2
INVARIANTS
    RightApprover
    InboxesAreRight
    ReplayClean
    
CHECK_DEADLOCK FALSE
