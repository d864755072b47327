SPECIFICATION LanguageSpec
CONSTANTS
    Users = {"u", "m"}
    Roles = {"admin", "finance"}
    Paths = {"manager"}
    Nobody = Nobody
    Unset = Unset
    ManagerPath = "manager"
    Admin = "admin"
    DefaultSLA = 2
    Facts = {0}
    PolicySets <- SmallPolicySets
    Contexts <- SmallContexts
    Texts <- SmallTexts
    Topics <- AllTopics
    MaxPattern = 5
    MaxPath = 4
    MaxNodes = 2
INVARIANTS
    TokensAreTheText
    
    GlobIsAlignment
    AbsenceNeverMatches
    LoopDecides
CHECK_DEADLOCK FALSE
