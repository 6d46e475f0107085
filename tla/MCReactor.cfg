SPECIFICATION Spec
CONSTANTS
    Pass <- Passes
    Modules_ = 2
    Permits = 1
    Ticks = 3
    Projects <- ListProjects
    DependencyRepos <- Dependencies
    DefaultUrls = {"default"}
    RefusedUrls = {"bad"}
    Scenes <- RecordScenes
    MaxObserved = 4
    Queries <- ChoiceQueries
    KeyOrder <- Keys
    MaxWinnerChanges = 3
    MaxRelocations = 3
    MaxManagedPasses = 2
    MaxQueue = 12
    MaxWalkDepth = 5
    MaxDeclarations = 60
    MaxSteps = 60
CHECK_DEADLOCK FALSE
INVARIANTS PassSound ListsSound RecordsSound ResolutionSound
PROPERTIES PassEnds
