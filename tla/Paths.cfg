CONSTANTS
    SegmentLess <- MCSegmentLess
    Files <- MCFiles
    RequestPaths <- MCRequestPaths
    Depths <- MCDepths
    Bodies <- MCBodies
    Resources <- MCResources
    Rereadings = 12
SPECIFICATION Spec
INVARIANTS
    TreesExact
    ResolvesByPrefix
    EntriesLead
    AskedIsAnswered
    HrefLeadsBack
    ShownIfInside
    NoTraversal
