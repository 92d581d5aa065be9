CONSTANTS
    Addresses <- MCAddresses
    Users <- MCUsers
    Contents <- MCContents
    MaxPair <- MCMaxPair
    MaxActive <- MCMaxActive
SPECIFICATION FairSpec
INVARIANTS
    PinnedSettings
PROPERTIES
    HangupHeeded
    ShutdownEnds
