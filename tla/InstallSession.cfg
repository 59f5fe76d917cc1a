SPECIFICATION SessionSpec
CONSTANTS
    HostNames <- MCHostNames
    LongStems <- MCLongStems
    Sizes <- MCSizes
    MaxNumber <- MCMaxNumber
    MaxEntries <- MCMaxEntries
    MaxRead <- MCMaxRead
    Images <- MCImages
    MaxInstalls <- MCMaxInstalls
INVARIANTS
    UniqueNames
    NeverRefused
    ReadsItsData
    AllTaken
    ServicesBalanced
