SPECIFICATION MCSpec
CONSTANTS
    Procs = {p1, p2}
    cpuz162 = cpuz162
    nwhwio = nwhwio
    PawnIO = PawnIO
    Services <- MCServices
    DrvList <- MCDrvList
    MaxCrashes = 1
    Names = {"CPU", "text"}
    Options <- MCOptions
    Messages <- MCMessages
    MaxNodes = 7
    MaxCalls = 4
    Texts <- MCTexts
    Files <- MCFiles
    Queries <- MCQueries
    Sizes = {1, 2, 3, 7, 9, 14}
    intel = intel
    amd = amd
    nvidia = nvidia
    twin = twin
    npu = npu
    None = None
    Cards <- MCCards
    Maker <- MCMaker
    Ids <- MCIds
    Arguments <- MCArguments
    MaxCount = 2
    MaxPlugs = 1
    MaxArguments = 3
SYMMETRY MCSymmetry
INVARIANTS OneCreator SomebodyRemoves ServedAfterAnything ReadsBack HoldsWhatWasTold EscapesFit ContextsFollowList OneEntryEach DoneAsAsked FindsTheEntry
PROPERTY EntriesStay
