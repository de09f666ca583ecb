SPECIFICATION PartsSpec
CONSTANTS
    VarNames = {"x", "y"}
    VarStarts <- VarStartSet
    VarLines <- VarLineSet
    MaxVarLines = 2
    ImpRules <- ImpRuleSet
    ImpBuiltins <- ImpBuiltinSet
    ImpDisks <- ImpDiskSet
    ImpMentioned <- ImpMentionedSet
    ImpGoals <- ImpGoalSet
    ImpExtras <- ImpExtraSet
    MaxImpRules = 2
    RdProfiles <- RdProfileMap
    RdDisk = {"m1", "m2"}
    MaxRdFrames = 2
    TextAlphabets <- TextAlphabetMap
    MaxText = 5
    LineBuffer = 3
    LineSlack = 2
    Paths <- PathSet
    InodeOf <- InodeMap
    MAX_OPEN_DIRECTORIES = 2
    MaxCommands = 1
    MaxQueries = 2
    FdNames <- FdNameSet
    FdMakefiles <- FdMakefileSet
    ShortOpts <- ClShortMap
    LongOpts <- ClLongList
    CommandLines <- ClLineSet
    MakefileFlags <- ClMakefileSet
    SubLines <- ClSubSet
    Digits = {"1", "2", "3"}
    Numbers <- ClNumberMap
    FnAlphabets <- FnAlphabetMap
    FnLengths <- FnLengthMap
    HashFrom = 4
    McTexts <- McTextMap
    McLengths <- McLengthMap
    MaxNesting = 4
    MaxCallArgs = 2
    EXP_COUNT_MAX = 2
    JobLines <- JobLineSet
    RecipeTexts <- RecipeTextSet
    ReferenceTexts <- ReferenceTextSet
    DepNames <- DepNameSet
    MaxDeps = 3
    ListTexts <- NameTexts
    FilesOnDisk <- OnDiskSet
    InArchives <- InArchiveSet
    MemberNames <- MemberNameSet
    AskedNames <- SoughtNames
    NameRoom = 2
    MaxMembers = 2
    MaxArchiveTime = 3
    LibPatterns = 2
    VpathLists = 1
    ListLength = 2
    StdDirs = 1
    WarnTypes = {"circular-dep", "undefined-var"}
    warn_default <- WarnDefaults
    WarnOptions <- WarnOptionSet
    MaxWarnSteps = 3
    RmFiles <- RmFileSet
    RmLines <- RmLineMap
    RmStarts <- RmStartSet
    default_include_directories <- RmStandard
    default_makefiles <- RmDefaults
    MaxRestarts = 3
INVARIANTS MakefilesUnderstood  FunctionsExpand 
CHECK_DEADLOCK FALSE
