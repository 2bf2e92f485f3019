SPECIFICATION ServerSpec
CONSTANTS
    Attempts = {a1, a2, a3, a4}
    MaxRows = 1
    Stamps = {st1}
    Suffixed = {u1, u2}
    NoFile = NoFile
    Placeholder = Placeholder
    RegistrySetup <- MCRegistry
    CaptureSetup <- MCCaptures
    DailySetup <- MCDaily
    SkillSetup <- MCSkills
    BearerSetup <- MCBearer
    HttpSetup <- MCHttp
    PatternSetup <- MCPatterns
    Together <- MCTogether
    Idle = Idle
    Absent = Absent
    Preset = Preset
    NoSource = NoSource
    Nobody = Nobody
    Unset = Unset
    Pair = {c1, c2}
    Trio = {d1, d2, d3}
    Visitor = Visitor
INVARIANTS
    PartsTyped
    RowsKept
    IncompleteVisible
    PublicationReported
    OneNotePerSource
    FailuresExplained
    PublishedIsPrivate
    ReloadNotUndone
    GrantedIsVouchedFor
    RefusedForCause
    ScopesBoundEffects
    ListedToolsWork
    AnswersBearTheirId
    MatchersAgree
PROPERTIES
    ArchivesSealed
    RegistryIsAtomic
    FinishedWritesRespected
    
    ReadsRespectReload
SYMMETRY MCSymmetry
CHECK_DEADLOCK FALSE
