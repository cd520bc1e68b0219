SPECIFICATION Spec
CONSTANTS
    r = r
    f = f
    n1 = n1
    n2 = n2
    n3 = n3
    gone = gone
    caller = caller
    root = root
    stranger = stranger
    Nodes <- AllNodes
    Root = r
    FsRoots <- OneFs
    Nowhere = gone
    Names <- TwoNames
    Caller = caller
    Superuser = root
    Stranger = stranger
    Paths <- SomePaths
    Home <- HomePath
    Trees <- Trees0
    MaxMoves = 2
    MaxWalks = 2
INVARIANTS
    WalkTypeOK
    NothingLeftForeign
    WalksAgree
PROPERTIES
    HandsOverOnlyItsOwn
    BuildsOnOwnGround
