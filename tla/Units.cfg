CONSTANTS
    Pieces <- MCPieces
    Words <- MCWords
    Asks <- MCAsks
    EditBlocks <- MCEditBlocks
    Ids = {"id1", "id2"}
    CallerUid = "1000"
    Digits = {"100", "101", "1000", "1001", "9999999999"}
    TooLarge = {"9999999999"}
    MaxEdits = 2
SPECIFICATION Spec
INVARIANTS RoundTrips TrustedIsTemplate TrustedIsListed
