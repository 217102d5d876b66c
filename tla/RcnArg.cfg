SPECIFICATION FairSpec
CONSTANTS
    MaxPieces = 4
    Argvs <- MCArgvs
    Numerals <- MCNumerals
    Spellings <- MCSpellings
INVARIANTS
    AcceptsGrammar
    ValuesAsWritten
PROPERTY ParseEnds
CHECK_DEADLOCK FALSE
