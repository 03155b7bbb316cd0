SPECIFICATION Spec
CONSTANTS
    uno = uno
    due = due
    tre = tre
    Blank = Blank
    EOS = EOS
    NULL = NULL
    file <- File
    hash <- Hash
    Q1size = 1
    Q2size = 2
    NBUCKETS = 2
    MaxLost = 1
INVARIANTS
    OneOwner
    UniqueWords
PROPERTIES
    Termination
