SPECIFICATION Spec
CONSTANTS
    nel = nel
    mezzo = mezzo
    del = del
    cammin = cammin
    Void = Void
    EOS = EOS
    file <- File
    Places = {1, 2}
INVARIANTS
    PrintsTheFile
