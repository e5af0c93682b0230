CONSTANTS
    MaxSeq = 7
    MaxPerdidas = 1
    MaxCopias = 1
    MaxErrores = 1
    MaxTardios = 1
    MaxReinicios = 2
SPECIFICATION FairSpec
INVARIANTS
    SinRechazoNoHayRegistro
PROPERTY
    NodoSeRecupera
CHECK_DEADLOCK FALSE
