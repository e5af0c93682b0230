CONSTANTS
    Clases = {"buena", "mala"}
    MaxPeticiones = 2
    FilasAlertas = 1
    MaxAlertas = 2
    MaxFallos = 2
SPECIFICATION FairSpec
INVARIANTS
    RespuestaCorresponde
    SinConexionesOlvidadas
    VentanaAlDia
    UnaPeticionPorFallo
PROPERTIES
    Reconecta
    AlertaEnPantalla
CHECK_DEADLOCK FALSE
