SPECIFICATION Spec
CONSTANTS
    MaxMessage = 2
    BufferSize = 2
    MaxBytes = 8
INVARIANTS
    SoloLineasEnteras
    SinExcesosNadaSePierde
    CadaLineaSuRespuesta
CHECK_DEADLOCK FALSE
