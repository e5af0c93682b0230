CONSTANTS
    Simples = {"HELLO", "SUBSCRIBE"}
    Multiples = {"LIST_NODES"}
    MaxPedidos = 4
    MaxAvisos = 2
    MaxFilas = 2
    MaxTardanzas = 1
SPECIFICATION ClienteFairSpec
INVARIANTS
    RespuestaCorresponde
    NingunAvisoSePierde
PROPERTY
    ComandoAcaba
CHECK_DEADLOCK FALSE
