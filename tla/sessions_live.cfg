SPECIFICATION FairReaders
CONSTANTS
    c1 = c1
    c2 = c2
    c3 = c3
    Conns = {c1, c2}
    Difusores = {udp}
    MaxOperators = 1
    Fds = {4, 5}
    Nadie = Nadie
    Trozos = 1
    Capacidad = 1
INVARIANTS
    RanuraEsDeSuSesion
PROPERTIES
    AlertaSoloAQuienLaPidio
    RespuestaSale
    DifusorVuelve
