SPECIFICATION RingSpec
CONSTANTS
    e1 = e1
    e2 = e2
    e3 = e3
    Vacia = Vacia
    Entradas = {e1, e2, e3}
    MaxEntradas = 4
    PorDefecto = 2
    IntMax = 7
    Peticiones = {1, 3, 4, 7, 8, 16, 17}
PROPERTY
    ImplementaElLog
