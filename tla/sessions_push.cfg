SPECIFICATION Spec
CONSTANTS
    c1 = c1
    c2 = c2
    c3 = c3
    Conns = {c1, c2}
    Difusores = {udp}
    MaxOperators = 2
    Fds = {4, 5}
    Nadie = Nadie
    Trozos = 2
    Capacidad = 2
SYMMETRY ClientesIguales
INVARIANTS
    RespuestaEntera
    TodosAvisados
