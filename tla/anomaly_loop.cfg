CONSTANTS
    NodeId = {n1}
    Todos = Todos
    Var = {"TEMP", "HUM", "VIB"}
    NaN = NaN
    Numero <- MCLimites
    Defectos <- MCDefectos
    Declaradas <- MCDeclaradas
    Datagramas <- MCDatagramas
    MaxThresholds = 2
    MaxVars = 2
    MaxAlertsPerMsg = 2
SPECIFICATION Spec
INVARIANTS
    UmbralVigente
    TodoParSeGuarda
    AvisosJustos
