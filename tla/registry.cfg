SPECIFICATION FairSpec
CONSTANTS
    n1 = n1
    n2 = n2
    SinId = SinId
    NodeId = {n1, n2}
    Recorte <- TodoCabe
    MaxNodes = 2
    Sessions = {t1}
    NodeTimeout = 1
    MaxAlertsPerMsg = 1
    MaxVars = 1
    MaxTime = 2
    MaxSeq = 2
    MaxDatagrams = 2
INVARIANTS
    UnSlotPorNodo
    EstadoSegunAvisos
    CadaAlertaUnaVez
    PerdidosAcotan
PROPERTIES
    CaidaJustificada
    CumpleDisponibilidad
    CaidaLlegaAlOperador
