SPECIFICATION FairSpec
CONSTANTS
    Cuentas = {0, 1, 4}
    MaxSenales = 3
INVARIANTS ParadaOrdenada HuerfanosExplicados
PROPERTIES LanzadorTermina CtrlCLosParaATodos
CHECK_DEADLOCK FALSE
