SPECIFICATION FairSpec
CONSTANTS
    Hilos = {h1}
    Visitas <- MCVisitas
    Entornos <- MCEntornos
    PuertoServidor = 6000
    MaxRanuras = 1
    MaxMomentos = 3
    Tablas <- MCTablas
INVARIANTS EnCurso PaginaCuadra
PROPERTIES CumpleLaPromesa TodaVisitaSeResponde RanuraDevuelta
CHECK_DEADLOCK FALSE
