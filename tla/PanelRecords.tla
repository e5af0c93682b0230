---------------------------- MODULE PanelRecords ----------------------------
(***************************************************************************)
(* The pure half of web/servicio_web.py: the tolerant parsers of the four   *)
(* answers, the counters derived from the node table and what the page      *)
(* shows of a section.  A record is the sequence of its fields, its type    *)
(* first; text is a string, counts are numbers, escaping and HTML are left  *)
(* out.                                                                     *)
(***************************************************************************)
EXTENDS Integers, Sequences, FiniteSets

(* The four sections, in the order of the page and of the commands.         *)
Secciones == 1..4
Sistema == 1
Nodos == 2

(* Fields a record must have: STAT, NODE, MEAS and EVENT. *)
Minimo == <<3, 8, 6, 6>>

(* _CLAVES_STAT: two of the nine keys stand for all. *)
ClavesStat == <<"NODOS_REGISTRADOS", "NODOS_ACTIVOS">>
SinValor == "-"

(* Mutant: the lengths compared with =. *)
EstaCompletoExacto(k, r) == Len(r) = Minimo[k]

EstaCompleto(k, r) == Len(r) >= Minimo[k]

(* parsear_nodos and its siblings: the list after the first i records; short *)
(* ones are dropped, order is kept.                                         *)
Completos(k, registros) ==
    LET tras[i \in 0..Len(registros)] ==
            IF i = 0 THEN <<>>
            ELSE IF EstaCompleto(k, registros[i]) THEN Append(tras[i - 1], registros[i])
            ELSE tras[i - 1]
    IN  tras[Len(registros)]

(* ... and of the long ones only the known fields are read. *)
Filas(k, registros) ==
    LET buenos == Completos(k, registros)
    IN  [i \in DOMAIN buenos |-> SubSeq(buenos[i], 2, Minimo[k])]

(* parsear_sistema: of a repeated key the last value stays. *)
ParsearSistema(registros) ==
    LET f == Filas(Sistema, registros)
        De(clave) == {i \in DOMAIN f : f[i][1] = clave}
    IN  [clave \in {f[i][1] : i \in DOMAIN f} |->
            f[CHOOSE i \in De(clave) : \A j \in De(clave) : j <= i][2]]

(* _contar_activos, blind to the case of the letters. *)
Activos == {"ONLINE", "online"}
ContarActivos(filas) == Cardinality({i \in DOMAIN filas : filas[i][2] \in Activos})

(* PanelDatos.crear *)
Crear(estado, secciones) == [estado |-> estado, secciones |-> secciones]

(* _seccion_estado_html and _seccion_nodos_html; the other two sections are  *)
(* the table alone.  A section without data shows the same with no records. *)
MuestraSistema(registros) ==
    LET valores == ParsearSistema(registros)
    IN  [i \in DOMAIN ClavesStat |->
            IF ClavesStat[i] \in DOMAIN valores THEN valores[ClavesStat[i]] ELSE SinValor]

MuestraNodos(registros) ==
    LET f == Filas(Nodos, registros)
    IN  [registrados |-> Len(f), activos |-> ContarActivos(f), tabla |-> f]

Muestra(k, registros) ==
    CASE k = Sistema -> MuestraSistema(registros)
      [] k = Nodos -> MuestraNodos(registros)
      [] OTHER -> Filas(k, registros)
=============================================================================
