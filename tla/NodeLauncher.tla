---------------------------- MODULE NodeLauncher ----------------------------
(***************************************************************************)
(* clients/run_nodes.py, main: it starts the nodes one after another, waits *)
(* for them, and turns Ctrl-C and SIGTERM into one orderly stop: a SIGTERM  *)
(* for every node, then 5 seconds for each, then kill().  KeyboardInterrupt *)
(* may be raised between any two steps; inside the stop it is not caught.   *)
(*                                                                          *)
(* A node is a process of clients/telemetry_node.py: a signal ends it at    *)
(* once until it has its handlers; with them (detener) it ends its wait     *)
(* first, which may take longer than 5 seconds (TelemetryNode).  How its    *)
(* command line is put together is left out.                                *)
(***************************************************************************)
EXTENDS Integers, Sequences

CONSTANTS
    Cuentas,      \* values of --count
    MaxSenales    \* bound: signals sent to the launcher

ASSUME LauncherAssumption == Cuentas \subseteq Int /\ MaxSenales \in Nat

VARIABLES
    fase,        \* where main() is
    cuenta,      \* args.count
    procesos,    \* the list of processes, which are numbered as they start
    puesto,           \* the position the loop is at
    nodo,        \* per process: "nace", "marcha", "avisado" (detener ran), "ido"
    intentados,  \* history: processes the stop tried to signal
    forzados,    \* history: processes that kill() ended
    senales      \* history: the signals sent, in order

vars == <<fase, cuenta, procesos, puesto, nodo, intentados, forzados, senales>>

Activas == {"popen", "anota", "espera", "avisa", "recoge"}
Terminada == fase \in {"fin", "roto", "rechazado"}
Vivos == {n \in DOMAIN nodo : nodo[n] # "ido"}

Init ==
    /\ fase = "inicio" /\ cuenta \in Cuentas
    /\ procesos = <<>> /\ puesto = 1
    /\ nodo = <<>>
    /\ intentados = {} /\ forzados = {} /\ senales = <<>>

-----------------------------------------------------------------------------
(* The launcher.                                                            *)

(* --count below 1 is refused. *)
Empezar ==
    /\ fase = "inicio"
    /\ fase' = IF cuenta < 1 THEN "rechazado" ELSE "popen"
    /\ UNCHANGED <<cuenta, procesos, puesto, nodo, intentados, forzados, senales>>

(* Popen: the child runs before the list knows of it; or there is no child, *)
(* and the OSError ends the launcher.                                       *)
Popen ==
    /\ fase = "popen" /\ Len(procesos) < cuenta
    /\ \/ fase' = "anota" /\ nodo' = Append(nodo, "nace")
       \/ fase' = "roto" /\ UNCHANGED nodo
    /\ UNCHANGED <<cuenta, procesos, puesto, intentados, forzados, senales>>

(* procesos.append, and the pause before the next one. *)
Anotar ==
    /\ fase = "anota"
    /\ procesos' = Append(procesos, Len(nodo))
    /\ fase' = "popen"
    /\ UNCHANGED <<cuenta, puesto, nodo, intentados, forzados, senales>>

TodosEnMarcha ==
    /\ fase = "popen" /\ Len(procesos) = cuenta
    /\ fase' = "espera" /\ puesto' = 1
    /\ UNCHANGED <<cuenta, procesos, nodo, intentados, forzados, senales>>

(* The end of a loop over procesos. *)
FinDe(a, b) ==
    /\ fase = a /\ puesto > Len(procesos)
    /\ fase' = b /\ puesto' = 1
    /\ UNCHANGED <<cuenta, procesos, nodo, intentados, forzados, senales>>

(* proceso.wait() *)
Esperar ==
    /\ fase = "espera" /\ puesto <= Len(procesos) /\ nodo[procesos[puesto]] = "ido"
    /\ puesto' = puesto + 1
    /\ UNCHANGED <<fase, cuenta, procesos, nodo, intentados, forzados, senales>>

(* A signal, for a process that runs. *)
TrasAviso(estado) ==
    CASE estado = "nace" -> "ido"
      [] estado = "marcha" -> "avisado"
      [] OTHER -> estado

(* Mutant: poll() read the wrong way round. *)
SeAvisaAlReves(n) == nodo[n] = "ido"

(* poll() is None *)
SeAvisa(n) == nodo[n] # "ido"

(* The first loop of the stop; send_signal may fail. *)
Avisar ==
    /\ fase = "avisa" /\ puesto <= Len(procesos)
    /\ LET n == procesos[puesto] IN
       \/ /\ SeAvisa(n)
          /\ nodo' = [nodo EXCEPT ![n] = TrasAviso(@)]
          /\ intentados' = intentados \cup {n}
       \/ /\ SeAvisa(n)
          /\ intentados' = intentados \cup {n}
          /\ UNCHANGED nodo
       \/ ~SeAvisa(n) /\ UNCHANGED <<nodo, intentados>>
    /\ puesto' = puesto + 1
    /\ UNCHANGED <<fase, cuenta, procesos, forzados, senales>>

(* Mutants: wait() without a limit; a node that is late is left behind. *)
PlazoVencidoNunca(n) == FALSE
TrasPlazoSeDeja(estado) == estado

(* TimeoutExpired, and kill(). *)
PlazoVencido(n) == nodo[n] # "ido"
TrasPlazo(estado) == "ido"

(* The second loop: wait(timeout=5) for each. *)
Recoger ==
    /\ fase = "recoge" /\ puesto <= Len(procesos)
    /\ LET n == procesos[puesto] IN
       \/ nodo[n] = "ido" /\ UNCHANGED <<nodo, forzados>>
       \/ /\ PlazoVencido(n)
          /\ nodo' = [nodo EXCEPT ![n] = TrasPlazo(@)]
          /\ forzados' = forzados \cup {n}
    /\ puesto' = puesto + 1
    /\ UNCHANGED <<fase, cuenta, procesos, intentados, senales>>

-----------------------------------------------------------------------------
(* Signals.                                                                 *)

(* Mutant: only the wait is inside the try. *)
TrasSenalEnEspera(f) == IF f = "espera" THEN "avisa" ELSE "roto"
(* Mutant: the try is inside the loop, and the next node is started.        *)
TrasSenalSigue(f) == IF f \in {"popen", "anota"} THEN "popen" ELSE "avisa"

(* Where KeyboardInterrupt takes main(): to the except of the try, or out.  *)
TrasSenal(f) == IF f \in {"popen", "anota", "espera"} THEN "avisa" ELSE "roto"

Interrumpir(senal) ==
    /\ ~Terminada /\ Len(senales) < MaxSenales
    /\ senales' = Append(senales, senal)
    /\ fase' = TrasSenal(fase)
    /\ puesto' = 1
    /\ UNCHANGED <<cuenta, procesos, intentados, forzados>>

(* kill: the launcher alone has it (_detener_con_sigterm). *)
SigTerm == Interrumpir("TERM") /\ UNCHANGED nodo

(* Ctrl-C: the whole process group has it. *)
CtrlC == Interrumpir("INT") /\ nodo' = [n \in DOMAIN nodo |-> TrasAviso(nodo[n])]

-----------------------------------------------------------------------------
(* The nodes: a node installs its handlers; it ends by itself, --duration   *)
(* over or broken, or because it was told.                                  *)
Instala(n) ==
    /\ nodo[n] = "nace"
    /\ nodo' = [nodo EXCEPT ![n] = "marcha"]
    /\ UNCHANGED <<fase, cuenta, procesos, puesto, intentados, forzados, senales>>

Acaba(n) ==
    /\ nodo[n] # "ido"
    /\ nodo' = [nodo EXCEPT ![n] = "ido"]
    /\ UNCHANGED <<fase, cuenta, procesos, puesto, intentados, forzados, senales>>

Atiende(n) == nodo[n] = "avisado" /\ Acaba(n)

-----------------------------------------------------------------------------
Lanzador ==
    \/ Empezar \/ Popen \/ Anotar \/ TodosEnMarcha \/ Esperar \/ Avisar \/ Recoger
    \/ FinDe("espera", "fin") \/ FinDe("avisa", "recoge") \/ FinDe("recoge", "fin")

Next ==
    \/ Lanzador \/ SigTerm \/ CtrlC
    \/ \E n \in DOMAIN nodo : Instala(n) \/ Acaba(n)

Spec == Init /\ [][Next]_vars

(* The launcher runs, and a node that was told ends: its waits are limited. *)
FairSpec ==
    /\ Spec /\ WF_vars(Lanzador)
    /\ \A n \in UNION {1..c : c \in Cuentas} : WF_vars(n \in DOMAIN nodo /\ Atiende(n))

-----------------------------------------------------------------------------
TypeOK ==
    /\ fase \in Activas \cup {"inicio", "fin", "roto", "rechazado"}
    /\ cuenta \in Cuentas
    /\ puesto \in 1..Len(procesos) + 1
    /\ procesos \in Seq(Nat) /\ \A k \in 1..Len(procesos) : procesos[k] = k
    /\ nodo \in Seq({"nace", "marcha", "avisado", "ido"})
    /\ Len(nodo) \in {Len(procesos), Len(procesos) + 1}
    /\ intentados \subseteq DOMAIN nodo /\ forzados \subseteq DOMAIN nodo
    /\ senales \in Seq({"TERM", "INT"})

(* An orderly stop leaves no process of its list running, and kill() ends    *)
(* only nodes that were first asked to end, whatever they were doing (main,  *)
(* the except).                                                             *)
ParadaOrdenada ==
    /\ TypeOK
    /\ fase = "fin" => \A k \in DOMAIN procesos : nodo[procesos[k]] = "ido"
    /\ forzados \subseteq intentados

(* A node outlives the launcher without having been told only if there was   *)
(* no Ctrl-C, and then: it is the one process that Popen had started and     *)
(* append had not recorded when SIGTERM came; or a second SIGTERM broke the  *)
(* stop; or Popen failed and nobody stopped anything (main).                 *)
Huerfanos == {n \in DOMAIN nodo : nodo[n] \in {"nace", "marcha"}}
ConCtrlC == \E k \in DOMAIN senales : senales[k] = "INT"

HuerfanosExplicados ==
    Terminada /\ Huerfanos # {} =>
        /\ ~ConCtrlC
        /\ \/ fase = "fin" /\ Huerfanos = {Len(procesos) + 1} /\ senales # <<>>
           \/ fase = "roto" /\ Len(senales) # 1

(* Once signalled, the launcher ends, even if no node ever does (wait with a *)
(* timeout, and kill).                                                      *)
LanzadorTermina == senales # <<>> ~> Terminada

(* After a Ctrl-C every node ends, those being started included, even if the *)
(* launcher is broken by a second one (_detener_con_sigterm: "los nodos se   *)
(* enteran solos").                                                         *)
CtrlCLosParaATodos == ConCtrlC ~> Vivos = {}
=============================================================================
