# Verification of the telemetry system (TSP/1.0)

TLA+ models of the telemetry server (`server/`), its clients (`clients/`) and
its web panel (`web/`), the TLC runs that check them on small instances
and the TLAPS proofs about them. Paths below are relative to the repository.

## 1. The system

A server written in C keeps a registry of telemetry nodes in memory. Nodes
register over TCP and then send measurements over UDP; operators (a command
line client, a window, the web panel) ask over TCP and receive alerts that the
server pushes. The protocol is described in `docs/PROTOCOLO.md`.

### Components

| Component | Code | State | Operations |
|---|---|---|---|
| Node registry | `server/registry.c` | `g_nodes` (slot, id, `online`, last measurement, last SEQ, loss estimate), counters | REGISTER, TELEMETRY, lookups |
| Monitor | `registry.c` `monitor_thread` | local clock and loop index, alerts to push | one scan every `MONITOR_PERIOD_SEG` |
| Anomaly detection | `registry.c` | `g_thresholds`, variables of each node | SET_THRESHOLD, the loop over a datagram's pairs |
| Histories | `registry.c` | two circular buffers (`head`, `count`) | store an entry, GET_LAST, GET_ALERTS |
| Operator table and TCP sessions | `server_concurrent.c`, `handlers.c`, `registry.c` | `g_operators` (fd, role, subscription), one thread per connection, sockets | accept, commands, answers, pushes, close |
| Line framing | `protocol.c` | `tsp_linebuf_t` (`data`, `len`, `discarding`) | push, next |
| Parsing and formatting | `protocol.c` | none | pure functions |
| UDP receiver | `server_concurrent.c`, `handlers.c` | none of its own | one datagram, one answer |
| Telemetry node | `clients/telemetry_node.py` | `registrado`, `seq`, counters | register, measure, wait for the ACK |
| Operator CLI | `clients/operator_cli.py`, `tsp.py` | queue of lines, `activo`; two threads | commands, reader loop, close |
| Operator window | `clients/operator_gui.py`, `tsp.py` | connection, queue of petitions, queue of events; a worker thread | connect, petitions, rounds of queries, reconnect |
| Web panel | `web/servicio_web.py`, `tsp.py` | per handler thread: its TSP connection, the sections read so far; none between requests | start, route, connect, five commands, parse, render, close |
| Node launcher | `clients/run_nodes.py` | the list of processes, the place in `main` | start the nodes, wait, stop them on a signal |
| Test programs, deployment | `server_tcp.c`, ..., `setup_ec2.sh` | none | not modelled |

### How they interact

* Threads of the server share `g_nodes`, the histories and the thresholds under
  `g_mutex`, and `g_operators` under `g_op_mutex`. The two are never nested:
  `GET_SYSTEM` takes one after the other, and alerts are *stored* under
  `g_mutex` and *pushed* after it, under `g_op_mutex`.
* A session thread writes its answers with `registry_operator_send` (under
  `g_op_mutex`, in a loop over `send()`); the UDP thread, the monitor and the
  sessions that handle a REGISTER write ALERTs to the same sockets with
  `difundir_alertas`. All sockets block.
* A node meets the server over TCP once per registration and over UDP for every
  measurement; the ACK is informative, a `406` makes it register again.
* A page of the web panel is one TSP session of five commands, opened and closed
  by the thread of its HTTP request; threads meet only in the server's operator
  table, of which each takes a slot.
* The launcher and its nodes meet through signals and `wait` alone.
* A client reads answers and ALERTs from one stream, and tells them apart by
  the first field of a line.

### What is hard

Alerts change hands between two critical sections; a blocking `send()` is made
under a mutex every thread needs; descriptors are reused; the monitor's clock
is older than the data it is compared with; datagrams are lost, copied,
overtaken and late; the server forgets everything when it restarts; answers
carry no identity, so a wait that is given up shifts all later ones; arrays are
full or narrowed silently; the tables of a page are asked for one after another
while the server goes on, or restarts; a signal may come between any two steps
of a stop. `PROJECT.json` lists each such place under
`hazards` with its line and the properties that watch it.

### What makes each component correct

* *Registry*: one slot per node; an accepted node is found until the server
  stops; the loss estimate is bounded from both sides; the flag and the log of
  alerts agree and transitions alternate; a node is declared down only when it
  is, and eventually if it is; each alert is pushed exactly once.
* *Thresholds*: the limits in force
  are the last accepted ones, the node's own before the global ones; the loop
  over a datagram's pairs stores each value and gives each alert it has room for.
* *Histories*: whatever was stored and asked for, the answer is the newest
  entries, newest first.
* *Sessions*: answers stay whole; a subscriber is never skipped; nobody gets an
  alert it did not ask for; the table never names a descriptor of another
  connection; answers and pushes end as long as clients read.
* *Framing*: only whole lines reach the dispatcher, none is lost while the
  client keeps the limit, and each has one answer whatever the client sends.
* *Clients*: an answer belongs to its request; no alert is lost while the
  connection is up; commands end; a lost connection is replaced; the node is
  back in the table after a restart of the server.
* *Web panel*: every request is answered; each table of a page is the answer to its
  own command, no older than the request, in order, of one life of the server,
  and nothing follows a cut; what it shows of a table are its complete records;
  every slot is given back.
* *Launcher*: an orderly stop leaves no node behind and forces nobody it did not
  ask first; what may be left behind otherwise is named.

## 2. Modules

| Module | Models | Used by |
|---|---|---|
| `NodeAvailability` | abstract: when a node is up or down, what is logged and pushed of it | `NodeRegistry` (refinement) |
| `NodeRegistry` | `g_nodes`, the alert log, the monitor, the pushes of each thread | `MCNodeRegistry`, `NodeRegistryProofs` |
| `NodeRegistryProofs` | theorems about `NodeRegistry`, the refinement included | |
| `AnomalyDetection` | `g_thresholds`, the variables of a node, the loop over a datagram's pairs | `MCAnomalyDetection`, `AnomalyDetectionProofs` |
| `AnomalyDetectionProofs` | theorems about `AnomalyDetection` | |
| `HistoryLog` | abstract: the log a circular buffer stands for | `HistoryRing` (refinement) |
| `HistoryRing` | `g_meas` and `g_alerts`, GET_LAST and GET_ALERTS | `MCHistoryRing`, `BuffersProofs` |
| `OperatorSessions` | accept, session threads, `g_operators`, sockets, pushes | `MCOperatorSessions`, `OperatorSessionsProofs` |
| `OperatorSessionsProofs` | theorems about `OperatorSessions` | |
| `LineBuffer` | `tsp_linebuf_push`, `tsp_linebuf_next`, the receive loop | `BuffersProofs` |
| `BuffersProofs` | theorems about `LineBuffer` and the refinement of `HistoryLog` by `HistoryRing` | |
| `TelemetryNode` | `NodoTelemetria`, with the UDP network and the server as its environment | `TelemetryNodeProofs` |
| `TelemetryNodeProofs` | a theorem about `TelemetryNode` | |
| `OperatorClient` | `SesionOperador`, with the server as its environment | `ClientProgramsProofs` |
| `OperatorGui` | `TrabajadorTelemetria`, with the server as its environment | `OperatorGuiProofs` |
| `OperatorGuiProofs` | theorems about `OperatorGui` | |
| `PanelRecords` | the parsers and counters of the panel and what a page shows of a section | `WebPanel` |
| `PanelPromise` | abstract: what the panel promises a browser | `WebPanel` (refinement) |
| `WebPanel` | `main`, the handler threads, `obtener_panel`, with the server as its environment | `MCWebPanel`, `WebPanelProofs` |
| `WebPanelProofs` | theorems about `WebPanel`, the refinement included | |
| `NodeLauncher` | `main` of `run_nodes.py`, with the nodes and the signals | `ClientProgramsProofs` |
| `ClientProgramsProofs` | theorems about `OperatorClient` and `NodeLauncher` | |

A module of theorems that extends two models needs their names apart: the
variables and actions of `HistoryRing` and `OperatorClient` keep the names of
the code, and what every specification has carries a prefix there (`RingInit`,
`ClienteNext`, ...).

Correspondence with the code:

* **`NodeRegistry`.** A critical section of `g_mutex` is one action
  (`RegisterNode`, `RecordTelemetry`), except the monitor's scan, one action per
  slot with the mutex held (`MonitorRevisa`): other threads cannot enter, but
  the clock goes on. `MonitorDespierta` reads the clock *before* the mutex, as
  line 352 does. An alert is its position in the log `historial`. Each thread
  carries the alerts of its section in `pendientes` (the local array) and
  pushes them in later steps. `Recorte` is what `copiar()` keeps of an id:
  the proofs about slots assume it keeps all (`IdsCaben`), the others hold for
  any cut. `vistos`, `primero`,
  `aceptados` and `entregadas` are history variables for the properties.
  `NodeAvailability` has neither slots nor threads: a node is unknown, up or down,
  was last heard of at some time, and leaves alerts that are pushed once each. The
  mapping reads the first two from the slot whose id is the node's (`Estado`,
  `Contacto`), takes the log as it is and the set of what was pushed
  (`Publicados`).
* **`AnomalyDetection`.** Doubles are a few integers and `NaN`, with C's
  comparisons. `enCurso` is the datagram in the loop; the loop is one step per
  pair. `dicho` remembers the last limits accepted for each destination and
  variable.
* **`HistoryRing`.** Positions and `count` as in the C code; a count read from
  a command is narrowed to the `2 * (IntMax + 1)` values of an `int`, as
  `(int)n` does. `HistoryLog` understands the counts up to `Caben`; one above is
  refused or taken for another, and answered with the newest entries all the same.
* **`OperatorSessions`.** A message is `Trozos` pieces and a socket holds
  `Capacidad` of them; a `send()` of an answer may be short, one of a push is
  made once. Descriptors are the lowest free one, as the kernel gives them.
  Each phase of a session thread is a place in `handle_tcp_client`.
* **`LineBuffer`.** Bytes are a line feed, a carriage return or another; `recv`
  cuts the stream anywhere. The 413 of an overflow is sent once per `recv`, however
  many lines it threw away: `problema` is the set of their bytes (the code keeps only
  whether there are any), and `de` of an answer the bytes it speaks of.
* **`TelemetryNode`.** One action per step of `enviar_medicion`; the socket's
  buffer keeps late answers, as a UDP socket does.
* **`OperatorClient`.** Lines are records (type, request answered, rows). The
  reader thread and the main thread meet only in `cola`.
* **`OperatorGui`.** The worker is one thread; `hilo` is its place in `_bucle`
  or the command it waits for. The window's event queue is drained in order,
  so the window is modelled by what it ends up showing. Of the alerts stored the
  answer to GET_ALERTS has the newest `FilasAlertas`, the code's 25
  (`Recientes`; the server keeps 128), and the table is repainted with those and no
  others.
* **`WebPanel`.** `hilo` is where a handler thread stands: `ruta` (routing),
  `espera` (in `comando`, `paso` says which), `bye` (in `cerrar`), `fin`. `panel`
  is the `PanelDatos` it builds: a section is its data, a `SeccionError`, or a cut
  (the same `SeccionError` from the failed command on). What a table holds is
  its version, `momento`, and `Tablas` gives the records of each version to
  `PanelRecords`. `sesion`, `pedidos` and `lineas` are the server's half:
  a slot or a 503 (`OperatorSessions` models how), requests answered in order, each
  answer whole. `Cae` and `Vuelve` restart the server, `Corta` breaks a
  connection, `Parar` is Ctrl-C on the panel, `Revienta` an exception no handler
  names. `PanelPromise` has only requests, responses and versions; the mapping
  is the identity on them.
* **`NodeLauncher`.** `fase` is the place in `main`; KeyboardInterrupt may be raised
  at each of its steps (`Interrumpir`), and goes to the `except` or out
  (`TrasSenal`). `anota` is the gap between `Popen` and `append`. A node is a
  process without handlers (`nace`), with them (`marcha`), told to end
  (`avisado`) or gone.

## 3. Runs

"pass" means TLC visits every reachable state of the instance and the
properties hold. "violation" means the code contradicts a sentence of its
documentation; `findings` in `PROJECT.json` quotes it.

| Run | Properties | Shows |
|---|---|---|
| `registry` | `UnSlotPorNodo`, `EstadoSegunAvisos`, `CadaAlertaUnaVez`, `PerdidosAcotan`, `CaidaJustificada`, `CumpleDisponibilidad`, `CaidaLlegaAlOperador` | two nodes, a session, the UDP thread and a fair monitor interleaved, a running clock, gaps, copies and overtaking |
| `anomaly_loop` | `UmbralVigente`, `TodoParSeGuarda`, `AvisosJustos` | thresholds in any order between datagrams, with every table full |
| `history_ring` | `ImplementaElLog` | the rings refine the log, counts that are narrowed to a negative, zero or another positive included |
| `sessions_push` | `RespuestaEntera`, `TodosAvisados` | two clients in two slots, pushes between the pieces of answers |
| `sessions_live` | `RanuraEsDeSuSesion`, `AlertaSoloAQuienLaPidio`, `RespuestaSale`, `DifusorVuelve` | two clients for one slot, which connect again and reuse descriptors; clients keep reading |
| `sessions_stuck` | `DifusorVuelve` violated | one client that does not read blocks the UDP thread |
| `lines_cut` | `SoloLineasEnteras`, `SinExcesosNadaSePierde`, `CadaLineaSuRespuesta` | every cut of every stream of eight bytes |
| `node_session` | `SinRechazoNoHayRegistro`, `NodoSeRecupera` | losses, copies, late answers, failed sends, two restarts |
| `client_session` | `RespuestaCorresponde`, `NingunAvisoSePierde`, `ComandoAcaba` | four requests, two alerts, a wait given up, a connection lost anywhere |
| `gui_session` | `RespuestaCorresponde`, `SinConexionesOlvidadas`, `VentanaAlDia`, `UnaPeticionPorFallo`, `Reconecta`, `AlertaEnPantalla` | two petitions, good or bad, two alerts with room for one in an answer, two failures of any kind anywhere |
| `web_panel` | `EnCurso`, `PaginaCuadra`, `CumpleLaPromesa`, `TodaVisitaSeResponde`, `RanuraDevuelta` | good and bad requests and settings, changing tables with short and long records, a full operator table, cuts, restarts, Ctrl-C |
| `launcher` | `ParadaOrdenada`, `HuerfanosExplicados`, `LanzadorTermina`, `CtrlCLosParaATodos` | no, one and four nodes; up to three signals at any step |

The type invariant of a module is a conjunct of its first property where it is
not listed on its own (`registry`: about 900000 states, three minutes; the others
take seconds to two minutes).

Each property of a passing run has a mutant in `PROJECT.json`: a plausible bug
in one mapped definition (a dropped guard, an off-by-one, a missing reset) with
which TLC finds that property violated.

### Bounds, and why they are enough

* *Nodes, sessions, slots*: two nodes and two slots make every choice of a slot
  (own, free) happen, and a first registration, a second one and a fall of each;
  a session, the UDP thread and the monitor are the three kinds of thread that
  store alerts. A time limit of 1 and two ticks have a silence below, at and above
  the limit. What is said for more nodes, threads and time, for ids that are cut and
  for a node that meets a table full of others, which two nodes with two slots never
  do, is proved (section 4).
* *Datagrams*: `MaxDatagrams` bounds the UDP thread; two datagrams with SEQs 0
  to 2 have a gap, a copy, one overtaken and a first SEQ that is not 0; longer
  bursts are left to the proof.
* *Thresholds*: a table of two entries with one default is full after one more, an
  exception of the default's variable or another's; three values and NaN lie
  below, on and above the limits, and the limits themselves may be NaN.
* *Rings*: four positions, three contents, and no bound on how many are stored:
  the ring's state is finite, so every number of rounds is covered. With `IntMax`
  7 the counts 8, 16 and 17 are narrowed to -8, 0 and 1; 3 to 7 lie below and above
  what is stored.
* *Sockets*: an answer of two pieces can be cut by a push, a buffer of one or two
  pieces can be full.
* *Bytes*: lines of two bytes and eight bytes of stream hold an oversized line
  before, after and between legal ones, and an overflow on a terminator and on
  another byte.
* *Alerts of the window*: with one row per answer and two alerts, the second
  overtakes the first, as 25 do in the code.
* *Clients*: `MaxTardanzas`, `MaxFallos`, `MaxPerdidas`, `MaxCopias`,
  `MaxTardios`, `MaxReinicios` bound mishaps, not their places; the proofs about
  the two operator clients and the node hold for any number of them.
* *Pages*: one handler thread and one slot. Threads share nothing in the panel and
  meet only in the operator table, where `Admite` may refuse a session at any time,
  as other operators take slots too; and the proofs hold for any set of threads.
  Three changes of the tables put one between any two commands, restarts included.
* *Launcher*: four nodes have a first, a last and middle ones; the third signal
  comes after the stop was already broken by the second, or is the second of a
  kind.
* `CHECK_DEADLOCK FALSE` is used where the system ends: a session or a window
  that was closed, a node that was stopped, a stream that was read to its end, a
  panel or a launcher that ended.
* `SYMMETRY` is used for the connections of `sessions_push`, which are
  interchangeable and only in invariants there, and in no liveness run.

### Fairness

* The monitor is an endless loop, and a push that does not block returns: weak
  fairness of `MonitorStep` and of the monitor's own `DifundirAlerta`. Clock, nodes,
  sessions and the UDP thread owe nothing, not even their pushes.
* `FairServer`: weak fairness of a thread's own steps; *strong* fairness of
  taking `g_op_mutex`, which is free only now and then. POSIX does not promise
  it, but a default mutex wakes waiters, and starvation of one thread for ever
  by others that each take it for a moment is not a behaviour the design
  defends against. `FairReaders` adds that clients read; `sessions_stuck`
  shows what happens without it.
* `TelemetryNode`: the node's loop runs, and what is neither lost nor late for
  ever arrives; losses are bounded in number, so a node that keeps sending is
  heard. Registration retries for ever, as `registrar` does, and `NodoSeRecupera`
  supposes that a REGISTER that arrives is accepted: one that the server refuses
  every time (409 with a full table, 403 for its fields) never brings the node back.
* `OperatorClient`: the server answers and both threads run. The 15 second
  limit is *not* used: commands end without it.
* `OperatorGui`: the server's steps and the worker, which is one thread and has
  one fairness condition. The user owes nothing.
* `WebPanel`: a handler thread runs, and its waits end because every socket has a
  limit of 5 seconds (weak fairness of `Hilo`, without the unnamed exception).
  Of the server only that it accepts or refuses a connection and notices a
  closed one (weak fairness of `Admite` and `Suelta`), never that it answers. That
  leaves out a network that fails in silence, and a server whose threads are all behind
  a `send()` blocked under `g_op_mutex`, as in `sessions_stuck`: either keeps a slot.
* `NodeLauncher`: the launcher runs (`wait` has a limit once it stops; before, it
  may wait for ever), and a node that was told to end does, since its own waits
  have limits.

## 4. Proofs

TLAPS checks, for any sets of nodes, sessions and threads, any numbers of slots,
pieces and alerts, any thresholds and any clock (the bounds of the runs are
constants too):

| Theorem | Says |
|---|---|
| `NodeRegistryProofs!TypeCorrect` | `Spec => []TypeOK` |
| `NodeRegistryProofs!CaidaSiempreJustificada` | `Spec => CaidaJustificada` |
| `NodeRegistryProofs!CadaAlertaSeEmpujaUnaVez` | `Spec => []CadaAlertaUnaVez` |
| `NodeRegistryProofs!SiempreUnSlotPorNodo` | with `IdsCaben`, `Spec => []UnSlotPorNodo` |
| `NodeRegistryProofs!SiempreSegunAvisos` | with `IdsCaben`, `Spec => []EstadoSegunAvisos` |
| `NodeRegistryProofs!EstimacionAcotada` | `Spec => []PerdidosAcotan` |
| `NodeRegistryProofs!RegistroCumpleDisponibilidad` | with `IdsCaben`, `Spec => CumpleDisponibilidad`, the refinement of `NodeAvailability` |
| `WebPanelProofs!SiempreEnCurso` | `Spec => []EnCurso` |
| `WebPanelProofs!SiempreLaPaginaCuadra` | `Spec => []PaginaCuadra` |
| `WebPanelProofs!PanelCumple` | `Spec => CumpleLaPromesa`, the refinement of `PanelPromise` |
| `ClientProgramsProofs!LaParadaEsOrdenada` | `Spec => []ParadaOrdenada` |
| `ClientProgramsProofs!HuerfanosSiempreExplicados` | `Spec => []HuerfanosExplicados` |
| `OperatorSessionsProofs!LaRanuraEsDeSuSesion` | `Spec => []RanuraEsDeSuSesion` |
| `OperatorSessionsProofs!LaRespuestaEsEntera` | `Spec => []RespuestaEntera` |
| `OperatorSessionsProofs!ElAvisoLlegaATodos` | `Spec => []TodosAvisados` |
| `OperatorSessionsProofs!ElAvisoEsSoloDeSuscriptores` | `Spec => AlertaSoloAQuienLaPidio` |
| `TelemetryNodeProofs!NodoSoloSeReRegistraPor406` | `Spec => []SinRechazoNoHayRegistro` |
| `AnomalyDetectionProofs!SiempreUmbralVigente` | `Spec => []UmbralVigente` |
| `AnomalyDetectionProofs!SiempreTodoParSeGuarda` | `Spec => []TodoParSeGuarda` |
| `AnomalyDetectionProofs!SiempreAvisosJustos` | `Spec => []AvisosJustos` |
| `BuffersProofs!SiempreLineasEnteras` | `Spec => []SoloLineasEnteras` |
| `BuffersProofs!SiempreNadaSePierde` | `Spec => []SinExcesosNadaSePierde` |
| `BuffersProofs!SiempreCadaLineaSuRespuesta` | `Spec => []CadaLineaSuRespuesta` |
| `BuffersProofs!ElAnilloEsElLog` | `RingSpec => ImplementaElLog`, the refinement of `HistoryLog` |
| `ClientProgramsProofs!SuRespuesta` | `ClienteSpec => []RespuestaCorresponde` |
| `ClientProgramsProofs!TodoAvisoLlega` | `ClienteSpec => []NingunAvisoSePierde` |
| `OperatorGuiProofs!SiempreRespuestaCorresponde` | `Spec => []RespuestaCorresponde` |
| `OperatorGuiProofs!SiempreSinConexionesOlvidadas` | `Spec => []SinConexionesOlvidadas` |
| `OperatorGuiProofs!SiempreVentanaAlDia` | `Spec => []VentanaAlDia` |
| `OperatorGuiProofs!SiempreUnaPeticionPorFallo` | `Spec => []UnaPeticionPorFallo` |

Assumptions: `RegistryAssumption` (the tables have at least one entry, the
number of alerts per message is positive, `SinId` is not an id, the UDP thread
and the monitor are not sessions), `PanelAssumption` (the requests and settings are
of their types, `Tablas` has four sections per version), `LauncherAssumption`
(`--count` is an integer), `SessionsAssumption` (there is a slot, an answer has a
piece, `Nadie` is neither a thread nor a descriptor), `NodeAssumption` (the bounds
are numbers), `DetectionAssumption` (limits are integers or NaN, the defaults name a
variable once and fit in the table), `LineBufferAssumption` (a message has room for
a byte and its line feed, `recv()` gives at most a message), `RingAssumption` (the
ring has a place, the count used by default fits in an `int`), `ClientAssumption` (the
bounds are numbers, the session's HELLO among the requests) and `GuiAssumption` (the
bounds are numbers). Three theorems about identity also assume `IdsCaben`: ids fit in
`NODE_ID_LEN`, as the protocol asks and the code does not enforce. Of the server's
tables the panel needs `TablasAssumption`: within one version, what
GET_SYSTEM counts is what LIST_NODES lists. Both walk `g_nodes` under `g_mutex`
(`registry.c:690-720`, `:880-924`), and an answer that does not fit is an ERR, never
a shorter list. The refinement of the log assumes nothing of the counts asked for.

The arguments:

* *Types.* Inductive as it stands; lemmas give the type of what each operator
  builds (`GuardarTipo`, `NodoNuevoTipo`, `RecibeTipo`, ...).
* *A fall is justified.* `TypeOK` holds `monitor.ahora <= now`: the stale clock
  only makes the monitor more lenient, so a comparison that passes with it
  passes with the real time too.
* *Pushed once.* Inductive with `TypeOK`: a section stores new positions at the
  end of the log and hands them to one thread (`GuardarUnaVez`); a push moves
  one position from a thread to `entregadas` (`DifundirUnaVez`).
* *One slot.* Inductive with `TypeOK`: `EsDestino` writes the node's own slot if
  it has one, and a slot is never freed.
* *Flag and log.* `EstadoInv` adds that every alert of the log speaks of a
  registered node, without which a first REGISTER could meet an old fall.
  `Fieles` states what each section's alerts say about the slot it rewrites,
  and `AvisarConserva` that such a step keeps the agreement; each action then
  only shows it is `Fieles`.
* *Loss estimate.* `PerdidasInv` adds what a slot holds before its first
  datagram. `HuecosAcotados` is the counting argument: a datagram with a SEQ
  ahead adds as many missing numbers as the estimate grows by, one behind only
  fills holes.

* *A page under way.* `EnCurso` is inductive as it stands: `EnReposo` says what a
  thread between requests keeps, `Leido` what one in the middle of the five
  commands has read, and `UnaPendiente` that the answer on its way, if any, is that of the
  command it waits for: without it an answer could be another command's.
* *The counters of a page.* `Completos` walks a table record by record with a
  recursive function. `HayRecorrido` shows that such a function exists, by induction on
  the length, so that the definition's CHOOSE is one; `CompletosRecorre` unfolds it, and
  `CompletosListado` (induction again) says that it keeps the complete
  records, in order. From there `FilasEnOrden` and `ActivosContados` relate the rows
  and the counts of a section to its table, `PaginaInv` says which version each
  section of a page under way was read from, and `SeccionesCuadran` closes the
  argument: two sections of one version agree by `TablasAssumption`.
  Induction is by the least element of a set (`MenorDeTodos`, from
  well-foundedness): the predicate is a set, since one that is an operator
  cannot be instantiated here.
* *Availability.* `UnCandidato` and `SoloUnNodo` turn the slots into nodes: with
  one slot per node (`IdUnico`) what is seen of a node is what its slot says, and
  rewriting a slot changes the view of no other node. `RegistroContacta` and
  `TelemetriaContacta` map the two sections that hear of a node to `Contacta`, the
  array's limit included; `RevisaCae` maps the monitor's to `CaeNodo`, whose guard
  speaks of the real clock; `DifundirPublica` needs that an alert is carried by one
  thread. Everything else changes nothing there or is a tick of the clock.
* *The panel's refinement.* The steps of the server's half are stutters or `Cambia`; the
  one that counts is `Cierra`, where the page that was good at every step
  becomes the response.
* *The stop.* `Avance` adds to the two properties what each phase has already
  done: the processes behind `puesto` were asked (`avisa`) or are gone (`recoge`), a
  process is outside the list only between `Popen` and `append` or after a
  signal there, and after a Ctrl-C no process is untold.
* *The operator table.* One invariant for its four properties: `Cerrojo` says that
  who is inside a writing section holds `g_op_mutex`, so everybody else is
  outside; `FueraDeSesion` and `SuscripcionAlDia` what a connection keeps before and
  after its session and that the slot's flag is the one last asked for;
  `TrozosEnCurso` that an answer with its last piece missing is being written by
  its own session, so no push can be under way; `YaAvisados` that the slots a
  push has passed were written to, which the table, still under the mutex,
  cannot undo. That no alert reaches the heir of a descriptor follows from the
  slot being emptied before `close`: `ReceptorEsSuyo`.
* *Registering again.* `IInv` counts the 406 in the socket that were not read:
  registrations, plus those unread, plus the one a cleared `registrado` owes, never
  exceed one more than the 406 that arrived. `SeLee` and `Llega` are the two
  ways in which that count changes.
* *Thresholds.* `UnaEntrada`: one entry per destination and variable. With it the
  lookup's two orders (first exception, last global entry) make no difference.
* *A datagram's loop.* `BucleInv`: `CursoInv` gives the type of the datagram under
  way, `ParesInv` says of the pairs behind `i` that the table holds the last value
  given to their variable, or is full without it, and `CuentaInv` that the alerts so
  far are as many as the anomalous pairs behind `i` and the node's return call for, up
  to the array's size. A table may name a variable twice, and the loop writes
  the first entry of it: that there is one (`Minimo`) is why a pair finds no place only
  in a full table without its variable (`SinLugar`).
* *Framing.* `IInv`: `DatosInv` says that `data[]` is a contiguous piece of the stream,
  ends at the last byte read and begins a line unless one is thrown away; `LineasInv`
  that what was handed over lies before it, in order. The line `tsp_linebuf_next`
  takes ends at the first line feed of `data[]`, which is the least of its positions:
  `Minimo`, from well-foundedness. `UnaVezInv` and `ProblemaInv` say that the bytes
  before `data[]` are spoken of once at most, by an answer or by the 413 this push owes;
  `DichasInv` that the first byte of each line among them is spoken of; and
  `FundadasInv` that an answer hands over a whole line within R5 or has bytes of a line
  beyond R5 to show. For the last, `RecienteInv` is needed: a full `data[]` has at most
  `MaxMessage` new bytes, before which it holds no terminator, so what overflows has
  `MaxMessage` bytes in a row without one. `SinExcesosInv`
  says that while the client keeps the limit the rest of a `recv()` still fits, and that no
  answer is a 413; with the others it gives the content of each line.
* *The ring.* `LugarEs` turns the index with a remainder into a distance from `head`
  (`Atras`), `SiguienteEs` says that a write makes every entry one place older and
  overwrites only the one that leaves, and `TramoCrece` concludes that the entries from
  oldest to newest are then the earlier ones, less the oldest if the ring was full,
  and the new one. With these each store maps to a store of
  `HistoryLog` and each query to the same query; `AIntEs` says what a narrowed count
  can be, and zero stands for the count used by default (`ConstruirSinCantidad`).
* *The command line client.* The queue carries no trace of the request, so the
  invariant is about where lines are. `FlujoInv` says that while no wait was given up
  one request at most is in the air, and `EnCamino(r, a)` where its answer `r` is:
  its first lines were taken, the next are in the queue, the rest are on their way in
  one piece behind `a` alerts, all of it unless the connection was lost. A lemma per
  action says what it does to `EnCamino`. `CierreInv` is why a dead reader misleads
  nobody: until the session ends it stops only on a connection that is closed and
  drained. `AvisosInv` orders the alerts on their way behind those shown.
* *The window's worker.* `CanalInv`: one request at a time, either waiting in the
  server or answered and on its way, to the command the worker waits for; a time out closes
  the connection, which empties both. `ConexionInv` says when there is a connection
  and that it is the only one open, `ColaInv` numbers the petitions still in the
  queue, and `PerdidasInv` counts a cut as a failure whose loss is still to come:
  without that term the step that notices the cut would break the bound.

Only model-checked:

* the liveness properties (`CaidaLlegaAlOperador`, `RespuestaSale`, `DifusorVuelve`,
  `NodoSeRecupera`, `ComandoAcaba`, `Reconecta`, `AlertaEnPantalla`,
  `TodaVisitaSeResponde`, `RanuraDevuelta`, `LanzadorTermina`, `CtrlCLosParaATodos`),
  which need fairness and ENABLED, beyond the prover.

Of what a recursive definition computes only what a first-order induction over a set
gives is proved (`HastaElFinal`); the library's induction theorems take an operator,
which cannot be instantiated.

## 5. Where the code and its documentation differ

One run exhibits a disagreement (`findings` in `PROJECT.json` quotes the
sentence it contradicts): in `sessions_stuck` a push calls a blocking `send()`
with `g_op_mutex` held, on the UDP thread (`registry.c:265`).

The others were met while the modules were written. The models contain the
behaviour, and the properties are stated so as not to deny it; none of these has a
run of its own:

| Where | What the code does | What the documentation says |
|---|---|---|
| `registry.c:389` | alerts are stored in order under `g_mutex` and pushed after it (`DifundirAlerta`): the pushes of two threads swap, and a subscriber is left with NODE_OFFLINE for a node that is up | `PROTOCOLO.md:460`: if the node comes back, NODE_ONLINE is issued |
| `registry.c:454` | an id of 32 characters or more is accepted, stored cut and never found (`Recorte`, `IdsCaben`) | `PROTOCOLO.md:153`: 1-31 characters, otherwise 403 |
| `handlers.c:396` | a connection that starts with a GET_* stays without a role (`CmdConsulta`) | `PROTOCOLO.md:230`: it counts as an operator without a name |
| `protocol.c:91` | an overflow also drops the complete lines still in the buffer (`TrasDesbordar`) | `PROTOCOLO.md:73`: one unit is processed for each line feed |
| `handlers.c:262` | a count is narrowed to `int`: refused, or answered as another one (`AInt`) | `PROTOCOLO.md:280`: N saturates to the size of the buffer |
| `registry.c:568` | NODE_ONLINE is counted in the ACK (`AvisosJustos` counts it) | `PROTOCOLO.md:200`: the node knows by it whether its measurement was anomalous |
| `registry.c:635` | NODE_ONLINE takes the place of the last anomaly (`CabeAviso`) | `PROTOCOLO.md:88`: an alert may not be lost |
| `registry.c:609` | a variable that does not fit is skipped and acknowledged (`Lugar`) | `PROTOCOLO.md:409`: 409 LIMIT_REACHED |
| `registry.c:944` | NaN is accepted as a limit (`LimitesValidos`) | `PROTOCOLO.md:405`: 403 for a value that is not numeric |
| `operator_cli.py:396` | after a wait given up every later command gets the answer of an earlier one (`Tardanza`; `RespuestaCorresponde` speaks of sessions without one) | `PROTOCOLO.md:87`: an answer associated to each request |
| `operator_cli.py:135` | `cerrar` reads the socket while the reader thread does (`Cerrar`) | `operator_cli.py:140`: the only place that reads the socket |
| `telemetry_node.py:278` | a late ACK is taken for the next measurement's (`Recibir`) | `PROTOCOLO.md:201`: the node knows whether its measurement was anomalous |
| `operator_gui.py:146` | a petition in service when the connection fails is lost (`UnaPeticionPorFallo` bounds it) | `operator_gui.py:143`: it executes the commands the interface asked for |
| `operator_gui.py:171` | a round asks for the newest 25 alerts: of those stored during an interruption the older ones are never shown (`Recientes`, `Superada`) | `operator_gui.py:8`: the window shows the alerts, both the history and those that arrive live |
| `operator_gui.py:122` | an ALERT before OK\|SUBSCRIBE is dropped (`LeeAlerta`) | `tsp.py:145`: it is routed to the callback |
| `servicio_web.py:505` | a 503 to HELLO is swallowed and the page tells of a session that was cut (`Lee` at step 0) | `servicio_web.py:473`: the code and description of a TspError are shown, but HELLO has no section |
| `servicio_web.py:751` | a node table that failed still shows "Registrados: 0" (`MuestraNodos` of no records) | `servicio_web.py:751`: the counters and the table, or the error |
| `servicio_web.py:946`, `:970` | HEAD is served, and a method without a `do_` (TRACE) gets the library's 501 (`Rechaza`) | `servicio_web.py:921`: 405 for every method other than GET and HEAD |
| `servicio_web.py:483` | 5 seconds limit each address and each `recv`, not the name resolution nor the page (`SinRespuesta`) | `servicio_web.py:481`: a limit of 5 s |
| `servicio_web.py:384` | `int()` also takes `8_080` and `+80` | `servicio_web.py:379`: only integers in canonical form |
| `servicio_web.py:1075` | a port that is taken aborts the start (`Arrancar`) | `servicio_web.py:1058`: an invalid port is the only case |
| `servicio_web.py:1089` | Ctrl-C kills the daemon threads half way through their pages (`Parar`) | `servicio_web.py:1066`: it closes the server cleanly |
| `run_nodes.py:166` | a SIGTERM between `Popen` and `append`, a second one, or a failed `Popen` leave nodes running (`HuerfanosExplicados` says which) | `run_nodes.py:115`: without the handler, the nodes would be orphans |
| `operator_gui.py:97` | a ValueError of `codificar` kills the worker (`hilo = "muerto"`) | `operator_gui.py:10`: a worker thread keeps the connection |

## 6. Not modelled, and why

* `tsp_parse`, `tsp_parse_double`, `tsp_sbuf_addf` and the formatting of
  answers: pure functions of strings. What they let through (NaN, long
  counts, long ids) enters the models as inputs. That a big answer may not
  fit in `TSP_RESPONSE_MAX` depends on the printed length of doubles.
* Metadata of nodes and operators (type, place, address, name), units and
  severities of alerts, and the read-only GET_STATUS, LIST_NODES and GET_SYSTEM:
  no later behaviour depends on them.
* Failures of `malloc`, `pthread_create`, `bind`.
* The simulated sensors, the widgets, HTML, escaping and style, the command line
  of a node, the programs of earlier stages (`server_tcp.c`, `server_udp.c`, the
  test clients), building and deployment.
* Real time in the clients: waits end or do not, the pauses between
  attempts have no length. In the panel a limit is the end of one wait, so a
  server that sends a byte now and then, which holds a page for as long as it
  likes, is left out.

## 7. Plan

Done: every component of section 1 that is not left out in section 6, with its runs;
proofs of every safety property of the runs, and of the three refinements
(`NodeAvailability`, `HistoryLog`, `PanelPromise`).

Next, in this order (a composition takes over the runs of the components it
contains where it answers the same questions, so that the runs stay few):

1. `NodeRegistry` composed with `TelemetryNode`, for the hazards that need both
   (a late 406 after a re-REGISTER, a datagram that overwrites a newer value); and
   with `OperatorSessions`, the pushes of the first being those of the second.
2. An abstract specification of a reliable request/answer session, refined by
   `OperatorClient` without time outs.
3. Proofs about the modules of 1 and 2.
