# A TLA+ model of the employee-integration backend

The repository is a FastAPI application that runs on Cloudflare Workers (Python) with a D1
(SQLite) database. This directory models the parts of it that change state, checks them with
TLC and proves the main results with TLAPS. Definitions keep the names of the Python functions
where there is one, and the vocabulary of the tables otherwise. Paths below are relative to the
repository's `src/`; `update.py`, `create.py` and so on are those of `api/v1/onboarding/`.

## 1. The system

| Component | State | Operations | In |
|---|---|---|---|
| Onboarding requests (`create.py`, `update.py`, `delete.py`, `common.py`) | `SOLICITUDES`, `HISTORIAL` | create, PATCH, advance, reject, delete, delete mine | `Solicitudes` |
| Templates (`dotacion.py`, and `create.py`) | `DOTACION` | create | `Solicitudes` |
| Users' onboarding state and off-boarding (`update.py`, `auth/delete.py`) | `USUARIO.estado_onboarding`, and through `delete_user` the requests | advance user, delete user | `Solicitudes` |
| Permissions and chart (`utils/security.py`, `JERARQUIA`) | none: no endpoint writes it | the `can_...` predicates | `Jerarquia` |
| Sign-up and activation (`auth/signin.py`, `auth/utils.py`) | `USUARIO`, `ACTIVACION_USUARIO`, and the first three requests | signup, activate password | `Cuentas` |
| Workstations (`puesto_trabajo.py`) | `PUESTO_DE_TRABAJO` | assign; map and list read | `Puestos` |
| Workstation suggestion (`puesto_trabajo.py` 400-507) | the loop of the parser | parse, sort, cut | `Sugerencias` |
| Request views (`list.py`, `history.py`) | none | four lists, one history | `Vistas` |
| Performance statistics (`stats.py`) | none | clock, two SELECTs, then metrics, percentiles, timeline | `Estadisticas` |
| Login, JWT, passwords, job titles, e-mail clients, HTML form, system endpoints, worker | none | read, encode, send | not modelled |

The components meet in the database only. Sign-up creates rows that the request handlers work
on; `delete_user` runs through the requests of the user; `create_onboarding_request` adds
templates. A handler is a coroutine: it runs alone up to an `await`, and every D1 statement is
one. **There are no transactions**, so between two statements of a handler any statement of
another may run, in the same isolate or in another one, and any statement may raise (the handler
answers 500) or be the last one of an evicted worker. What the code is exposed to is therefore:

* check-then-write in two statements (duplicates, estados, seats, templates);
* a row read before an `await` and written back after it (PATCH);
* a change and its row in `HISTORIAL` in two statements, and loops of such pairs that die
  half-way (`delete_my_onboarding_requests`, `delete_user`, `signup`);
* legal calls whose sequence leads to what another endpoint forbids;
* comparisons that Python and SQLite make differently, and dates compared as text;
* reports made of two reads of a database that moves;
* a token that expires, and an instant read before the statement it is compared in, there and in
  the timeline of the statistics.

Each has an entry, at its line, under `hazards` in `PROJECT.json`. Nothing in the system waits
for anything but D1, so there is no deadlock to look for beyond what TLC checks by itself.

## 2. The modules

`Jerarquia` <- `Solicitudes` <- `SolicitudesEnSerie` <- `MCSolicitudes` (`<-`: extended by);
`SolicitudesEnSerie` instantiates `Expediente`. `Solicitudes` <- `Cronica` (the clock), which
`Estadisticas` and `Vistas` extend; `MCConsultas` puts those two and `MCSolicitudes` together, so
that what is read is read of the very tables the handlers change. `Jerarquia` is also extended by
`Cuentas` and `Puestos`. `Sugerencias` stands alone. The proofs are in modules that extend these:
`SolicitudesProofs` <- `HistorialProofs`, which `SerieProofs` extends together with
`SolicitudesEnSerie`, and `ConsultasProofs` together with `Estadisticas` and `Vistas`.

**How a call is modelled** (`Solicitudes`, `Cuentas`, `Puestos`). `Peticion` is a set of HTTP
calls, each used once. `peticion[p]` is the record of the local variables that outlive an
`await`; its field `paso` names the D1 statement the call waits for. One action is one
statement with the code up to the next. A call arrives with an action named after its handler,
which picks user, path and body, runs the checks on the rows as they are, and either is refused
(`"negada"`) or waits for its first write. Three simplifications keep this small:

* reads of what no handler writes (the chart, job titles, whether an employee exists) cost no
  step, and the reads a handler makes before its first write, which are one row's, are one step;
* the 4xx answers are one answer, as no property tells them apart;
* a text is a member of a finite set on which `strip`, `lower` and SQLite's `LOWER(TRIM())` are
  constant functions. The first two fold the accent of `MOVIL` (which stands for `MÓVIL`), the
  third does not.

`Fail` is any statement of any call raising, or the worker being evicted: the call ends, with
what it had written in place. In `Solicitudes` it keeps, as a ghost, the rows of `HISTORIAL`
(`cambios`) the dead call still owed: they will never be written, and the invariants say so.
The other ghosts are `correos` (who was mailed about what), `vistas` in `Puestos`, and in
`Cuentas` `previas` (who had been answered for a token when it was read) and `creadas`, which is
the part of `HISTORIAL` that matters there.

**Time.** `Cronica` adds a clock to `Solicitudes`: a step is a statement of a handler, which
dates the rows it inserts (`datetime('now')`), or a `Tick`. A tick is what `datetime('now')` tells
apart, so several statements share one; `TicsPorDia` of them are a day. In `Cuentas` the clock is
`time.time()`: signup reads it before the INSERT of the token and activation before the SELECT,
and ticks may fall between. The workers and D1 are taken to agree on the time, in UTC.

**What is read.** A list or a history is one SELECT, so `Vistas` has them as functions of the
tables, which its properties hold of in every state. The statistics take two SELECTs, and the
timeline looks at the clock before it awaits the first (`stats.py` 563). The three are steps of
`Estadisticas` (`TomarHora`, `SelectSolicitudes`, `SelectHistorial`), with the handlers and the clock
going on between them; the rest is computed from what they brought.

| Module | Models |
|---|---|
| `Jerarquia` | the chart and the predicates of `security.py`, translated one by one |
| `Solicitudes` | nine handlers, the properties that hold under any interleaving |
| `SolicitudesEnSerie` | the properties the handlers check before they write, which hold one call at a time, and the refinement mapping |
| `Expediente` | the abstract specification: an estado changes along a flow, and the change and its record are one step; the record is a function from numbers that only grow, as `HISTORIAL` also numbers rows that are not of an estado |
| `Cronica` | `Solicitudes` with the dates of the rows of `SOLICITUDES` and `HISTORIAL` |
| `Estadisticas` | the clock and the two SELECTs of `stats.py`, `_compute_request_metrics`, `_percentile`, the days of the timeline, the closed ones of the summary |
| `Vistas` | the four lists of requests and who may read a history |
| `Cuentas` | signup and activation, with expiry; a token stands for its row |
| `Puestos` | assignment, and the two views as functions of the table; a coordinate is its digits, so that the format and the expression that reads it are both modelled |
| `Sugerencias` | the loop of `_parse_ai_suggestions` line by line, the looser second parser, the stable sort and the cut; a line has one seat at most |
| `MC...` | values for TLC |
| `SolicitudesProofs`, `HistorialProofs`, `SerieProofs`, `ExpedienteProofs`, `CuentasProofs`, `PuestosProofs`, `SugerenciasProofs`, `ConsultasProofs` | the proofs |

A definition whose name ends in `_Something` after the name of another is a variant: the same
code with a plausible mistake. `PROJECT.json` pairs each property with a variant under which TLC
finds it violated.

## 3. The runs

Passing runs:

| Run | Bounds | Shows |
|---|---|---|
| `Concurrente` | 3 calls of any endpoint at once, 4 users, 2 requests, failures anywhere | what survives any interleaving: the estado of a request is recorded or owed (`EstadoAcreditado`), `HISTORIAL` never tells of an estado that was not (`HistorialVeraz`), what a call holds was true (`LlamadasFundadas`), if nothing failed nothing is missing (`HistorialCompleto`), the mail follows the record (`AvisoFundado`), a request becomes 'Finalizado' from a recorded 'En proceso' or by a PATCH that leaves its row (`FinalizaTrasEnProceso`), a request has its template or a row that tells of the PATCH that changed its kind (`TodaSolicitudTienePlantilla`) |
| `EnSerie` | 4 calls one at a time, no failure; PATCH may change the kind of a request | the handlers implement `Expediente` (`CumpleExpediente`; that `HISTORIAL` then ends in the estado of each request is the theorem `ActaSiempreAlDia` about `Expediente`) and keep what each of them checks; two requests of one kind are the doing of a PATCH that left its row (`DuplicadaConRastro`); `delete_user` deletes no request of a user who is 'Finalizado', nor the user (`FinalizadoIntacto`) |
| `Consultas` | 2 calls at once, no failure, 3 instants of which 2 in a day, one reading of the statistics, weak fairness | the statistics: a closed request has its date although estado and history are of two moments (`CierreFechado`), the minutes of each estado are the instants spent in it (`TiempoRepartido`), a closing date does not move (`FechaDeCierreEstable`), until midnight the timeline misses only what was created after the clock was read or has no date (`LineaCuadraConResumen`), the percentiles are in order. The lists: who may advance a request has it in a list (`QuienPuedeAvanzarLaVe`) and can read its history, and no list has a row it cannot answer (`HistorialConsultable`). And `HISTORIAL` has the estado of every request again and again (`HistorialSePoneAlDia`) |
| `Cuentas` | 3 calls, 2 addresses, 2 passwords, 3 instants, a token good for 1, failures | one user per address; an ok means everything was made, and for that user; a signup cut short leaves a prefix (`AltaPorOrden`); token and password go together; a password answered ok is the account's unless the token was being used twice (`ContrasenaAceptadaVale`); an account whose tokens expired stays locked (`CuentaPerdidaNoVuelve`) |
| `Puestos` | 3 calls at once, 3 seats at the corners of the format, failures | a seat is given twice in a race only (`SolapeSoloEnCarrera`); an ok can be seen, unless a racing call has the seat (`RespuestaALaVista`) |
| `Sugerencias` | every text of up to 6 lines out of 7, one seat a line at most | no position is made up, and one written as asked for is lost to the cut at five only (`TodaPosicionCuenta`); the best come first, each with its own reason |

Why the bounds are enough. What goes wrong here takes two calls, or three where one has to
prepare the ground for two; ids and texts are compared for equality only, and the bodies cover
each branch (equal after folding, blank, new, with and without each field of PATCH). `Sugerencias`
needs six positions to see the cut at five. In `Consultas` three instants are the fewest with a
midnight among them and two rows of one instant; two calls are enough to close, reopen and close
a request again, as one starts 'En proceso'. In `Cuentas` a token issued at 0 is good at 1 and
expired at 2, which is the boundary and both its sides.

Runs that find a promise broken:

| Run | The code |
|---|---|
| `CarreraEliminar` | `delete.py` 63-69 refuses to delete an 'En proceso' request, on the estado it read; the UPDATE (96) is unconditional, and an advance fits in between |
| `CarreraEditar` | PATCH is partial (`models/onboarding.py` 23), yet its UPDATE (`update.py` 236) writes all four columns as it read them: what another call changed meanwhile is undone |
| `CarreraAlta` | two `POST /` pass the duplicate check of `create.py` 72-86 together |
| `BajaDeUsuario` | `delete_user` marks the requests and then sets an estado the CHECK of `sql/schema.sql` 20 refuses: requests gone, user in place, 500 |
| `AvanceDeUsuario` | the endpoint goes to 'Finalizado' from any estado (a comment at `update.py` 412 says so), while `test_onboarding.py` 574-583 expects 'En proceso' after 'Pendiente' |
| `FiltroDeFechas` | the lists compare `fecha_creacion`, '2026-04-04 10:00:00', with '2026-04-04T00:00:00' as texts (`list.py` 160-166): a request of the first day of the range is left out, where `test_onboarding.py` 298-312, on a fake database, expects it |

The races of reject against the last advance, of two `POST /dotacion` and of two assignments of
a seat have the same form as `CarreraEliminar` and `CarreraAlta`; `SolapeSoloEnCarrera` says
exactly when the last one happens. Other things met on the way, without a run:

* the docstring of `delete_onboarding_request` (34-35) says the history goes too; it stays, and
  grows by an ELIMINACION row. That of `delete_user` (25) says the workstation is released; no
  code touches `PUESTO_DE_TRABAJO`;
* PATCH may set any estado and, without checking duplicates or templates, any especificaciones:
  it is the one way to two requests of a kind, or to one without a template, when calls do not
  overlap, and it leaves a row that says so, which is what `DuplicadaConRastro` and
  `TodaSolicitudTienePlantilla` state. Likewise it may finish a request that was never 'En
  proceso', as `test_onboarding.py` 477-486 does, and `FinalizaTrasEnProceso` says which trail
  that leaves; `Concurrente` has such bodies of POST and of PATCH;
* `delete_user` checks that the user is not 'Finalizado' and then marks the requests one by one.
  If `advance_user_onboarding_state` commits in between, the requests of a 'Finalizado' user are
  deleted (under the CHECK of `schema.sql` too; the user is marked only where 'Eliminada' is
  allowed): `FinalizadoIntacto` holds one call at a time, and is of the form of
  `EnProcesoNoSeElimina`;
* the list that `/sugerencia` calls complete in its prompt (`puesto_trabajo.py` 254 and 326) leaves
  out the seats without an employee and those of employees without a job title, by its INNER
  JOINs, and any seat taken while the model thinks: a suggested seat need not be free.
  `assign_workstation` looks again;
* one position written as asked for makes all those written loosely in the same text be dropped,
  as the looser parser runs only when the first finds none (449-451);
* PATCH on an 'Eliminada' request commits and then answers 500, as the response model has no
  such estado; reject takes an 'Eliminada' request to 'Rechazado';
* the default requests of a new user have no template in `DOTACION`;
* a signup that fails after inserting the user is answered 500, its retry 409, and no endpoint
  issues a token for a user who exists; nor does any for one whose token expired;
* a request addressed to an area written with an accented capital, where the chart has none, can be
  advanced (Python folds it) by people whose list of assigned requests does not show it (SQLite
  does not): `QuienPuedeAvanzarLaVe` excludes exactly that. `sql/estructura_organizacional.sql`
  206, 223 and 240 write 'Creación' in `HISTORIAL`, which `stats.py` 227 does not take for the
  opening row;
* a request reopened by PATCH keeps its first closing date, and one created 'Finalizado' has none
  and no minutes: `FechaDeCierreEstable`, `CierreFechado` and `TiempoRepartido` say how far the
  figures go all the same. The timeline takes requests by the day they were created and counts
  them on the day they closed;
* the looser parser of suggestions takes the first score and reason within 100 characters on
  *either* side of a seat, which may be the neighbour's. `Sugerencias` has that as a choice of the
  window (all lines taken to have one length), and claims nothing about whose score it is;
* `sql/schema.sql` 21 says `FOREIGN KEYS`, which SQLite does not parse. The model takes it as
  the foreign key it means to be. `EnSerie` uses a CHECK that has 'Eliminada' as well, or
  `delete_user` would never finish and `BajaArrastraSolicitudes` would say nothing; the other
  runs of `MCSolicitudes` use the CHECK as written. `Consultas` too has 'Eliminada' in it, for
  the readers meet users who are gone.

**Fairness.** Only `Consultas` has any: `WF` of `Continue(p)` for each call, which says that a
handler whose statement D1 answers goes on, as the event loop resumes a coroutine whose awaited
promise has settled. No call is forced to arrive, no statistics to be asked for, no clock to run,
and nothing is said of calls that fail.

Deadlock is checked everywhere; `Terminated` (`Answered`) is the end of a behaviour in which
every call has been answered.

## 4. The proofs

All are checked by `tlapm` with no assumption beyond the named ASSUMEs about constants, which
TLC evaluates on every run, and the hypotheses a theorem states: `DeUnaEnUna` and `~ConFallos` are
the conditions of the run `EnSerie`, `CargosConNombre` says that no job title of the chart has a
blank name or area, which the seeds keep and no endpoint can change (the run `Consultas` has such a
chart). The ASSUMEs say of `strip`, `lower` and SQLite's `LOWER(TRIM())` what the proofs of `Vistas`
need and no more: to strip twice is to strip once, only the empty text is lowered to it, and texts
that SQLite folds together Python does too (`VistasAssumption`).

Every property of a passing run is stated by a theorem, but for the liveness named at the end of
this section. For each promise that a run finds broken, but for `UsuarioAvanzaPorPasos`, there are
theorems that say under which conditions it holds, or how far it fails:

| Promise | Kept | In any interleaving |
|---|---|---|
| `EnProcesoNoSeElimina` | one call at a time (`EnProcesoNuncaSeElimina`) | the request deleted was read in another estado, and the trail says both (`EliminadaSiempreConRastro`) |
| `EdicionParcial` | one call at a time (`EdicionSiempreParcial`) | |
| `SinDuplicadas` | one call at a time, and no PATCH of the especificaciones (`UnaDeCadaTipo`); with such a PATCH, its row gives it away (`DuplicadaSiempreConRastro`) | |
| `BajaSeCompleta` | with 'Eliminada' in the CHECK and no failure (`BajaConEsquemaSeCompleta`) | the same theorem: overlaps do no harm |
| `FiltroPorFecha` | but for the days a range starts and ends on (`FiltroSoloYerraEnLosBordes`) | the same theorem |

* `SolicitudesProofs!TypeCorrect`: the type invariant, whose part `Coherente` says that what a
  call holds fits the statement it waits for. Arrivals, continuations and `Fail` are lemmas.
* `HistorialProofs`: `EstadoSiempreAcreditado`, `HistorialSiempreVeraz`,
  `LlamadasSiempreFundadas`, `AvisoSiempreFundado`, `HistorialSiempreCompleto`, for any number of
  calls, users, requests and texts, failures included. The inductive invariant is
  `Inductiva == TypeOK /\ EstadoAcreditado /\ HistorialVeraz /\ LlamadasFundadas /\ AvisoFundado`.
  `HistorialVeraz` is not inductive alone: a row written now has the estado_antiguo a call read
  several statements ago. `LlamadasFundadas` is that missing link: whatever a call still holds
  is vouched for by a row written or owed. It stays true because rows are never
  removed (`FundadaMonotona`), and so does the debt of a call that failed. The argument has one
  lemma for the effect of each statement on the set of rows (`EfectoEnHistorial`,
  `NadaSePierde`), one for arrivals and one for continuations, with a step per action.
* Also in `HistorialProofs`, for any interleaving with failures: `PlantillaSiempre` and
  `FinalizaSiempreTrasEnProceso`. `Plantadas` adds to the property that a call about to insert has
  its template and that what PATCH read had one, which holds because templates and rows are never
  removed (`PlantadaMonotona`); it assumes that each request of the start has its template.
  `LlamadasEnOrden`, on top of `Inductiva`, says that whatever a call but PATCH still has to
  write goes to 'Finalizado' only from an estado 'En proceso' that is on record
  (`OrdenSeConserva`). Of PATCH, which may send any estado, what it read is vouched for by
  `LlamadasFundadas` and what it changes is owed (`EdicionConsta`, `EdicionDebeFilas`). The second
  assumes nothing about the bodies or the rows of the start.
* `SerieProofs`: the promises each handler checks before it writes, under
  `DeUnaEnUna == IsFiniteSet(Peticion) /\ MaxSimultaneas \in {0, 1}`: `PlantillaSiempreUnica`,
  `EdicionSiempreParcial`, `DuplicadaSiempreConRastro`, `EnProcesoNuncaSeElimina`,
  `BajaSiempreArrastra`, `FinalizadoSiempreIntacto`. `Sola` (never two calls in flight) gives `NingunaOtra`: nobody else holds
  anything after a step of a call. The rest is one invariant on what the call holds for each
  promise: `Buscadas` (the template it will insert is not there), `Frescas` (the row PATCH read is
  still the row, and the request POST will insert is of a kind nobody has), `Tareas` (what is left
  to mark covers all that the user still has), `Suyas` and `Vigiladas` (what `delete_user` has still to
  mark are requests of its user, who is not 'Finalizado'). A statement may fail at any point (`ConFallos` is
  free), which the run does not have: for these six the theorem says more than the run.
  `UnaDeCadaTipo` rests on `Frescas` too, and on `ConservanTipo` (what a PATCH is about to write has
  the especificaciones the row has). `BajaConEsquemaSeCompleta` needs neither `Sola` nor an
  invariant of its own: the UPDATE is of the user the call holds, and the CHECK lets it through.
* Also in `SerieProofs`, for any interleaving with failures: `FilasSiempreDelFlujo` and
  `EliminadaSiempreConRastro`. A check on what was read long ago still says something of the row
  that is written: a handler takes the old estado of the row from the same reading it checked
  (`Decidida`, `RestoQueQueda`). `DelFlujo` keeps this for what a call has still to write
  (`Reglada`), for the row PATCH is on its way to write (`FilaDecidida`) and for the rows owed and
  written; with `Inductiva`, which vouches that the old estado was one the request had, a deletion
  that lost the race is told apart in `HISTORIAL` by its old estado.
* `SerieProofs!ExpedienteSeCumple`, the refinement of `Expediente`, one call at a time and none
  failing. `Diligentes` says that a call owes rows only between its UPDATE and their INSERT, and
  that what it is about to write is a change the handlers have a rule for, from the estado the
  request still has (`Frescas`). Then an UPDATE of an estado is `Pasar`, because it adds to
  `Debidos` the row that will tell of it; the INSERT of that row moves it from `Debidos` to
  `historial`, which leaves their concatenation as it was; POST is `Abrir`; every other statement
  touches neither the estados nor the rows about them. `HistorialSiempreLoCuenta` then reads the two
  theorems of `ExpedienteProofs` through the refinement mapping (the module is instantiated with it):
  when no row is owed the last row of `HISTORIAL` about a request has its estado, and each row
  starts from the estado the one before it ended in. `HISTORIAL` alone tells the story.
* `ExpedienteProofs`: in the abstract specification the last entry about a request has its estado
  (`ActaSiempreAlDia`) and the entries about it are a chain (`ActaSiempreEncadenada`).
* `CuentasProofs`: every property of `Cuentas`. `Formados` is `TypeOK` with what a call holds
  fitting the statement it waits for, and gives `CorreoUnico`; on it rest an invariant that ties
  tokens, passwords and the calls between the two UPDATEs, one on the order of the default
  requests, which gives `AltaPorOrden`, and one on what a signup has made so far, which gives
  `AltaCompleta`. `CuentaPerdidaParaSiempre` is a step property on `Formados`: a lost account has
  no call about it past the check of the expiry, and a new one reads the clock too late.
* `PuestosProofs`: `SolapeSoloSiHuboCarrera`, by the invariant `LecturaVigente` (a seat a call has
  read as free is in none of the rows it saw); `EnSerieSinSolape`: one call at a time, no seat is
  given twice; `PuestosBienFormados`, the type invariant; and
  `RespuestaSiempreALaVista`, from `Contestadas` (the row a call was answered for is still in the
  table as the call wrote it) and `Visibles` (the last row of a seat is on the map, `UnaEscritura`:
  two rows that read as one seat have the same coordinates, so the format and the expression that
  reads it are inverse on the grid), together with `SolapeSoloEnCarrera`, which says whose row hides
  another.
* `SugerenciasProofs`: `LoGuardadoEsLoLeido` is the invariant of the loop of the parser, for any
  text: the positions kept and the open one are those of the lines with a seat, in order
  (`ListaDe`), each with the score of its line and the last reason before the next seat
  (`SuRazon`). `TodaPosicionCuenta`, `MejoresPrimero` and `RazonPropia` follow from it and from what
  the sort does: `UnoPorRango` (in a finite set ordered in one line every rank is of one element,
  by counting) makes the sort a permutation (`OrdenadasReordena`) that puts first what scores more
  and, of equals, what came before.
* `ConsultasProofs`, with the handlers going on between the two reads, for any number of calls,
  failures included:
  - `EstadisticasTypeCorrect`, by `Fondo == TypeOK /\ Fechada /\ Leida`: a row of `HISTORIAL` is no
    older than its request, and what a report has read is no younger than the report.
    `LineaSiempreCuadra` and `PercentilesSiempreEnOrden` follow from `Fondo` alone, in which the
    instant the timeline took is no later than the one it was answered at; the second rests
    on the ranks of a finite set of numbers (`OrdenadoDa`, `OrdenadoCrece`) and on the interpolation
    between neighbouring ranks (`PercentilDa`).
  - `FechaDeCierreSiempreEstable`: the closings of a request are a set of rows of `HISTORIAL`, which
    only grows, and at its end (`CierresSonDeHistorial`); its least element stays.
  - `CierreSiempreFechado`, by `Inductiva` of `HistorialProofs` with two more parts. `Respaldada`:
    an estado the report counted stays recorded or owed until the report reads `HISTORIAL`;
    `Distinguida`: the rows of one request that open it agree, and what says ELIMINACION says
    'Eliminada', so that the row which accounts for a closed estado is a change or the opening.
  - `FechasSiempreEnOrden`: rows of `HISTORIAL` are dated in the order they are inserted in, so the
    `continue` of `stats.py` 246-247 is never taken. On it and on `SoloEstados` (openings and changes
    say one of the four estados) rests `TiempoSiempreRepartido`. Its sum of the lengths of stretches
    is the number of pairs of a stretch and a minute in it, so that no induction over the history is
    needed: the stretches are half-open intervals in the order of their rows, a minute is in exactly
    the one of the last row not younger than it (`Ultima`), and the pairs and the instants correspond
    one to one (`MinutosPorInstante`).
  - `FiltroSoloYerraEnLosBordes`: the text of a date and the text of a bound are compared as the code
    does, where `' '` comes before `'T'`; they differ from the dates only when the days are equal.
  - `QuienPuedeAvanzarSiempreLaVe` and `HistorialSiempreConsultable`, for any chart: `can_...` of
    `security.py` and the WHERE of each list are compared branch by branch.

Only model-checked: the liveness of `Consultas`, `HistorialSePoneAlDia`, which is beyond the prover
(fairness, ENABLED). The properties of the runs that find a promise broken are false as they stand;
`UsuarioAvanzaPorPasos` has no counterpart, as the handler does the opposite in every case. What has
a theorem is also checked by TLC on the bounds of section 3, the inductive parts through the
properties they give; the counterparts of the broken promises, `FilasSiempreDelFlujo`,
`HistorialSiempreLoCuenta` and `FechasSiempreEnOrden` held on the instances of `Concurrente`,
`EnSerie` and `Consultas` before they were proved.

## 5. Not modelled

Login and `/me`, which read one row; `cargos.py` and the two lists of the employees of a team
(`list.py` 185-299); the order in which lists and histories come; of the statistics, the means, the
grouping by recipient and by specification, and the choice of the slowest ones; the parsing of
dates in parameters (and the error of comparing one with a time zone to one without); the
cryptography of tokens and passwords; the text of e-mails; of the suggestion, its SELECT (that of the
list of occupied seats), the prompt, its counts and the call of the model, none of which changes state,
and answers with more than one seat on a line;
`fecha_fin` as a date (it is a value); `auth_activation.py` and `mailjet.py`, which nothing routes
to or calls; HTML, CORS and start-up. The seed rows are data. Vendored packages
(`python_modules`, by far the most lines of the repository) are taken to do what they document.

## 6. Plan

Done, in this order: `Jerarquia`, `Solicitudes`, `Expediente` and `SolicitudesEnSerie`, their
first proofs, `Cuentas`, `Puestos` with its proofs, `Sugerencias`; then the clock (`Cronica`, and in
`Cuentas`), `Estadisticas`, `Vistas`, and the proofs of `Cuentas`,
`SerieProofs` and `ExpedienteProofs`; then the refinement of `Expediente`, step by step, with the
record restated as a function so that it needs no induction, `RespuestaSiempreALaVista`,
`SugerenciasProofs` and `ConsultasProofs`; last, the statistics restated so that
`TiempoSiempreRepartido` needs no induction, what is left of the broken promises, and the record of
the handlers carried from `Expediente` to `HISTORIAL`.

Left: signup composed with the request handlers (the default requests under `delete_user`), and
what an interleaved PATCH may undo, said as a property of the trail.
