# A verification of the lobby server

The repository is the server of a platform on which players of three games open
lobbies and book a place in the lobbies of others. Clients talk to it over a
websocket (and one POST route); it keeps everything in a MariaDB database and
asks a Python server for game statistics and for graphs. This directory holds a
TLA+ model of it, the configurations TLC checks and the proofs TLAPS checks.

## 1. The system

| Component | Source (`src/Project1/` unless said) | State it keeps | Operations |
|---|---|---|---|
| Database `apl` | `src/ConfigdB.sql` and the SQL text in the handlers | tables `Utenti`, `Giochi`, `Account_Game`, `Lobby`, `Prenotazioni`, their UNIQUE and foreign keys, `AUTO_INCREMENT` | the statements the handlers send |
| `DatabaseConfig` (`dbManager`, one object) | `DatabaseConfig.cpp` | the pointers `con` and `stmt`; behind `con`, the session: autocommit, transaction, `LAST_INSERT_ID()` | `dbQuery`, `Commit`, `RollBack`, `ClearConnection` |
| Handlers `HM*` | `HM*.cpp`, one class for each message | local variables only | `Gestisci` |
| `main` | `Origine.cpp` | the map from message to handler; Crow's worker threads | dispatch of a message, `POST /registrazione` |
| `MyLibCurl` | `MyLibCurl.cpp` | none of its own; libcurl's count of initialisations | `gamesreturnValue`, `SendPythonRequest`, `replaceSpaces` |
| Client, Python server, MariaDB | not in `src/` | | external |
| MariaDB Connector/C++ | `mariadb-connector-cpp-master/` (vendored) | connection, statement, `Results`, result sets; prepared statements, metadata, pools | what the handlers call, and below it the results of a statement, the cursor of a result set and the reading of a query's text |

**Interactions.** A worker takes a message, looks its handler up and runs it to
the end on its own thread. The handler calls `dbManager`, which opens a connection
when `con` is null and creates a statement when `stmt` is null; it is the handler
that gives both back with `ClearConnection`. Nearly every handler catches
`SQLException` *without* giving them back. The pointers are therefore the hidden
channel between one message and the next, and, since nothing locks them, between
one worker and another.

**What is hard here.**

* An exception leaves `con` and `stmt` behind. What does the next handler, of any
  kind, do with a session it did not open?
* `Commit()` has two meanings: with `con` null it opens a transaction, otherwise it
  commits. `HMInserisciLobby` relies on the first meaning at its first call and on
  the second at its last.
* `RollBack()` deletes `con` but not `stmt`; it may throw, inside a catch block.
* A lost link is never noticed: `con` stays non-null. A commit whose answer is lost
  may have happened.
* Several messages of a handler's logic are a check followed by an act in another
  session (`Stats`), or several reads without a transaction (`HMVisualizzaLobby`).
* A result set belongs to whoever was given it last, by raw pointers; its rows are
  fetched lazily; a query may have several outcomes, read one by one from a connection
  that statements share.
* libcurl is shared too: it counts its initialisations, and one of the two functions
  that use it gives back an initialisation it did not make.
* Workers share all of this. Crow's `multithreaded()` starts as many workers as the
  hardware has threads less one, so a machine with at most two has exactly one.

**What makes each part correct.** The schema's constraints hold of whatever is
committed and of whatever a session sees; what a handler confirms is in the committed
database; a lobby opened in a transaction appears with its creator's reservation;
a session that withholds writes does not outlive its handler; the three lists do not
contradict each other, though they are read at three moments; a nickname or an e-mail
is confirmed to one user only, though it is checked in one session and inserted in
another; each handler that does not wait for Python ends; the committed tables change
only by the steps a client is promised. Below: no object is used after its deletion,
lost or deleted twice; a query returns its own result set; a read returns the row
under the cursor; libcurl is freed under nobody's request. `PROJECT.json` lists
each hazard with its line and the properties aimed at it.

## 2. The modules

| Module | Contents |
|---|---|
| `AplDb` | The schema as a record of functions, the constraints (`Integrita`), the queries as operators on a database, the statements as `[ok, dopo]`: whether a constraint refuses it, and the database it leaves. |
| `LobbyServer` | The server: variables, one definition for each method of `DatabaseConfig` and for each handler, the environment (lost link, restart), the properties. |
| `ServizioLobby` | Abstract specification: the committed tables and the steps that change them. `LobbyServer` implements it (`MantieneServizio`). |
| `MCLobbyServer` | Users, accounts and initial databases for TLC. |
| `Crow` | The worker threads, a finite set; extended by the next three. |
| `Puntatori` | `DatabaseConfig` one pointer access at a time, several workers: the `Connection` and `Statement` objects and the connection's mutex. |
| `CurlGlobale` | The two functions of `MyLibCurl`, one libcurl call at a time, several workers. |
| `Processo` | Composition: workers that execute the handlers' instructions, their result sets, and `CurlGlobale` inside them. |
| `Risultati` | The connector: the outcomes of the queries of two statements of one connection, and who owns each result set. |
| `Scorrimento` | Abstract specification: a scrollable result set. |
| `Cursore` | The connector: `SelectResultSetCapi`, a lazy cursor over the C library's rows. It implements `Scorrimento` (`Implementa`). |
| `Segnaposto` | The connector: the three functions that read the text of a query, beside a reference reading. |
| `LobbyServerProofs` | Typing and integrity for any number of workers; what any number of workers promise when none opens a transaction. |
| `SoloProofs` | The inductive invariants of a server with one worker, and two properties from them. |
| `PassiProofs` | Three action properties of `LobbyServer`, and that it implements `ServizioLobby`. |
| `PuntatoriProofs`, `CursoreProofs`, `RisultatiProofs`, `SegnapostoProofs` | The proofs about the module each is named after. |
| `ProcessoProofs` | `CurlGlobale` inside `Processo`, and the result sets of the handlers. |

`LobbyServer`, `Puntatori` and `Processo` are three views of the same threads.
`LobbyServer` has the data and what every call does to it, and takes a call as one step;
`Puntatori` opens the calls and leaves the data out; `Processo` leaves out both and keeps
the instructions between the calls.

### `LobbyServer`: state

| Variable | Code |
|---|---|
| `db` | what MariaDB has committed |
| `work` | what the open session sees; differs from `db` only inside a transaction |
| `nextId` | the `AUTO_INCREMENT` of `Lobby`, never taken back |
| `con` | `DatabaseConfig::con`: `"nullo"`, `"aperta"`, or `"persa"` when the object is there and its link is gone |
| `stmt` | `DatabaseConfig::stmt`: `"nullo"`, `"aperto"`, `"orfano"` (its connection was deleted), `"chiuso"` (the connector closed it after an error on a dead link) |
| `autoCommit`, `inTx`, `lastId` | the session: its autocommit, the transaction flag of the last answer, `LAST_INSERT_ID()` |
| `pc`, `req`, `loc`, `risposta` | for each worker: next call, message, local variables, what was sent back |
| `guasti` | failures so far (bookkeeping for the bound) |

### `LobbyServer`: actions

A step is one call a handler makes. The source lines between two calls touch only
local variables, so with one worker this is exactly the interleaving there is; with
more it is the mildest of those the code allows, and what goes wrong there goes wrong
in the code.

* `Ricevi` is the dispatch. It starts the handler at its first call (`Primo`).
* `dbQuery` is a disjunction of everything `DatabaseConfig::dbQuery` can come to:
  `ConnessioneFallita` (connect or setSchema throws: in the second case `con` is
  already set), `StatementInutile` (`if (!stmt)` keeps a statement that cannot
  execute), `LinkGiaPerso`, `CadutaInQuery` (the link falls under the statement,
  executed or not), `Rifiutata` (a constraint), `Eseguita`. All but the last end in
  `Eccezione`, which goes where the `catch` of that handler goes (`Gestore`).
* `LeggiRiga` adds the exception of `getInt` on an empty result.
* `Commit`, `RollBack`, `ClearConnection`, `ClearStatement` (= `ClearConnection(1)`).
* `HMxxx(w)` is a handler, one disjunct for each call, with the label it is made at.
* `Invia` is `conn.send_binary` or the return of the route; `RispostaPython` the end
  of an HTTP request, and the decision what a Stats handler does next.
* `LinkCade`: MariaDB closes an idle session or the link breaks. `Riavvio`: the
  process stops at any point and starts again. Both, and the failures inside
  `dbQuery`, `Commit` and `RollBack`, count towards `MaxGuasti`.

**Abstractions.** Users never disappear and `Username` is unique, so a user is its
username and an account the pair of user and game (accounts are never changed
either). Lobbies are deleted, so they keep their ids. Passwords become a Boolean,
notes, names, dates and the text of answers are dropped; an answer is `"conferma"`,
`"rifiuta"` or `"riporta"` (a text of the Python server passed on). Clients send
messages a client can send: users that exist, lobby ids already given, accounts
that exist. The handlers mix `giochi` and `Giochi` in their queries; the model is
of a MariaDB that ignores the case of table names, as on the Windows hosts the
project builds for. A message that does not parse or names no handler changes
nothing and is left out, as is a `grafico` whose `tipologia` is none of the three.

### `Puntatori`

`con` and `stmt` are 0 or the number of an object; `conVive`, `stmtVivi` are the objects
not deleted, `padrone` the connection of each statement, `lucchetto` who holds the mutex
a connection shares with its statements, `risultato` whose result set waits in
`Statement::results`. For each worker: the function it is in (`metodo`), the access it
makes next (`passo`, named after the source text), the objects a member function of
which it is inside (`usaCon`, `usaStmt`), what the call gave (`esito`).

A member function of the connector is three steps: it begins (`EntraCon`, `EntraStmt`),
takes the mutex, ends or throws. `commit`, `rollback` and `setAutoCommit` may end at
their first step, when there is no transaction or the value is already the one asked for;
`setSchema` and `createStatement` may throw there, when another worker is closing the
connection. `checkConnection` also has a branch that connects again: it asks for a proxy,
which the connection of this program never has (`ConnectProtocol.cpp:70`), and is left
out. `executeQuery` leaves the mutex before
`releaseResultSet`; after an error of the link it closes the statement, under the mutex
again. A call on a null or deleted object, and a delete of an object somebody is inside,
is undefined behaviour: `abuso`, where the exploration ends. It also ends when an object
is left that no pointer leads to (`perso`).

### `CurlGlobale` and `Processo`

`contatore` is libcurl's count, `maniglie` the workers with an easy handle, `rovinata`
that libcurl was freed under one of them (the exploration ends there). A handler in
`Processo` is the list of its calls (`Programma`); `res` counts the result sets it has
been given and not deleted; `Catch` is its catch block. A call of `DatabaseConfig`
returns or throws, as its own module has it.

### `Risultati`, `Cursore`, `Segnaposto`

* `Risultati`: `results[s]` is the `Results` of a statement with its `CmdInformation`
  (`cmd`, `counts`, `moreResultsIdx`), its queue and its current result set; `pendenti`
  what the connection has not read; `presi` the result sets in the client's hands. The
  actions are the calls of the client. `attesa` is the history the properties compare
  them with. Calling `getMoreResults` after a failed `execute` dereferences a null
  pointer (`crollo`, where the exploration ends).
* `Cursore`: variables and actions have the names of the class. `nativa` is the C
  library's own cursor, `riga` the row the `RowProtocol` shows. 32-bit addition is
  `Intero`, with `MaxIntero` for 2^31 - 1. A read fails on a row or a column that is not
  there. After `close()` the rows a connector-built set held in `data` have no columns and
  a read indexes them all the same: undefined behaviour (`indefinito`), where the
  exploration ends.
* `Segnaposto`: a step is one more character, read by `parameterParts`,
  `canAggregateSemiColon`, `rewritableParts` and by a reference reading of strings,
  quoted names and comments (`server`); so what a function would return is known for
  every text, of any length. A character is one of those the code tells apart (operators,
  and bytes such as `$` below 40, among them); a word that it looks for is one step, in the
  forms the code tells apart: `SELECT*`, `VALUES/`, `VALUES$`, `LAST_INSERT_ID (`. The pieces
  of the text are only empty or not. Words made of the letters S, V and L only, and bytes
  above 127 beside `SELECT`, are left out.

## 3. What TLC checks

| Run | Instance | Properties | States, time |
|---|---|---|---|
| `lobby` | 1 worker, 2 users, 1 game, 2 lobby ids, 2 failures; insert, book, accept, delete | `TypeOK`, `Integrity`, `ConfermaVera`, `TransazioneSoloInInserisci`, `LobbyAtomica`, `IncaglioHaCausa`, `AccettatoResta`, `MantieneServizio` | 350 000, 1 min |
| `insieme` | 2 workers, 2 users, 1 game, 2 nicknames, 1 lobby id, 1 failure, no `inserisci_lobby`; registration, `csstats`, the lists, book, accept, delete | `Integrity`, `ContiConfermati`, `ListeSeparate`, `MantieneServizio` | 290 000, 1.5 min |
| `viste` | 1 worker, 2 users, 2 games, 1 lobby id, 1 failure, fairness; the queries and the other Stats handlers beside `inserisci_lobby` | `ConfermaVera`, `GestioneTermina`, `LoginRisposto` | 39 000, 1 min |
| `puntatori` | 2 workers, 4 connections and 4 statements at once, fairness; every call in any order | `AbusoSoloInsieme`, `PersoSoloInsieme`, `RisultatoProprio`, `ChiamataTorna` | 106 000, 1 min |
| `processo` | 2 workers, every message, 1 refused handle, fairness | `ContatoreLimitato`, `RovinaSoloAccodata`, `ResPersi`, `Termina` | 85 000, 0.5 min |
| `risultati` | 2 statements, queries of up to 3 outcomes on one of them, 3 result sets, 1 of them with the client | `CamminoFedele`, `UnSoloPosto`, `RispostaFedele` | 390 000, 1.5 min |
| `cursore` | up to 3 rows, integers up to 4 | `CursoreTypeOK`, `Sincrono`, `RelativoEquivale`, `UnaSolaPosizione`, `Implementa` | 450, at once |
| `segnaposto` | texts of any length, 2 parameters, 2 nested parentheses, both backslash modes | `SegnTypeOK`, `ParametriTrovati`, `PuntoEVirgolaSepara`, `RiscrittiContati`, `RiscrivibileUnGruppo`, `RipetibileSeparata` | 185 000, 1.5 min |

**What the runs show.**

* `lobby` and `viste`: with one worker, a confirmation is true and an `inserisci_lobby` in
  a session `Commit()` opened is atomic, whatever exceptions, lost links and restarts left
  behind.
* `insieme`: two workers on one connection, as long as none opens a transaction. Both
  hazards of reading first and acting later are there. A nickname counted as unused may be
  taken before it is inserted, and an e-mail registered twice: the constraints of the
  tables decide, and `ContiConfermati` says that the answers agree with what they
  decided. The three lists may be of three moments: `ListeSeparate` says that the
  user's own lobbies are in no other list, and that no lobby is both joined and open
  unless the user is being removed from it; with `elimina_utente` in between it *is*
  shown in both lists, so the run leaves that message out and the property says so.
  With `inserisci_lobby` even a confirmed registration can be lost (`due_worker`).
* `puntatori`: nothing goes wrong with the objects *unless* two workers have been inside
  `DatabaseConfig` at once (the variable `insieme`), whatever handlers interleave whole calls and
  whatever exceptions leave behind. That two inside at once do break it is reached by the
  model and is a defect of the code; the three properties are about everything else, and
  say that it is the only cause. One mutex around the four functions would do. And no
  path locks up: each call returns, though `executeInternal` unlocks by hand on every exit.
* `processo`: `SendPythonRequest` alone may run on any number of workers.
  `gamesreturnValue` may get libcurl freed under another request only after one of them
  found it initialised already. Three handlers lose a fixed number of result sets
  on the good path (`Sovrascritti`); an exception adds at most one.
* `risultati`: as long as a statement asks only for its own outcomes, its calls walk
  through them one by one, and `getMoreResults` answers right. Asking through
  another statement takes the connection's outcomes from it (`"perso"`), and there only
  `UnSoloPosto` still says something.
* `cursore`: the lazy cursor is a scrollable result set. The one exception is a
  `relative` whose sum overflows an `int32_t`: `Scorrimento` allows it to land at
  the wrong end.
* `segnaposto`: the functions agree with the reference reading in the texts each
  property states; outside of them they do not, and this is where:
  * Comments (`Ambiguo`). `a--b`, `/*/`, `*/` followed by `*` or `/`, and `//`, which only
    `parameterParts` takes for one, are read otherwise by one function or all; texts with
    these are not written by the model's client. Executable comments (`/*! ... */`), which
    MariaDB reads and the functions skip, are not in the alphabet either.
  * `VALUES` (`server.valori`). `rewritableParts` recognises it after a blank, `(`, `)`, a
    quote, or a byte below 40. In ``INSERT INTO t/*c*/VALUES (?,?)``, ``INSERT INTO `t`VALUES (?,?)``,
    `... VALUES/*c*/(?,?)` and after an operator it does not, and counts one parameter less,
    as in a query without `VALUES`. There `RiscrittiContati` says only that it never counts
    one that is not there, and `RiscrivibileUnGruppo` nothing.
  * A query to be repeated by its values (`Nascosto`). Of what makes a query unfit for
    that, `rewritableParts` does not see: a second query that begins with the first `VALUES` of the
    text (`INSERT INTO t SET a=1; VALUES (?)`; its letters pass through no default branch); a
    `SELECT` beside a comment or a quote
    (`INSERT INTO t VALUES ((/*c*/SELECT 1),?)`) or before `*`; `LAST_INSERT_ID (` with a
    blank; a first word that is not `INSERT` but whose first letter other than S, V and L is I
    (`IF`, `SIGNAL`), or a first word `VALUES`. A query with one of these may stay
    rewritable.
    `RiscrivibileUnGruppo` is about all the rest: other second queries, other first words,
    `SELECT` and `LAST_INSERT_ID(` as they are usually written, and parameters after the
    group.
  * A query to be repeated after a semicolon. `rewritableParts` keeps its flag after a
    comment with `#`. `parameterParts` sets its own again at the end of any comment line,
    also after a semicolon: after `x; # c` and a new line the flag is true
    (`ClientPrepareResult.cpp:109`). `RipetibileSeparata` leaves these two out and no
    others.

`MantieneServizio` and `Implementa` are refinements, checked as the specification of
the abstract module under the substitution of the `INSTANCE`. `ServizioLobby` allows an
owner to enter a lobby after it was opened: without it, the atomicity that an
exception in an earlier handler breaks (`errore_annulla`) would have to hold.

**Why these bounds.** Two users are a creator and a guest, and are what two equal
e-mails or nicknames take. Two lobby ids let a lobby be deleted and another one be
created, an id be lost with its transaction, and ids run out; one is enough for a list.
Two failures let one
failure meet what another left behind (a restart after a commit of unknown outcome, a
rollback on a lost link); the exceptions that need no failure, which are the
interesting ones, are unbounded. Two games are what it takes for a lobby to be seen in one
game while its guest has an account in the other; the three Stats handlers are divided
between `insieme` and `viste`. `insieme` starts from a lobby of Anna's and an account of
Bruno's, or from a Bruno who is not registered and two users without an account, the cases
in which two messages compete (`DbContesa`); the workers are alike (`Simmetria`).

Two workers are what every race between calls takes. Of `Puntatori`, four connections
and four statements (`MaxCon`, `MaxStmt`) are as many as two workers and two pointers
ever lead to (six of each give the same states), so the bound never stops a call.
`MaxFalliti`: one refused handle leaves one initialisation behind; more add the same. `MaxEsiti` 3 is the `CALL` of the connector's
own tests: a first outcome, one that is neither first nor last, a last one; `Multi` keeps
long queries to one of the two statements, `Rs` and `MaxPresi` the result sets alive.
`MaxRighe` 3 has a row that is neither first nor last; `MaxIntero` 4 makes jumps overflow
from every position. `MaxParametri` 2 has a parameter after the one that ends the first
piece; `MaxParentesi` 2 a call inside the group of values.

**Fairness.** `Fairness` is weak fairness of `Lavora(w)`: a handler at a database
call or at a reply is plain sequential code on an operating-system thread and goes
on. There is none for `RispostaPython`, because `MyLibCurl` sets no timeout and a
Python server that hangs holds its worker; `GestioneTermina` therefore leaves the
Stats handlers and `grafico` out. There is none for clients, failures or restarts.
`Puntatori` has weak fairness of each thread, and strong fairness of taking the mutex,
which is released again and again: the system's mutexes do not keep a waiting thread out
for ever. `Processo` has weak fairness of each thread and none for the Python server.

**Four disagreements** with what the comments say; each has a run that must find its
property violated, and `PROJECT.json` quotes the lines.

* `errore_annulla`: after another handler's exception left `con` open, the first
  `Commit()` of `inserisci_lobby` opens no transaction; the client is told `Errore`
  and the lobby is there all the same, with no reservation and thus in no list.
* `statement_utile`: `RollBack()` leaves `stmt` pointing to a statement of the deleted
  connection, and every later query throws until the process is restarted. One
  creator without an account in the game is enough.
* `aggiunto_accettato`: accepting a reservation deleted in the meantime is confirmed.
* `due_worker`: with two workers a registration confirmed with `OK` is lost with the
  transaction of an `inserisci_lobby` on the other worker.

`LobbyAtomica` and `ErroreAnnulla` together draw the line: atomicity holds in a
session that `Commit()` opened and only there.

`LoginRisposto` says what the leftovers of an exception do *not* break: a session left
open by any handler still serves a login. It asks for `~Incagliato`; `IncaglioHaCausa`
then says the only ways to get there are a failure of the link and `RollBack()`.

**Disagreements met in the connector**, none of which the program's handlers reach:

* `getMoreResults` is said to close implicitly the result set obtained with
  `getResultSet` (`MariaDbStatement.cpp:1093-1095`), and `close` to close the statement's
  current result set (`:708-709`). Both touch only what `Results` still owns: one that the
  client has taken stays open until the client closes it. `Risultati` behaves as the code
  does (`closeRs` is the client's). For the same reason `closeOnCompletion` never closes a
  statement whose result set was taken.
* `rewritableParts` takes an empty piece for a missing one (Java's `null`): in a query
  without a `VALUES` it recognises, the text between the first two parameters becomes the
  second piece, and one parameter is not counted.
* `rewritableParts` returns its first two pieces in the order second, first
  (`ClientPrepareResult.cpp:615`), against its own comment and
  `assemblePreparedQueryForExec`, which sends them in the order of the list.
* `rewritableParts` lets a query that ends in a comment after `#` be repeated after a
  semicolon, which is then part of the comment (`RipetibileSeparata` leaves `#` out).

## 4. What TLAPS proves

For all values of the constants that satisfy `AplDbAssumption` and
`LobbyServerAssumption`:

| Theorem | Statement |
|---|---|
| `TypeCorrect`, `IntegrityHolds` | `Spec => []TypeOK`, `Spec => []Integrity`, for any number of workers |
| `IncaglioCausato` | `Spec => IncaglioHaCausa`, for any number of workers |
| `ConfermaVeraSolo`, `TransazioneSolo` | `Spec => []ConfermaVera`, `Spec => []TransazioneSoloInInserisci`, for a server with one worker (`UnSolo`) |
| `ContiConfermatiInsieme`, `ListeSeparateInsieme` | `Spec => []ContiConfermati`, `Spec => []ListeSeparate`, for any number of workers; both are about a server without `inserisci_lobby` (`SenzaTransazioni`) |
| `LobbyAtomicaSolo`, `AccettatoRestaSolo` | `Spec => LobbyAtomica`, `Spec => AccettatoResta`, for one worker |
| `ServizioMantenuto` | `Spec => MantieneServizio`: a server with one worker refines `ServizioLobby` |
| `ServizioMantenutoInsieme` | the same for any number of workers, without `inserisci_lobby` |
| `NessunAbuso`, `NienteDiPerso`, `RisultatoDiChiChiede` | `PuntSpec => []AbusoSoloInsieme`, and so on, for any number of workers and objects (`PuntatoriAssumption`) |
| `ContoDiLibcurl`, `RovinaSoloPerGames` | `Spec => []ContatoreLimitato`, `Spec => []RovinaSoloAccodata` of `Processo`, for any finite set of workers (`CrowAssumption`, `CurlAssumption`) |
| `ResPersiContati` | `Spec => ResPersi` of `Processo`, for any set of workers |
| `CursoreTipato`, `CursoreSincrono`, `PassiUguali`, `PosizioneUnica` | `Spec => []...` of `Cursore`, for any number of rows and width of integers (`CursoreAssumption`) |
| `CursoreImplementa` | `Spec => Implementa`: the lazy cursor refines the scrollable result set |
| `UnSoloPostoSempre`, `CamminoFedeleSempre` | `Spec => []UnSoloPosto`, `Spec => []CamminoFedele` of `Risultati`, for any number of statements, outcomes and result sets (`RisultatiAssumption`) |
| `RispostaFedeleSempre` | `Spec => RispostaFedele`, for the same |
| `SegnTipata`, `ParametriTrovatiSempre`, `PuntoEVirgolaSeparaSempre`, `RiscrittiContatiSempre`, `RiscrivibileUnGruppoSempre`, `RipetibileSeparataSempre` | `Spec => []...` of `Segnaposto`, for any number of parameters and any nesting (`SegnapostoAssumption`) |

* **Typing and integrity.** `Inv` is `TypeOK` and `Integrity` put in the shape a
  proof wants: what a call can disturb (`Chiamata`) apart from `nextId`. Each
  statement of `AplDb` has a lemma (`...Sano`): if its constraints accept it on a
  sound database, it leaves a sound one. Each call has one (`QueryInv`, `CommitInv`,
  ...), then each group of handlers. `work` is part of the invariant because a
  statement is judged on what the session sees and a commit copies it to `db`.
* **One worker.** `ConfermaVera` is not inductive: a confirmation is true because the
  writes before it went where the session said. `Solo` adds what the session is
  (`SessioneSana`: no transaction means it sees the committed data), that only an
  `inserisci_lobby` in progress has a session with autocommit off, and for each label
  what the handler has achieved by then (`Passo`, `InserisciPasso`). The thread through an
  `inserisci_lobby` is `Filo`: committed and seen data differ in `Lobby` at the new id
  at most, and `LAST_INSERT_ID()` is that id, unless the link was lost, in which case
  the transaction can only fail (`Perduta`). The two-worker run is why
  `UnSolo` cannot be dropped.
* **Steps.** `IncaglioHaCausa` needs only the typing of `guasti`; `LobbyAtomica`
  follows from `Solo`: with autocommit off, the only call that changes `db` is the
  second `Commit`, and `InserisciPasso` says what `work` holds there. `AccettatoResta`
  needs one conjunct more (`Accettati`): the session sees every committed reservation as
  it is, which holds because `inserisci_lobby`, the only handler with autocommit off,
  adds reservations and changes none. With more workers another handler's statements
  run in that transaction, and the argument is lost.
* **Refinement of the service.** The abstract step of a call is taken when it changes
  the committed tables, so a transaction must be one abstract step at its `Commit`.
  The invariant added to `Solo` is `Sospesa`: what the session has and the database has
  not is at most one lobby with its creator's reservation, and it is there as long as
  the transaction goes on. Each SQL statement has a lemma (`UtenteServe`,
  `PrenotazioneServe`, ...): executed with autocommit on, it is one step of the service
  or none; inside the transaction it leaves `db` alone and keeps `Sospesa`. A `Commit`
  then either finds nothing or is the step `Apre`; a lost link, a rollback and
  a restart throw away `work` only.
* **Many workers and no transaction.** Every session then commits each statement when it
  is executed (`SessioneAperta`), so what a worker sees is the database, whoever opened the
  session. `Insieme` adds to `Inv` what a worker knows at each label that no other
  worker can take from it. A row of `Utenti` or `Account_Game` is never changed (`Cresce`),
  so the row a confirmed insert left is still the user's, and `NicknameUnici`
  and `EmailUniche` exclude another's. The lobbies read so far are the user's own or
  were joined (`ListePasso`), and stay so until they are deleted if nobody removes users
  (`Accolti`); ids are not given again, so the queries read later can only leave them where
  they were. Each statement has a lemma (`...Cresce`), each call one that carries the
  other workers over. `ServizioMantenutoInsieme` needs no more than `SessioneAperta`: a
  statement is a step of the service, or none.
* **Objects.** `PuntInv` is `PuntTypeOK` and: either two workers have been inside at once,
  or all workers but one are outside and that one knows of the two pointers, at each of
  its accesses, what `Lecito` says (after `if (!con)` it is alive; between `delete`
  and `= nullptr` it is dead; ...). The three properties are about bad states, none of
  which `Lecito` allows.
* **libcurl.** `CurlInv` counts the requests that hold an initialisation (`Tenute`): the
  count is at most theirs plus what refused handles left, and, until a
  `gamesreturnValue` has found libcurl initialised, at least theirs, so that no clean-up
  of a request reaches 0 while another holds one. A step of `Processo` is a step of
  `CurlGlobale` or leaves it alone (`ProcessoCurl`), which carries the invariant over.
* **Result sets lost.** `Programma` is data, so what a handler has been given and
  has not deleted before each of its instructions is a table (`Avuti`). A lemma per handler
  (`Conto...`) shows that each instruction leads from its entry to the next (`Lascia`),
  and the last one to `Sovrascritti`, and that no entry exceeds it by more than one, which is
  what an exception leaves. The invariant `ResInv` says that each worker is at its entry.
* **Cursor.** The invariant is `CursoreTypeOK /\ Sincrono`: the C library stands after the
  row shown. With it each action maps to one of `Scorrimento`, `relative` by cases on
  whether its sum fits.
* **Results of a statement.** `RisInv` has a part for each question. `Posti`: within one
  `Results` the queue and the current result set are different objects, two `Results`
  share none, and none is in the client's hands; what an action puts somewhere was there
  before or is new (`...Posti`). `Passo`: a regular walk has read the counts up to the
  outcome it stands on, nothing waits behind it, and what it has still to read is what
  the connection has pending. `Ultimo`: an error, or the loss of the outcomes to another
  statement, is the last entry of a history, so a walk that stopped does not go on.
  A call of another statement that empties the connection disturbs only the walk of the
  statement these outcomes belonged to (`AltriOltre`).
* **Text of a query.** `SegnInv` relates each function to the reference reading.
  `Concorda`: both are in the same place of the text and know the same of the
  character before (a `*` that opened a comment and a `/` that closed one are the cases
  where they know it differently). It is proved once (`Avanza`), because the three functions have
  this part in common, and is what the guard against `Ambiguo` is for. `Contati` relates
  the pieces of `rewritableParts` to the parameters counted, before and after `VALUES`;
  `Repliche` says that whatever makes a query unfit to be repeated, `Nascosto` apart, has
  already kept it from being rewritable.

Every invariant and every action property of the passing runs is stated by one
of these theorems. Only model-checked: the liveness properties (`GestioneTermina`,
`LoginRisposto`, `ChiamataTorna`, `Termina`), which rest on fairness and thus on `ENABLED`,
out of the prover's reach; and the four properties the code violates, where there is
nothing to prove. Of `ConfermaVera` and the others stated for one worker, nothing is
claimed for more: the runs `lobby` and `viste` have one worker too. Of `ContiConfermati`
and `ListeSeparate`, nothing is claimed when some worker opens a transaction.

## 5. Not modelled

* **Configuration.** `config.json` is read once, in sequence, before any message.
* **Data.** JSON parsing and formatting, passwords, notes, names and dates; `replaceSpaces`
  and the URLs; the graphs and statistics of the Python server.
* **Crow**: networking, the upgrade to a websocket, its own queues. A message is taken by
  a worker that is free.
* **The connector beyond what is listed**: the program prepares no statement, sends no
  batch, asks for no metadata, opens no pool and gives no connection options.
  `MariaDbDatabaseMetaData.cpp` composes queries as text and keeps no state; the row
  protocols convert values; the statement and connection classes mostly forward calls and
  hold options. `SelectResultSetPacket.cpp`, `ColumnDefinitionPacket.cpp`, `Pool.cpp` and
  the other files of a packet-level protocol are not compiled in this build. Streaming
  result sets cannot be switched on: `setFetchSize` refuses every size but 0. Of
  client-side prepared statements only the reading of their text is modelled; batches,
  server-side statements and generated keys are not. Most of the repository's lines are in
  these files, which is why the model covers a small share of them.
* **Finer interleavings of the database.** `LobbyServer` with two workers takes a call as
  one step; what happens inside calls is in `Puntatori`, without data.
