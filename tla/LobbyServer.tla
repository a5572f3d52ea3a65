----------------------------- MODULE LobbyServer -----------------------------
(***************************************************************************)
(* The server: Crow worker threads running the handlers of the messages     *)
(* that arrive on the websocket and of POST /registrazione, and the one     *)
(* DatabaseConfig object (`dbManager') they all use.                        *)
(*                                                                          *)
(* A step is one call a handler makes: dbQuery, Commit, RollBack,           *)
(* ClearConnection, an HTTP request, a reply.  With one worker this is all  *)
(* the interleaving there is; with more it is the mildest one, since the    *)
(* calls take no lock either.                                               *)
(***************************************************************************)
EXTENDS AplDb

CONSTANTS
  Worker,     \* threads of app.multithreaded()
  Ops,        \* the messages clients send in this instance
  InitDbs,    \* databases the server may find when it starts
  MaxGuasti   \* bound: failures of the link to MariaDB and server restarts

VARIABLES
  (* MariaDB *)
  db,          \* what is committed
  work,        \* what the open session sees: db, or db and its transaction
  nextId,      \* AUTO_INCREMENT of Lobby; no rollback takes it back
  (* dbManager *)
  con,         \* the Connection: "nullo", "aperta", or "persa" (link lost)
  stmt,        \* the Statement: "nullo", "aperto", "orfano" (its connection
               \*   has been deleted) or "chiuso" (an error closed it)
  autoCommit,  \* the session commits every statement
  inTx,        \* the session reported a transaction in progress
  lastId,      \* LAST_INSERT_ID() of the session
  (* the workers *)
  pc,          \* the call the handler makes next; "libero" between messages
  req,         \* the message being handled, kept until the next one
  loc,         \* the local variables of the handler
  risposta,    \* what was sent back for req
  (* bookkeeping *)
  guasti       \* failures so far

dbVars   == <<db, work>>
conVars  == <<con, stmt, autoCommit, inTx, lastId>>
wrkVars  == <<pc, req, loc, risposta>>
vars     == <<dbVars, nextId, conVars, wrkVars, guasti>>

TutteOps == {"login", "visualizza_lobby", "visualizza_lobby_id", "visualizza_utente",
             "partecipa_lobby", "aggiungi_utente", "elimina_utente", "elimina_lobby",
             "inserisci_lobby", "grafico", "csstats", "lolstats", "tftstats",
             "registrazione"}

StatsOps == {"csstats", "lolstats", "tftstats"}

\* The game each Stats handler writes in its queries.
GiocoDi(op) == IF op = "csstats" THEN "Counter Strike Go"
               ELSE IF op = "lolstats" THEN "League of Legends"
               ELSE "Teamfight Tactics"

ASSUME LobbyServerAssumption ==
  /\ Ops \subseteq TutteOps /\ Ops # {}
  /\ MaxGuasti \in Nat
  /\ \A d \in InitDbs : d \in Db /\ Integrita(d)

Etichetta ==
  {"libero", "commit", "query1", "clear1", "query2", "clear2", "query3", "clear3",
   "query4", "commit2", "clear", "rollback", "http",
   "conferma", "rifiuta", "riporta"}

Richiesta == [op : TutteOps, u : Utente, g : Gioco, l : LobbyId, n : Nickname,
              e : Email, flag : BOOLEAN]

Locale == [trovato      : BOOLEAN,
           idLobby      : 0..MaxLobby,
           possedute    : SUBSET LobbyId,
           presente     : SUBSET LobbyId,
           disponibili  : SUBSET LobbyId]

LocaleIniziale == [trovato |-> FALSE, idLobby |-> 0, possedute |-> {},
                   presente |-> {}, disponibili |-> {}]

TypeOK ==
  /\ db \in Db
  /\ work \in Db
  /\ nextId \in 1..(MaxLobby + 1)
  /\ con \in {"nullo", "aperta", "persa"}
  /\ stmt \in {"nullo", "aperto", "orfano", "chiuso"}
  /\ autoCommit \in BOOLEAN
  /\ inTx \in BOOLEAN
  /\ lastId \in 0..MaxLobby
  /\ pc \in [Worker -> Etichetta]
  /\ req \in [Worker -> Richiesta]
  /\ loc \in [Worker -> Locale]
  /\ risposta \in [Worker -> {"nessuna", "conferma", "rifiuta", "riporta"}]
  /\ guasti \in 0..MaxGuasti

-----------------------------------------------------------------------------
(* The messages.  flag is the password being right for login, and the key   *)
(* "check" being there for the Stats handlers.  Users, lobbies and accounts *)
(* a client names are ones it was told of: registered users, ids already    *)
(* given out, accounts that exist.                                          *)

Noto(u) == db.Utenti[u] # Null

Sensata(r) ==
  /\ r.op \in Ops
  /\ r.op \notin {"login", "registrazione"} => Noto(r.u)
  /\ r.op \in StatsOps => r.g = GiocoDi(r.op)
  /\ r.op \in {"partecipa_lobby", "aggiungi_utente", "elimina_utente", "elimina_lobby",
               "visualizza_lobby_id"} => r.l < nextId
  /\ r.op \in {"aggiungi_utente", "elimina_utente"} => HaAccount(db, r.u, r.g)

\* The fields a message carries; the others keep one fixed value.
Campi(op) ==
  IF op = "login" THEN {"u", "flag"}
  ELSE IF op = "registrazione" THEN {"u", "e"}
  ELSE IF op = "visualizza_utente" THEN {"u"}
  ELSE IF op \in {"visualizza_lobby", "inserisci_lobby"} THEN {"u", "g"}
  ELSE IF op \in StatsOps THEN {"u", "g", "n", "flag"}
  ELSE IF op \in {"elimina_lobby", "visualizza_lobby_id"} THEN {"l"}
  ELSE IF op = "grafico" THEN {"g"}
  ELSE {"u", "g", "l"}

Scelte(S, campo, op) == IF campo \in Campi(op) THEN S ELSE {CHOOSE x \in S : TRUE}

Messaggi(op) ==
  {[op |-> op, u |-> u, g |-> g, l |-> l, n |-> n, e |-> e, flag |-> f] :
     u \in Scelte(Utente, "u", op), g \in Scelte(Gioco, "g", op),
     l \in Scelte(LobbyId, "l", op), n \in Scelte(Nickname, "n", op),
     e \in Scelte(Email, "e", op), f \in Scelte(BOOLEAN, "flag", op)}

Primo(op) == IF op = "inserisci_lobby" THEN "commit"
             ELSE IF op \in StatsOps THEN "http"
             ELSE "query1"

\* Origine.cpp: the dispatch of a message to its handler, and the POST route.
Ricevi(w) ==
  /\ pc[w] = "libero"
  /\ \E op \in Ops : \E r \in Messaggi(op) :
       /\ Sensata(r)
       /\ req' = [req EXCEPT ![w] = r]
       /\ pc' = [pc EXCEPT ![w] = Primo(op)]
  /\ loc' = [loc EXCEPT ![w] = LocaleIniziale]
  /\ risposta' = [risposta EXCEPT ![w] = "nessuna"]
  /\ UNCHANGED <<dbVars, nextId, conVars, guasti>>

-----------------------------------------------------------------------------
(* What the handlers share.                                                 *)

\* One handler runs in w, and its next call is the one at this label.
In(w, op, etichetta) == req[w].op = op /\ pc[w] = etichetta

Vai(w, etichetta) == pc' = [pc EXCEPT ![w] = etichetta]

\* Where an SQLException leads: HMInserisciLobby rolls back unless it is the
\* first Commit, outside the try; POST /registrazione answers; the others
\* only log it, and the message stays without an answer.
Gestore(w) == IF req[w].op = "inserisci_lobby" /\ pc[w] # "commit" THEN "rollback"
              ELSE IF req[w].op = "registrazione" THEN "rifiuta"
              ELSE "libero"

\* Mutated: the failed call is tried again.
EccezioneRiprova(w) == Vai(w, pc[w]) /\ UNCHANGED loc

Eccezione(w) == Vai(w, Gestore(w)) /\ UNCHANGED loc

Guasto == guasti < MaxGuasti /\ guasti' = guasti + 1

\* The session is gone: the server forgets its transaction and its variables.
SessioneFinita == autoCommit' = TRUE /\ inTx' = FALSE /\ lastId' = 0 /\ work' = db

-----------------------------------------------------------------------------
(* DatabaseConfig::dbQuery: what may come of it.                            *)

\* driver->connect throws, or setSchema loses the link it has just opened.
ConnessioneFallita(w) ==
  /\ con = "nullo"
  /\ Guasto
  /\ con' \in {"nullo", "persa"}
  /\ Eccezione(w)
  /\ UNCHANGED <<dbVars, stmt, autoCommit, inTx, lastId>>

\* stmt belongs to a deleted connection, or an error has closed it: if (!stmt)
\* keeps it all the same, whatever con is.
StatementInutile(w) ==
  /\ stmt \in {"orfano", "chiuso"}
  /\ con' = IF con = "nullo" THEN "aperta" ELSE con
  /\ stmt' = "chiuso"
  /\ Eccezione(w)
  /\ UNCHANGED <<dbVars, autoCommit, inTx, lastId, guasti>>

\* The link was lost before: there is no reconnection while con is not null.
LinkGiaPerso(w) ==
  /\ con = "persa"
  /\ stmt \in {"nullo", "aperto"}
  /\ stmt' \in {"aperto", "chiuso"}
  /\ Eccezione(w)
  /\ UNCHANGED <<dbVars, con, autoCommit, inTx, lastId, guasti>>

Servibile == con # "persa" /\ stmt \in {"nullo", "aperto"}

\* The link falls under the statement: the server may have executed it, which
\* is for good only in a session that commits every statement.
CadutaInQuery(w, q) ==
  /\ Servibile
  /\ Guasto
  /\ con' = "persa"
  /\ stmt' = "aperto"
  /\ db' \in {db} \cup IF q.ok /\ autoCommit THEN {q.dopo} ELSE {}
  /\ work' = db'
  /\ Eccezione(w)
  /\ UNCHANGED <<autoCommit, inTx, lastId>>

\* A constraint refuses the statement; connection and statement stay open.
Rifiutata(w, q) ==
  /\ Servibile
  /\ ~q.ok
  /\ con' = "aperta"
  /\ stmt' = "aperto"
  /\ Eccezione(w)
  /\ UNCHANGED <<dbVars, autoCommit, inTx, lastId, guasti>>

\* Executed: ids are the values LAST_INSERT_ID() may take from it, dati the
\* handler's variables afterwards and poi its next call.
Eseguita(w, q, ids, dati, poi) ==
  /\ Servibile
  /\ q.ok
  /\ con' = "aperta"
  /\ stmt' = "aperto"
  /\ work' = q.dopo
  /\ db' = IF autoCommit THEN q.dopo ELSE db
  /\ inTx' = ~autoCommit
  /\ lastId' \in ids
  /\ loc' = [loc EXCEPT ![w] = dati]
  /\ Vai(w, poi)
  /\ UNCHANGED <<autoCommit, guasti>>

dbQuery(w, q, ids, dati, poi) ==
  \/ ConnessioneFallita(w)
  \/ StatementInutile(w)
  \/ LinkGiaPerso(w)
  \/ CadutaInQuery(w, q)
  \/ Rifiutata(w, q)
  \/ Eseguita(w, q, ids, dati, poi)

\* A statement that only reads.
Leggi(w, dati, poi) == dbQuery(w, Lettura(work), {lastId}, dati, poi)

\* A statement that reads one row and then takes it: no row is an exception.
LeggiRiga(w, riga, poi) == Leggi(w, loc[w], IF riga THEN poi ELSE Gestore(w))

\* A statement that writes and gives no AUTO_INCREMENT value.
Scrivi(w, q, poi) == dbQuery(w, q, {lastId}, loc[w], poi)

-----------------------------------------------------------------------------
(* DatabaseConfig::Commit, RollBack and ClearConnection.                    *)

\* With no connection: one is opened, and a transaction with it.
CommitApre(w, poi) ==
  /\ con = "nullo"
  /\ \/ con' = "aperta" /\ autoCommit' = FALSE /\ Vai(w, poi) /\ UNCHANGED <<loc, guasti>>
     \/ Guasto /\ con' \in {"nullo", "persa"} /\ Eccezione(w) /\ UNCHANGED autoCommit
  /\ UNCHANGED <<dbVars, stmt, inTx, lastId>>

\* con->commit() sends nothing unless a transaction is in progress.
CommitConferma(w, poi) ==
  /\ con # "nullo"
  /\ \/ ~inTx /\ Vai(w, poi) /\ UNCHANGED <<dbVars, con, inTx, loc, guasti>>
     \/ inTx /\ con = "persa" /\ Eccezione(w) /\ UNCHANGED <<dbVars, con, inTx, guasti>>
     \/ /\ inTx /\ con = "aperta"
        /\ db' = work /\ inTx' = FALSE /\ Vai(w, poi)
        /\ UNCHANGED <<work, con, loc, guasti>>
     \/ /\ inTx /\ con = "aperta" /\ Guasto
        /\ con' = "persa" /\ db' \in {db, work} /\ work' = db' /\ Eccezione(w)
        /\ UNCHANGED inTx
  /\ UNCHANGED <<stmt, autoCommit, lastId>>

\* Mutated: the else branch is missing.
CommitSenzaElse(w, poi) ==
  CommitApre(w, poi) \/ (con # "nullo" /\ Vai(w, poi) /\ UNCHANGED <<dbVars, conVars, loc, guasti>>)

Commit(w, poi) == CommitApre(w, poi) \/ CommitConferma(w, poi)

\* Mutated: commit in the place of rollback.
RollBackConferma(w, poi) ==
  /\ con' = "nullo" /\ stmt' = "nullo" /\ autoCommit' = TRUE /\ inTx' = FALSE /\ lastId' = 0
  /\ db' = work
  /\ Vai(w, poi)
  /\ UNCHANGED <<work, loc, guasti>>

\* con->rollback() may throw, from inside the catch: nothing is answered then.
RollBack(w, poi) ==
  \/ con = "nullo" /\ Vai(w, poi) /\ UNCHANGED <<dbVars, conVars, loc, guasti>>
  \/ /\ con = "aperta" \/ (con = "persa" /\ ~inTx)
     /\ con' = "nullo"
     /\ stmt' = IF stmt = "aperto" THEN "orfano" ELSE stmt
     /\ SessioneFinita
     /\ Vai(w, poi)
     /\ UNCHANGED <<db, loc, guasti>>
  \/ /\ con = "persa" /\ inTx
     /\ Vai(w, "libero")
     /\ UNCHANGED <<dbVars, conVars, loc, guasti>>
  \/ /\ con = "aperta" /\ inTx /\ Guasto
     /\ con' = "persa" /\ work' = db
     /\ Vai(w, "libero")
     /\ UNCHANGED <<db, stmt, autoCommit, inTx, lastId, loc>>

\* ClearConnection(1): only the statement.
ClearStatement(w, poi) ==
  /\ stmt' = "nullo"
  /\ Vai(w, poi)
  /\ UNCHANGED <<dbVars, con, autoCommit, inTx, lastId, loc, guasti>>

\* Mutated: the connection is kept.
ClearConnectionTiene(w, poi) == ClearStatement(w, poi)

\* Mutated: the statement is not set to null.
ClearConnectionLasciaStmt(w, poi) ==
  /\ stmt' = IF stmt = "aperto" THEN "orfano" ELSE stmt
  /\ con' = "nullo"
  /\ SessioneFinita
  /\ Vai(w, poi)
  /\ UNCHANGED <<db, loc, guasti>>

\* ClearConnection(): the connection too; MariaDB drops what it had not committed.
ClearConnection(w, poi) ==
  /\ stmt' = "nullo"
  /\ con' = "nullo"
  /\ SessioneFinita
  /\ Vai(w, poi)
  /\ UNCHANGED <<db, loc, guasti>>

-----------------------------------------------------------------------------
(* The handlers: one definition each, one disjunct for each call.           *)

HMLogin(w) == LET r == req[w] IN
  \/ In(w, "login", "query1")
     /\ Leggi(w, [loc[w] EXCEPT !.trovato = Presente(work, r.u, r.flag)], "clear1")
  \/ In(w, "login", "clear1")
     /\ ClearConnection(w, IF loc[w].trovato THEN "query2" ELSE "conferma")
  \/ In(w, "login", "query2") /\ Leggi(w, loc[w], "clear")
  \/ In(w, "login", "clear")  /\ ClearConnection(w, "conferma")

HMVisualizzaLobbyId(w) ==
  \/ In(w, "visualizza_lobby_id", "query1") /\ Leggi(w, loc[w], "clear")
  \/ In(w, "visualizza_lobby_id", "clear")  /\ ClearConnection(w, "conferma")

HMVisualizzaUtente(w) ==
  \/ In(w, "visualizza_utente", "query1") /\ Leggi(w, loc[w], "clear")
  \/ In(w, "visualizza_utente", "clear")  /\ ClearConnection(w, "conferma")

\* Mutated: the lobbies open to all are read before those the user is in.
VisualizzaDisponibiliPrima(w) == LET r == req[w] IN
  \/ In(w, "visualizza_lobby", "query1")
     /\ Leggi(w, [loc[w] EXCEPT !.possedute = Possedute(work, r.u, r.g)], "query2")
  \/ In(w, "visualizza_lobby", "query2")
     /\ Leggi(w, [loc[w] EXCEPT !.disponibili = Disponibili(work, r.u, r.g)], "query3")
  \/ In(w, "visualizza_lobby", "query3")
     /\ Leggi(w, [loc[w] EXCEPT !.presente = LobbyPresente(work, r.u, r.g)], "clear")
  \/ In(w, "visualizza_lobby", "clear") /\ ClearConnection(w, "conferma")

HMVisualizzaLobby(w) == LET r == req[w] IN
  \/ In(w, "visualizza_lobby", "query1")
     /\ Leggi(w, [loc[w] EXCEPT !.possedute = Possedute(work, r.u, r.g)], "query2")
  \/ In(w, "visualizza_lobby", "query2")
     /\ Leggi(w, [loc[w] EXCEPT !.presente = LobbyPresente(work, r.u, r.g)], "query3")
  \/ In(w, "visualizza_lobby", "query3")
     /\ Leggi(w, [loc[w] EXCEPT !.disponibili = Disponibili(work, r.u, r.g)], "clear")
  \/ In(w, "visualizza_lobby", "clear") /\ ClearConnection(w, "conferma")

HMPartecipaLobby(w) == LET r == req[w] IN
  \/ In(w, "partecipa_lobby", "query1") /\ LeggiRiga(w, HaAccount(work, r.u, r.g), "clear1")
  \/ In(w, "partecipa_lobby", "clear1") /\ ClearConnection(w, "query2")
  \/ In(w, "partecipa_lobby", "query2")
     /\ Scrivi(w, InsertPrenotazione(work, <<r.u, r.g>>, r.l, "Attesa"), "clear")
  \/ In(w, "partecipa_lobby", "clear")  /\ ClearConnection(w, "conferma")

HMAggiungiUtente(w) == LET r == req[w] IN
  \/ In(w, "aggiungi_utente", "query1")
     /\ Scrivi(w, AccettaPrenotazione(work, <<r.u, r.g>>, r.l), "clear")
  \/ In(w, "aggiungi_utente", "clear") /\ ClearConnection(w, "conferma")

HMEliminaUtente(w) == LET r == req[w] IN
  \/ In(w, "elimina_utente", "query1")
     /\ Scrivi(w, DeletePrenotazione(work, <<r.u, r.g>>, r.l), "clear")
  \/ In(w, "elimina_utente", "clear") /\ ClearConnection(w, "conferma")

HMEliminaLobby(w) ==
  \/ In(w, "elimina_lobby", "query1") /\ Scrivi(w, DeleteLobby(work, req[w].l), "clear")
  \/ In(w, "elimina_lobby", "clear")  /\ ClearConnection(w, "conferma")

HMGrafico(w) ==
  \/ In(w, "grafico", "query1") /\ Leggi(w, loc[w], "clear")
  \/ In(w, "grafico", "clear")  /\ ClearConnection(w, "http")

\* Mutated: a value is taken even when there is none left.
IdConsumatoSempre == nextId' = nextId + 1

\* The AUTO_INCREMENT value an INSERT into Lobby takes stays taken, also when
\* the link falls and the row does not survive.
IdConsumato ==
  \/ con' = "aperta" /\ work' # work /\ nextId' = nextId + 1
  \/ con' = "persa" /\ con # "persa" /\ stmt' = "aperto"
     /\ nextId <= MaxLobby /\ nextId' = nextId + 1
  \/ db' = db /\ (con' = "persa" \/ work' = work) /\ nextId' = nextId

HMInserisciLobby(w) == LET r == req[w] IN
  \/ /\ In(w, "inserisci_lobby", "query1")
     /\ dbQuery(w, InsertLobby(work, nextId, r.u), {nextId}, loc[w], "clear1")
     /\ IdConsumato
  \/ /\ UNCHANGED nextId
     /\ \/ In(w, "inserisci_lobby", "commit") /\ Commit(w, "query1")
        \/ In(w, "inserisci_lobby", "clear1") /\ ClearStatement(w, "query2")
        \/ In(w, "inserisci_lobby", "query2")
           /\ Leggi(w, [loc[w] EXCEPT !.idLobby = lastId], "clear2")
        \/ In(w, "inserisci_lobby", "clear2") /\ ClearStatement(w, "query3")
        \/ In(w, "inserisci_lobby", "query3")
           /\ LeggiRiga(w, HaAccountConLobby(work, r.u, r.g), "clear3")
        \/ In(w, "inserisci_lobby", "clear3") /\ ClearStatement(w, "query4")
        \/ In(w, "inserisci_lobby", "query4")
           /\ Scrivi(w, InsertPrenotazione(work, <<r.u, r.g>>, loc[w].idLobby, "Accettato"),
                     "commit2")
        \/ In(w, "inserisci_lobby", "commit2")  /\ Commit(w, "clear")
        \/ In(w, "inserisci_lobby", "clear")    /\ ClearConnection(w, "conferma")
        \/ In(w, "inserisci_lobby", "rollback") /\ RollBack(w, "rifiuta")

\* HMCsStats, HMLolStats and HMTftStats after the request to the Python server.
Stats(w, op) == LET r == req[w] IN
  \/ In(w, op, "query1")
     /\ Leggi(w, [loc[w] EXCEPT !.trovato = NicknameUsato(work, r.n, r.g)], "clear1")
  \/ In(w, op, "clear1")
     /\ ClearConnection(w, IF loc[w].trovato THEN "rifiuta" ELSE "query2")
  \/ In(w, op, "query2")
     /\ dbQuery(w, InsertAccount(work, r.u, r.g, r.n), {lastId} \cup LobbyId, loc[w], "clear")
  \/ In(w, op, "clear") /\ ClearConnection(w, "conferma")

HMCsStats(w)  == Stats(w, "csstats")
HMLolStats(w) == Stats(w, "lolstats")
HMTftStats(w) == Stats(w, "tftstats")

\* POST /registrazione.
Registrazione(w) == LET r == req[w] IN
  \/ In(w, "registrazione", "query1")
     /\ dbQuery(w, InsertUtente(work, r.u, r.e), {lastId} \cup LobbyId, loc[w], "clear")
  \/ In(w, "registrazione", "clear") /\ ClearConnection(w, "conferma")

Gestisci(w) ==
  /\ \/ HMLogin(w) \/ HMVisualizzaLobbyId(w) \/ HMVisualizzaUtente(w)
     \/ HMVisualizzaLobby(w) \/ HMPartecipaLobby(w) \/ HMAggiungiUtente(w)
     \/ HMEliminaUtente(w) \/ HMEliminaLobby(w) \/ HMGrafico(w)
     \/ HMCsStats(w) \/ HMLolStats(w) \/ HMTftStats(w) \/ Registrazione(w)
  /\ UNCHANGED nextId

\* conn.send_binary, or the return of the POST route: the handler is done.
Invia(w) ==
  /\ pc[w] \in {"conferma", "rifiuta", "riporta"}
  /\ risposta' = [risposta EXCEPT ![w] = pc[w]]
  /\ Vai(w, "libero")
  /\ UNCHANGED <<dbVars, nextId, conVars, req, loc, guasti>>

Lavora(w) ==
  \/ (Gestisci(w) \/ HMInserisciLobby(w)) /\ UNCHANGED <<req, risposta>>
  \/ Invia(w)

\* The answer of the Python server, or "errore" when there is none.  A Stats
\* handler goes on only for a message with "check" about an account that exists.
RispostaPython(w) ==
  /\ pc[w] = "http"
  /\ \/ Vai(w, "riporta")
     \/ req[w].op \in StatsOps /\ req[w].flag /\ Vai(w, "query1")
  /\ UNCHANGED <<dbVars, nextId, conVars, req, loc, risposta, guasti>>

-----------------------------------------------------------------------------
(* What happens to the server from outside.                                 *)

\* MariaDB closes an idle session, or the link to it breaks.
LinkCade ==
  /\ con = "aperta"
  /\ Guasto
  /\ con' = "persa"
  /\ work' = db
  /\ UNCHANGED <<db, nextId, stmt, autoCommit, inTx, lastId, wrkVars>>

\* The process stops, wherever its workers are, and is started again.
Riavvio ==
  /\ Guasto
  /\ con' = "nullo" /\ stmt' = "nullo" /\ SessioneFinita
  /\ pc' = [w \in Worker |-> "libero"]
  /\ loc' = [w \in Worker |-> LocaleIniziale]
  /\ risposta' = [w \in Worker |-> "nessuna"]
  /\ UNCHANGED <<db, nextId, req>>

Init ==
  /\ db \in InitDbs
  /\ work = db
  /\ nextId \in 1..(MaxLobby + 1)
  /\ \A l \in LobbyId : db.Lobby[l] # Null => l < nextId
  /\ nextId > 1 => db.Lobby[nextId - 1] # Null
  /\ con = "nullo" /\ stmt = "nullo" /\ autoCommit = TRUE /\ inTx = FALSE /\ lastId = 0
  /\ pc = [w \in Worker |-> "libero"]
  /\ req = [w \in Worker |-> CHOOSE r \in UNION {Messaggi(op) : op \in Ops} : TRUE]
  /\ loc = [w \in Worker |-> LocaleIniziale]
  /\ risposta = [w \in Worker |-> "nessuna"]
  /\ guasti = 0

Next ==
  \/ \E w \in Worker : Ricevi(w) \/ Lavora(w) \/ RispostaPython(w)
  \/ LinkCade
  \/ Riavvio

Spec == Init /\ [][Next]_vars

\* A worker goes on as long as its next call is not an HTTP request: libcurl is
\* given no timeout, and a Python server that hangs holds the worker.
Fairness == \A w \in Worker : WF_vars(Lavora(w))

FairSpec == Spec /\ Fairness

-----------------------------------------------------------------------------
(* Properties.                                                              *)

\* The constraints of the tables hold of what is committed and of what the
\* session sees, and no lobby has an id AUTO_INCREMENT has yet to give.
Integrity ==
  /\ Integrita(db)
  /\ Integrita(work)
  /\ \A l \in LobbyId : l >= nextId => db.Lobby[l] = Null /\ work.Lobby[l] = Null

\* What the confirmation of a message says of the committed database.
Fatto(d, r, v) ==
  /\ r.op = "login" => v.trovato = Presente(d, r.u, r.flag)
  /\ r.op = "partecipa_lobby" => d.Prenotazioni[<<<<r.u, r.g>>, r.l>>] = "Attesa"
  /\ r.op = "aggiungi_utente" => d.Prenotazioni[<<<<r.u, r.g>>, r.l>>] # "Attesa"
  /\ r.op = "elimina_utente"  => d.Prenotazioni[<<<<r.u, r.g>>, r.l>>] = Null
  /\ r.op = "elimina_lobby"   => /\ d.Lobby[r.l] = Null
                                 /\ \A a \in Account : d.Prenotazioni[<<a, r.l>>] = Null
  /\ r.op = "inserisci_lobby" => /\ v.idLobby \in LobbyId
                                 /\ d.Lobby[v.idLobby] = r.u
                                 /\ d.Prenotazioni[<<<<r.u, r.g>>, v.idLobby>>] = "Accettato"
  /\ r.op \in StatsOps => d.Account_Game[<<r.u, r.g>>] = r.n
  /\ r.op = "registrazione" => d.Utenti[r.u] = r.e

\* With one worker, a client told "Lobby Inserita", "partecipazione_inviata",
\* "OK"... finds it in the committed database, whatever failed on the way and
\* whatever earlier handlers left behind in dbManager.
ConfermaVera ==
  \A w \in Worker : risposta[w] = "conferma" => Fatto(db, req[w], loc[w])

\* A session that does not commit its statements never outlives the
\* inserisci_lobby that opened it: the writes of a later handler would be lost.
TransazioneSoloInInserisci ==
  con = "aperta" /\ ~autoCommit =>
    \E w \in Worker : /\ req[w].op = "inserisci_lobby"
                      /\ pc[w] \notin {"libero", "commit", "http", "conferma", "rifiuta", "riporta"}

\* A lobby committed by a session that Commit opened comes with the accepted
\* reservation of its creator, in one step.
LobbyAtomica ==
  [][\A l \in LobbyId :
       db.Lobby[l] = Null /\ db'.Lobby[l] # Null /\ ~autoCommit
       => \E g \in Gioco : db'.Prenotazioni[<<<<db'.Lobby[l], g>>, l>>] = "Accettato"]_vars

\* dbManager can no longer serve a query: its connection is lost or its
\* statement useless, and neither pointer is null.
Incagliato == con = "persa" \/ stmt \in {"orfano", "chiuso"}

\* Only a failure of the link, or RollBack, gets dbManager stuck: no exception
\* of a handler that leaves its pointers behind does.
IncaglioHaCausa ==
  [][~Incagliato /\ Incagliato' => guasti' > guasti \/ \E w \in Worker : pc[w] = "rollback"]_vars

\* An accepted reservation stays accepted until it is deleted.
AccettatoResta ==
  [][\A p \in Account \X LobbyId :
       db.Prenotazioni[p] = "Accettato" => db'.Prenotazioni[p] \in {"Accettato", Null}]_vars

\* The messages among which no worker opens a transaction: then several workers
\* may share dbManager.
SenzaTransazioni == "inserisci_lobby" \notin Ops

\* A Stats handler counts a nickname in one session and inserts it in another,
\* and another worker may take it in between, or be registering with the same
\* e-mail: of those who asked for it, one at most is told it is theirs, and that
\* one has it in the committed database.
ContiConfermati ==
  SenzaTransazioni =>
    \A w \in Worker : LET r == req[w] IN
      risposta[w] = "conferma" => \A v \in Utente :
        /\ r.op \in StatsOps => (db.Account_Game[<<v, r.g>>] = r.n <=> v = r.u)
        /\ r.op = "registrazione" => (db.Utenti[v] = r.e <=> v = r.u)

\* The lists of visualizza_lobby are of three moments, and other workers book,
\* accept and delete in between.  Still no lobby of the user's own is in another
\* list; and unless somebody is removed from a lobby, none is both one the user is
\* in and one open to them, and they are in those they were told they are in until
\* they are deleted.
ListeSeparate ==
  SenzaTransazioni =>
    \A w \in Worker : LET r == req[w]  v == loc[w] IN
      r.op = "visualizza_lobby" =>
        /\ v.possedute \cap (v.presente \cup v.disponibili) = {}
        /\ "elimina_utente" \notin Ops =>
             /\ v.presente \cap v.disponibili = {}
             /\ \A l \in v.presente : \/ db.Lobby[l] = Null
                                      \/ \E h \in Gioco : db.Prenotazioni[<<<<r.u, h>>, l>>] = "Accettato"

\* The promise of the service, kept with one worker: the committed tables change
\* only by its steps.  A lobby never comes back under the id of a closed one;
\* nobody is in a lobby who has not been accepted from a pending reservation,
\* its owner apart; nothing disappears that no request has deleted.
Servizio == INSTANCE ServizioLobby WITH
  utenti       <- db.Utenti,
  account      <- db.Account_Game,
  lobby        <- db.Lobby,
  prenotazioni <- db.Prenotazioni,
  chiuse       <- {l \in LobbyId : l < nextId /\ db.Lobby[l] = Null /\ work.Lobby[l] = Null}

MantieneServizio == Servizio!Spec

\* A handler that does not wait for the Python server ends, whatever fails.
GestioneTermina ==
  \A w \in Worker :
    pc[w] # "libero" /\ req[w].op \notin StatsOps \cup {"grafico"} ~> pc[w] = "libero"

\* A login that finds dbManager not stuck is answered, once failures are over:
\* what other handlers left open in dbManager does not stand in its way.
LoginRisposto ==
  \A w \in Worker :
    (req[w].op = "login" /\ pc[w] = "query1" /\ ~Incagliato /\ guasti = MaxGuasti)
      ~> risposta[w] = "conferma"

-----------------------------------------------------------------------------
(* What the comments of the code say, and the code does not do.             *)

\* HMInserisciLobby: after "Errore" nothing of the request is left.
ErroreAnnulla ==
  \A w \in Worker :
    req[w].op = "inserisci_lobby" /\ risposta[w] = "rifiuta" /\ loc[w].idLobby # 0
    => db.Lobby[loc[w].idLobby] = Null

\* DatabaseConfig::dbQuery executes the query it is given: its Statement can.
StatementUtile == guasti = 0 => stmt \in {"nullo", "aperto"}

\* HMAggiungiUtente: the answer confirms that the reservation is accepted.
AggiuntoAccettato ==
  \A w \in Worker :
    req[w].op = "aggiungi_utente" /\ risposta[w] = "conferma"
    => db.Prenotazioni[<<<<req[w].u, req[w].g>>, req[w].l>>] = "Accettato"

\* More threads serve more clients: a registration confirmed by one of them is
\* not lost to what another is doing.  (No statement deletes a user.)
RegistrazioneDurevole ==
  \A w \in Worker :
    req[w].op = "registrazione" /\ risposta[w] = "conferma" => db.Utenti[req[w].u] = req[w].e
=============================================================================
