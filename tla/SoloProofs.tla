----------------------------- MODULE SoloProofs -----------------------------
(***************************************************************************)
(* What a server with one worker promises its clients: Crow starts one     *)
(* when the machine has at most two hardware threads. With more, the run   *)
(* of RegistrazioneDurevole shows how the promise breaks.                  *)
(***************************************************************************)
EXTENDS LobbyServerProofs

UnSolo == \A v, w \in Worker : v = w

\* The variables of the session agree: without a transaction it sees what is
\* committed, and only a session Commit opened has one.
SessioneSana ==
  /\ con = "nullo" => autoCommit
  /\ autoCommit => ~inTx
  /\ ~inTx => work = db
  /\ con = "persa" => work = db

\* The transaction of an inserisci_lobby was lost with its link.
Perduta == con = "persa" /\ inTx

\* The session holds the new lobby k of the handler in w, and no other.
Filo(w, k) ==
  /\ k \in LobbyId
  /\ work.Lobby[k] = req[w].u
  /\ \A l \in LobbyId : l # k => work.Lobby[l] = db.Lobby[l]

DopoId == {"clear2", "query3", "clear3", "query4", "commit2"}

\* How far an inserisci_lobby has come.
InserisciPasso(w) ==
  req[w].op = "inserisci_lobby" =>
    /\ pc[w] \in {"query1", "clear1", "query2"} \cup DopoId => con # "nullo"
    /\ pc[w] = "query1" => ~inTx
    /\ pc[w] \in {"clear1", "query2"} \cup DopoId => autoCommit \/ inTx
    /\ pc[w] \in {"clear1", "query2"} => Perduta \/ Filo(w, lastId)
    /\ pc[w] \in DopoId => Perduta \/ Filo(w, loc[w].idLobby)
    /\ pc[w] = "commit2" =>
         Perduta \/ work.Prenotazioni[<<<<req[w].u, req[w].g>>, loc[w].idLobby>>] = "Accettato"

\* How far any handler has come: what it has committed when it has.
Passo(w) ==
  /\ pc[w] # "libero" => risposta[w] = "nessuna"
  /\ risposta[w] = "conferma" => Fatto(db, req[w], loc[w])
  /\ pc[w] \in {"clear", "conferma"} => Fatto(db, req[w], loc[w])
  /\ req[w].op = "login" /\ pc[w] \in {"clear1", "query2"} => Fatto(db, req[w], loc[w])
  /\ req[w].op \in StatsOps /\ pc[w] # "libero" => Noto(req[w].u)
  /\ InserisciPasso(w)

Solo ==
  /\ Inv
  /\ SessioneSana
  /\ TransazioneSoloInInserisci
  /\ \A w \in Worker : Passo(w)

\* The invariant contains the two safety properties.
LEMMA SoloImplica ==
  Solo => ConfermaVera /\ TransazioneSoloInInserisci
BY DEF Solo, Passo, ConfermaVera

\* It holds at the start.
LEMMA InitSolo == Init => Solo
<1> SUFFICES ASSUME Init PROVE Solo
  OBVIOUS
<1>1. Inv
  BY InitInv
<1>2. SessioneSana /\ TransazioneSoloInInserisci
  BY DEF Init, SessioneSana, TransazioneSoloInInserisci
<1>3. \A w \in Worker : pc[w] = "libero" /\ risposta[w] = "nessuna"
  BY DEF Init
<1>4. \A w \in Worker : Passo(w)
  BY <1>3 DEF Passo, InserisciPasso, DopoId
<1> QED BY <1>1, <1>2, <1>4 DEF Solo

\* A handler other than inserisci_lobby meets a session that commits every
\* statement, or one that cannot be used.
LEMMA AutoCommitFuori ==
  ASSUME UnSolo, Solo, NEW w \in Worker, req[w].op # "inserisci_lobby", con # "persa"
  PROVE  autoCommit /\ ~inTx /\ work = db
BY DEF UnSolo, Solo, SessioneSana, TransazioneSoloInInserisci, Inv, Chiamata

\* A handler other than inserisci_lobby sees what is committed, on a lost
\* link too.
LEMMA VedeIlDb ==
  ASSUME UnSolo, Solo, NEW w \in Worker, req[w].op # "inserisci_lobby"
  PROVE  work = db
<1>1. CASE con = "persa"
  BY <1>1 DEF Solo, SessioneSana
<1>2. CASE con # "persa"
  BY <1>2, AutoCommitFuori
<1> QED BY <1>1, <1>2

\* ClearConnection keeps the invariant, if what it goes on to confirm is done.
LEMMA ClearConnectionSolo ==
  ASSUME UnSolo, Solo, Inv', NEW w \in Worker, pc[w] # "libero",
         NEW poi \in {"query2", "conferma", "rifiuta", "http"},
         ClearConnection(w, poi), UNCHANGED <<req, risposta>>,
         poi = "conferma" => Fatto(db, req[w], loc[w]),
         poi = "query2" => /\ req[w].op # "inserisci_lobby"
                           /\ req[w].op = "login" => Fatto(db, req[w], loc[w])
  PROVE  Solo'
<1>1. /\ pc'[w] = poi /\ loc' = loc /\ db' = db /\ work' = db /\ stmt' = "nullo" /\ con' = "nullo"
      /\ req' = req /\ risposta' = risposta
  BY DEF ClearConnection, SessioneFinita, Vai, Solo, Inv, Chiamata
<1>2. autoCommit' /\ ~inTx'
  BY Zenon DEF ClearConnection, SessioneFinita
<1>3. SessioneSana' /\ TransazioneSoloInInserisci'
  BY <1>1, <1>2 DEF SessioneSana, TransazioneSoloInInserisci
<1>4. Passo(w)
  BY DEF Solo
<1>5. Passo(w)'
  BY <1>1, <1>4 DEF Passo, InserisciPasso, DopoId, Noto
<1>6. \A v \in Worker : Passo(v)'
  BY <1>5 DEF UnSolo
<1> QED BY <1>3, <1>6 DEF Solo

\* dbQuery keeps it in a handler other than inserisci_lobby, if the statement
\* does what the handler goes on to confirm.
LEMMA QuerySolo ==
  ASSUME UnSolo, Solo, Inv', NEW w \in Worker, req[w].op # "inserisci_lobby", pc[w] # "libero",
         NEW q, NEW ids, NEW dati, NEW poi \in {"clear1", "query2", "query3", "clear", "libero"},
         dbQuery(w, q, ids, dati, poi), UNCHANGED <<req, risposta>>,
         q.ok /\ autoCommit /\ work = db /\ poi # "libero" =>
           /\ poi = "clear" \/ req[w].op = "login" => Fatto(q.dopo, req[w], dati)
           /\ req[w].op \in StatsOps => q.dopo.Utenti[req[w].u] # Null
  PROVE  Solo'
<1>1. CASE Eseguita(w, q, ids, dati, poi)
  <2>1. autoCommit /\ work = db /\ con # "persa"
    BY <1>1, AutoCommitFuori DEF Eseguita, Servibile
  <2>2. /\ pc'[w] = poi /\ loc'[w] = dati /\ db' = q.dopo /\ work' = q.dopo /\ con' = "aperta"
        /\ req' = req /\ risposta' = risposta /\ q.ok
    BY <1>1, <2>1 DEF Eseguita, Vai, Solo, Inv, Chiamata
  <2>3. autoCommit' /\ ~inTx'
    <3>1. autoCommit' = autoCommit /\ inTx' = ~autoCommit
      BY <1>1 DEF Eseguita
    <3> QED BY <2>1, <3>1, Zenon
  <2>4. SessioneSana' /\ TransazioneSoloInInserisci'
    BY <2>2, <2>3 DEF SessioneSana, TransazioneSoloInInserisci
  <2>5. Passo(w)
    BY DEF Solo
  <2>6. Passo(w)'
    BY <2>1, <2>2, <2>5 DEF Passo, InserisciPasso, Noto
  <2>7. \A v \in Worker : Passo(v)'
    BY <2>6 DEF UnSolo
  <2> QED BY <2>4, <2>7 DEF Solo
<1> DEFINE Salva == con # "persa" /\ con' # "persa" /\ db' = db /\ work' = work
           Persa == /\ con' = "persa"
                    /\ con = "persa" => work' = work /\ db' = db
                    /\ con # "persa" => work' = db'
<1>2. CASE Eccezione(w) /\ UNCHANGED <<autoCommit, inTx>> /\ (Salva \/ Persa)
  <2>1. /\ pc'[w] \in {"libero", "rifiuta"} /\ loc' = loc
        /\ req' = req /\ risposta' = risposta
        /\ pc'[w] = "rifiuta" => req[w].op = "registrazione"
    BY <1>2 DEF Eccezione, Gestore, Vai, Solo, Inv, Chiamata
  <2>2. con' # "persa" => autoCommit /\ ~inTx /\ work = db
    BY <1>2, AutoCommitFuori
  <2>3. SessioneSana' /\ TransazioneSoloInInserisci'
    BY <1>2, <2>2 DEF SessioneSana, TransazioneSoloInInserisci, Solo
  <2>4. Passo(w)
    BY DEF Solo
  <2>5. Passo(w)'
    BY <2>1, <2>4 DEF Passo, InserisciPasso, DopoId, StatsOps
  <2>6. \A v \in Worker : Passo(v)'
    BY <2>5 DEF UnSolo
  <2> QED BY <2>3, <2>6 DEF Solo
<1>3. CASE ConnessioneFallita(w)
  <2>1. con = "nullo" /\ work = db
    BY <1>3, AutoCommitFuori DEF ConnessioneFallita
  <2> QED BY <1>2, <1>3, <2>1 DEF ConnessioneFallita, dbVars
<1>4. CASE StatementInutile(w)
  <2>1. /\ con' = IF con = "nullo" THEN "aperta" ELSE con
        /\ db' = db /\ work' = work /\ Eccezione(w) /\ UNCHANGED <<autoCommit, inTx>>
    BY <1>4 DEF StatementInutile, dbVars
  <2>2. Salva \/ Persa
    BY <2>1
  <2> QED BY <1>2, <2>1, <2>2
<1>5. CASE LinkGiaPerso(w)
  BY <1>2, <1>5 DEF LinkGiaPerso, dbVars
<1>6. CASE CadutaInQuery(w, q)
  BY <1>2, <1>6 DEF CadutaInQuery, Servibile
<1>7. CASE Rifiutata(w, q)
  <2>1. /\ con # "persa" /\ con' = "aperta"
        /\ db' = db /\ work' = work /\ Eccezione(w) /\ UNCHANGED <<autoCommit, inTx>>
    BY <1>7 DEF Rifiutata, Servibile, dbVars
  <2>2. Salva
    BY <2>1
  <2> QED BY <1>2, <2>1, <2>2
<1> QED BY <1>1, <1>3, <1>4, <1>5, <1>6, <1>7 DEF dbQuery

\* The handlers that only read.
LEMMA LettureSolo ==
  ASSUME UnSolo, Solo, Inv', NEW w \in Worker,
         \/ HMLogin(w) \/ HMVisualizzaLobbyId(w) \/ HMVisualizzaUtente(w)
         \/ HMVisualizzaLobby(w) \/ HMGrafico(w),
         UNCHANGED <<req, risposta>>
  PROVE  Solo'
<1> DEFINE r == req[w]
<1>1. Passo(w) /\ loc[w] \in Locale
  BY DEF Solo, Inv, Chiamata
<1>2. CASE HMLogin(w)
  <2>1. r.op = "login" /\ pc[w] \in {"query1", "clear1", "query2", "clear"}
    BY <1>2 DEF HMLogin, In
  <2>2. CASE Leggi(w, [loc[w] EXCEPT !.trovato = Presente(work, r.u, r.flag)], "clear1")
    <3>1. Fatto(Lettura(work).dopo, r, [loc[w] EXCEPT !.trovato = Presente(work, r.u, r.flag)])
      BY <1>1, <2>1 DEF Fatto, Lettura, StatsOps, Locale
    <3> QED BY <2>1, <2>2, <3>1, QuerySolo DEF Leggi, StatsOps
  <2>3. CASE pc[w] = "query2" /\ Leggi(w, loc[w], "clear")
    <3>1. work = db => Fatto(Lettura(work).dopo, r, loc[w])
      BY <1>1, <2>1, <2>3 DEF Passo, Lettura
    <3> QED BY <2>1, <2>3, <3>1, QuerySolo DEF Leggi, StatsOps
  <2>4. CASE pc[w] \in {"clear1", "clear"} /\ \E poi \in {"query2", "conferma"} : ClearConnection(w, poi)
    <3>1. Fatto(db, r, loc[w])
      BY <1>1, <2>1, <2>4 DEF Passo
    <3> QED BY <2>1, <2>4, <3>1, ClearConnectionSolo
  <2> QED BY <1>2, <2>2, <2>3, <2>4 DEF HMLogin, In
<1>3. ASSUME r.op \in {"visualizza_lobby_id", "visualizza_utente", "visualizza_lobby", "grafico"},
             pc[w] # "libero",
             \/ \E dati : \E poi \in {"query2", "query3", "clear"} : Leggi(w, dati, poi)
             \/ \E poi \in {"conferma", "http"} : ClearConnection(w, poi)
      PROVE  Solo'
  <2>1. \A d, v : Fatto(d, r, v)
    BY <1>3 DEF Fatto, StatsOps
  <2>2. CASE \E dati : \E poi \in {"query2", "query3", "clear"} : Leggi(w, dati, poi)
    BY <1>3, <2>1, <2>2, QuerySolo DEF Leggi, StatsOps
  <2>3. CASE \E poi \in {"conferma", "http"} : ClearConnection(w, poi)
    BY <1>3, <2>1, <2>3, ClearConnectionSolo
  <2> QED BY <1>3, <2>2, <2>3
<1>4. CASE HMVisualizzaLobbyId(w)
  BY <1>3, <1>4 DEF HMVisualizzaLobbyId, In
<1>5. CASE HMVisualizzaUtente(w)
  BY <1>3, <1>5 DEF HMVisualizzaUtente, In
<1>6. CASE HMVisualizzaLobby(w)
  BY <1>3, <1>6 DEF HMVisualizzaLobby, In
<1>7. CASE HMGrafico(w)
  BY <1>3, <1>7 DEF HMGrafico, In
<1> QED BY <1>2, <1>4, <1>5, <1>6, <1>7

\* The handlers that write one row, or delete it.
LEMMA ScrittureSolo ==
  ASSUME UnSolo, Solo, Inv', NEW w \in Worker,
         \/ HMPartecipaLobby(w) \/ HMAggiungiUtente(w) \/ HMEliminaUtente(w) \/ HMEliminaLobby(w)
         \/ HMCsStats(w) \/ HMLolStats(w) \/ HMTftStats(w) \/ Registrazione(w),
         UNCHANGED <<req, risposta>>
  PROVE  Solo'
<1> DEFINE r == req[w]
           p == <<<<r.u, r.g>>, r.l>>
<1>1. /\ Passo(w) /\ loc[w] \in Locale
      /\ work \in Db
      /\ r.u \in Utente /\ r.g \in Gioco /\ r.l \in LobbyId /\ r.n \in Nickname /\ r.e \in Email
      /\ p \in Account \X LobbyId /\ <<r.u, r.g>> \in Account
  BY DEF Solo, Inv, Chiamata, Richiesta, Account
<1>2. ASSUME ClearConnection(w, "conferma"), pc[w] = "clear"
      PROVE  Solo'
  BY <1>1, <1>2, ClearConnectionSolo DEF Passo
<1>3. ASSUME r.op # "inserisci_lobby", r.op # "login", r.op \notin StatsOps,
             pc[w] # "libero", NEW q, NEW ids, dbQuery(w, q, ids, loc[w], "clear"),
             Fatto(q.dopo, r, loc[w])
      PROVE  Solo'
  BY <1>3, QuerySolo
<1>4. CASE HMPartecipaLobby(w)
  <2>1. r.op = "partecipa_lobby" /\ pc[w] # "libero"
    BY <1>4 DEF HMPartecipaLobby, In
  <2>2. CASE LeggiRiga(w, HaAccount(work, r.u, r.g), "clear1")
    <3>1. (IF HaAccount(work, r.u, r.g) THEN "clear1" ELSE Gestore(w)) \in {"clear1", "libero"}
      BY <2>1 DEF Gestore
    <3> QED BY <2>1, <2>2, <3>1, QuerySolo DEF LeggiRiga, Leggi, StatsOps
  <2>3. CASE ClearConnection(w, "query2")
    BY <2>1, <2>3, ClearConnectionSolo
  <2>4. CASE Scrivi(w, InsertPrenotazione(work, <<r.u, r.g>>, r.l, "Attesa"), "clear")
    <3>1. InsertPrenotazione(work, <<r.u, r.g>>, r.l, "Attesa").dopo.Prenotazioni[p] = "Attesa"
      BY <1>1 DEF InsertPrenotazione, Db
    <3>2. Fatto(InsertPrenotazione(work, <<r.u, r.g>>, r.l, "Attesa").dopo, r, loc[w])
      BY <2>1, <3>1 DEF Fatto, StatsOps
    <3> QED BY <1>3, <2>1, <2>4, <3>2 DEF Scrivi, StatsOps
  <2> QED BY <1>2, <1>4, <2>2, <2>3, <2>4 DEF HMPartecipaLobby, In
<1>5. CASE HMAggiungiUtente(w)
  <2>1. r.op = "aggiungi_utente" /\ pc[w] # "libero"
    BY <1>5 DEF HMAggiungiUtente, In
  <2>2. CASE Scrivi(w, AccettaPrenotazione(work, <<r.u, r.g>>, r.l), "clear")
    <3>1. AccettaPrenotazione(work, <<r.u, r.g>>, r.l).dopo.Prenotazioni[p] # "Attesa"
      BY <1>1, AplDbAssumption DEF AccettaPrenotazione, Db
    <3>2. Fatto(AccettaPrenotazione(work, <<r.u, r.g>>, r.l).dopo, r, loc[w])
      BY <2>1, <3>1 DEF Fatto, StatsOps
    <3> QED BY <1>3, <2>1, <2>2, <3>2 DEF Scrivi, StatsOps
  <2> QED BY <1>2, <1>5, <2>2 DEF HMAggiungiUtente, In
<1>6. CASE HMEliminaUtente(w)
  <2>1. r.op = "elimina_utente" /\ pc[w] # "libero"
    BY <1>6 DEF HMEliminaUtente, In
  <2>2. CASE Scrivi(w, DeletePrenotazione(work, <<r.u, r.g>>, r.l), "clear")
    <3>1. DeletePrenotazione(work, <<r.u, r.g>>, r.l).dopo.Prenotazioni[p] = Null
      BY <1>1 DEF DeletePrenotazione, Db
    <3>2. Fatto(DeletePrenotazione(work, <<r.u, r.g>>, r.l).dopo, r, loc[w])
      BY <2>1, <3>1 DEF Fatto, StatsOps
    <3> QED BY <1>3, <2>1, <2>2, <3>2 DEF Scrivi, StatsOps
  <2> QED BY <1>2, <1>6, <2>2 DEF HMEliminaUtente, In
<1>7. CASE HMEliminaLobby(w)
  <2>1. r.op = "elimina_lobby" /\ pc[w] # "libero"
    BY <1>7 DEF HMEliminaLobby, In
  <2>2. CASE Scrivi(w, DeleteLobby(work, r.l), "clear")
    <3>1. /\ DeleteLobby(work, r.l).dopo.Lobby[r.l] = Null
          /\ \A a \in Account : DeleteLobby(work, r.l).dopo.Prenotazioni[<<a, r.l>>] = Null
      BY <1>1 DEF DeleteLobby, Db
    <3>2. Fatto(DeleteLobby(work, r.l).dopo, r, loc[w])
      BY <2>1, <3>1 DEF Fatto, StatsOps
    <3> QED BY <1>3, <2>1, <2>2, <3>2 DEF Scrivi, StatsOps
  <2> QED BY <1>2, <1>7, <2>2 DEF HMEliminaLobby, In
<1>8. CASE Registrazione(w)
  <2>1. r.op = "registrazione" /\ pc[w] # "libero"
    BY <1>8 DEF Registrazione, In
  <2>2. CASE dbQuery(w, InsertUtente(work, r.u, r.e), {lastId} \cup LobbyId, loc[w], "clear")
    <3>1. InsertUtente(work, r.u, r.e).dopo.Utenti[r.u] = r.e
      BY <1>1 DEF InsertUtente, Db
    <3>2. Fatto(InsertUtente(work, r.u, r.e).dopo, r, loc[w])
      BY <2>1, <3>1 DEF Fatto, StatsOps
    <3> QED BY <1>3, <2>1, <2>2, <3>2 DEF StatsOps
  <2> QED BY <1>2, <1>8, <2>2 DEF Registrazione, In
<1>9. ASSUME NEW op \in StatsOps, Stats(w, op)
      PROVE  Solo'
  <2>1. /\ r.op = op /\ r.op \in StatsOps /\ pc[w] # "libero"
        /\ r.op # "inserisci_lobby" /\ r.op # "login"
    BY <1>9 DEF Stats, In, StatsOps
  <2>2. db.Utenti[r.u] # Null
    BY <1>1, <2>1 DEF Passo, Noto
  <2>3. CASE \E dati : Leggi(w, dati, "clear1")
    <3>1. work = db => Lettura(work).dopo.Utenti[r.u] # Null
      BY <2>2 DEF Lettura
    <3> QED BY <2>1, <2>3, <3>1, QuerySolo DEF Leggi
  <2>4. CASE \E poi \in {"rifiuta", "query2"} : ClearConnection(w, poi)
    BY <2>1, <2>4, ClearConnectionSolo
  <2>5. CASE dbQuery(w, InsertAccount(work, r.u, r.g, r.n), {lastId} \cup LobbyId, loc[w], "clear")
    <3> DEFINE q == InsertAccount(work, r.u, r.g, r.n)
    <3>1. work = db => q.dopo.Account_Game[<<r.u, r.g>>] = r.n /\ q.dopo.Utenti[r.u] # Null
      BY <1>1, <2>2 DEF InsertAccount, Db
    <3>2. work = db => Fatto(q.dopo, r, loc[w])
      BY <2>1, <3>1 DEF Fatto, StatsOps
    <3> HIDE DEF q
    <3>3. dbQuery(w, q, {lastId} \cup LobbyId, loc[w], "clear")
      BY <2>5 DEF q
    <3> QED BY <2>1, <3>1, <3>2, <3>3, QuerySolo
  <2> QED BY <1>2, <1>9, <2>3, <2>4, <2>5 DEF Stats, In
<1>10. CASE HMCsStats(w) \/ HMLolStats(w) \/ HMTftStats(w)
  BY <1>9, <1>10 DEF HMCsStats, HMLolStats, HMTftStats, StatsOps
<1> QED BY <1>4, <1>5, <1>6, <1>7, <1>8, <1>10

(***************************************************************************)
(* HMInserisciLobby, call by call.                                         *)
(***************************************************************************)

\* The labels at which HMInserisciLobby has its transaction open.
Corpo == {"query1", "clear1", "query2", "clear2", "query3", "clear3", "query4", "commit2",
          "rollback"}

\* A call of its body that leads to another place of the body.
LEMMA CorpoSolo ==
  ASSUME UnSolo, Solo, Inv', NEW w \in Worker, req[w].op = "inserisci_lobby", pc[w] # "libero",
         pc'[w] \in Corpo, UNCHANGED <<req, risposta>>,
         SessioneSana', InserisciPasso(w)'
  PROVE  Solo'
<1>1. TransazioneSoloInInserisci'
  BY DEF TransazioneSoloInInserisci, Corpo
<1>2. risposta'[w] = "nessuna" /\ req'[w].op = "inserisci_lobby"
  BY DEF Solo, Passo
<1>3. Passo(w)'
  BY <1>2 DEF Passo, Corpo, StatsOps
<1>4. \A v \in Worker : Passo(v)'
  BY <1>3 DEF UnSolo
<1> QED BY <1>1, <1>4 DEF Solo

\* dbQuery in its body: an exception leads to the rollback.
LEMMA CorpoQuery ==
  ASSUME UnSolo, Solo, Inv', NEW w \in Worker, req[w].op = "inserisci_lobby",
         pc[w] \in Corpo, NEW q, NEW ids, NEW dati, NEW poi \in Corpo,
         dbQuery(w, q, ids, dati, poi), UNCHANGED <<req, risposta>>,
         Eseguita(w, q, ids, dati, poi) => InserisciPasso(w)'
  PROVE  Solo'
<1>1. pc[w] # "libero" /\ pc[w] # "commit"
  BY DEF Corpo
<1>2. CASE Eseguita(w, q, ids, dati, poi)
  <2>1. pc'[w] = poi
    BY <1>2 DEF Eseguita, Vai, Solo, Inv, Chiamata
  <2>2. /\ con' = "aperta" /\ work' = q.dopo /\ db' = (IF autoCommit THEN q.dopo ELSE db)
        /\ autoCommit' = autoCommit /\ inTx' = ~autoCommit
    BY <1>2 DEF Eseguita
  <2>3. con' # "nullo" /\ con' # "persa"
    BY <2>2
  <2>4. SessioneSana'
    <3>1. CASE autoCommit
      <4>1. autoCommit' /\ ~inTx'
        BY <2>2, <3>1, Zenon
      <4>2. work' = db'
        BY <2>2, <3>1
      <4> QED BY <2>3, <4>1, <4>2 DEF SessioneSana
    <3>2. CASE ~autoCommit
      <4>1. ~autoCommit' /\ inTx'
        BY <2>2, <3>2, Zenon
      <4> QED BY <2>3, <4>1 DEF SessioneSana
    <3> QED BY <3>1, <3>2
  <2> QED BY <1>1, <1>2, <2>1, <2>4, CorpoSolo
<1>3. ASSUME Eccezione(w), SessioneSana'
      PROVE  Solo'
  <2>1. pc'[w] = "rollback"
    BY <1>1, <1>3 DEF Eccezione, Gestore, Vai, Solo, Inv, Chiamata
  <2>2. InserisciPasso(w)'
    BY <2>1 DEF InserisciPasso, DopoId
  <2> QED BY <1>1, <1>3, <2>1, <2>2, CorpoSolo DEF Corpo
<1>4. CASE ConnessioneFallita(w)
  BY <1>3, <1>4 DEF ConnessioneFallita, dbVars, SessioneSana, Solo
<1>5. CASE StatementInutile(w)
  <2>1. /\ con' = IF con = "nullo" THEN "aperta" ELSE con
        /\ db' = db /\ work' = work /\ Eccezione(w) /\ UNCHANGED <<autoCommit, inTx>>
    BY <1>5 DEF StatementInutile, dbVars
  <2>2. con' # "nullo" /\ (con' = "persa" => con = "persa")
    BY <2>1
  <2>3. SessioneSana'
    BY <2>1, <2>2 DEF SessioneSana, Solo
  <2> QED BY <1>3, <2>1, <2>3
<1>6. CASE LinkGiaPerso(w)
  BY <1>3, <1>6 DEF LinkGiaPerso, dbVars, SessioneSana, Solo
<1>7. CASE CadutaInQuery(w, q)
  BY <1>3, <1>7 DEF CadutaInQuery, SessioneSana, Solo
<1>8. CASE Rifiutata(w, q)
  <2>1. /\ con' = "aperta" /\ con # "persa"
        /\ db' = db /\ work' = work /\ Eccezione(w) /\ UNCHANGED <<autoCommit, inTx>>
    BY <1>8 DEF Rifiutata, Servibile, dbVars
  <2>2. con' # "nullo" /\ con' # "persa"
    BY <2>1
  <2>3. SessioneSana'
    BY <2>1, <2>2 DEF SessioneSana, Solo
  <2> QED BY <1>3, <2>1, <2>3
<1> QED BY <1>2, <1>4, <1>5, <1>6, <1>7, <1>8 DEF dbQuery

\* The INSERT INTO Lobby.
LEMMA InsertLobbySolo ==
  ASSUME UnSolo, Solo, Inv', NEW w \in Worker, In(w, "inserisci_lobby", "query1"),
         dbQuery(w, InsertLobby(work, nextId, req[w].u), {nextId}, loc[w], "clear1"),
         UNCHANGED <<req, risposta>>
  PROVE  Solo'
<1> DEFINE q == InsertLobby(work, nextId, req[w].u)
<1>1. ASSUME Eseguita(w, q, {nextId}, loc[w], "clear1")
      PROVE  InserisciPasso(w)'
  <2>1. /\ pc'[w] = "clear1" /\ con' = "aperta" /\ work' = q.dopo
        /\ db' = (IF autoCommit THEN q.dopo ELSE db)
        /\ lastId' = nextId /\ q.ok
    BY <1>1 DEF Eseguita, Vai, Solo, Inv, Chiamata
  <2>2. inTx' \/ autoCommit'
    <3>1. inTx' = ~autoCommit /\ autoCommit' = autoCommit
      BY <1>1 DEF Eseguita
    <3> QED BY <3>1, Zenon
  <2>3. work = db
    BY DEF In, Solo, Passo, InserisciPasso, SessioneSana
  <2>4. nextId \in LobbyId /\ q.dopo.Lobby = [k \in LobbyId |-> IF k = nextId THEN req[w].u ELSE work.Lobby[k]]
    BY <2>1 DEF InsertLobby, Solo, Inv, Chiamata, Db
  <2>5. Filo(w, lastId)'
    BY <2>1, <2>3, <2>4 DEF Filo
  <2>6. con' # "nullo"
    BY <2>1
  <2> QED BY <2>1, <2>2, <2>5, <2>6 DEF InserisciPasso, DopoId
<1> HIDE DEF q
<1>2. dbQuery(w, q, {nextId}, loc[w], "clear1")
  BY DEF q
<1> QED BY <1>1, <1>2, CorpoQuery DEF In, Corpo

\* The two SELECTs after it.
LEMMA SelectSolo ==
  ASSUME UnSolo, Solo, Inv', NEW w \in Worker, req[w].op = "inserisci_lobby",
         \/ pc[w] = "query2" /\ Leggi(w, [loc[w] EXCEPT !.idLobby = lastId], "clear2")
         \/ pc[w] = "query3" /\ LeggiRiga(w, HaAccountConLobby(work, req[w].u, req[w].g), "clear3"),
         UNCHANGED <<req, risposta>>
  PROVE  Solo'
<1>1. InserisciPasso(w) /\ loc[w] \in Locale /\ SessioneSana
  BY DEF Solo, Passo, Inv, Chiamata
<1>2. ASSUME NEW dati, NEW poi \in {"clear2", "clear3", "rollback"},
             Eseguita(w, Lettura(work), {lastId}, dati, poi),
             poi = "clear2" => pc[w] = "query2" /\ dati.idLobby = lastId,
             poi = "clear3" => pc[w] = "query3" /\ dati.idLobby = loc[w].idLobby
      PROVE  InserisciPasso(w)'
  <2>1. /\ pc'[w] = poi /\ con' = "aperta" /\ work' = work /\ con # "persa"
        /\ db' = (IF autoCommit THEN work ELSE db)
        /\ lastId' = lastId /\ loc'[w] = dati
    BY <1>2 DEF Eseguita, Vai, Servibile, Lettura, Solo, Inv, Chiamata
  <2>2. inTx' \/ autoCommit'
    <3>1. inTx' = ~autoCommit /\ autoCommit' = autoCommit
      BY <1>2 DEF Eseguita
    <3> QED BY <3>1, Zenon
  <2>3. db' = db
    BY <1>1, <2>1 DEF SessioneSana
  <2>4. con' # "nullo"
    BY <2>1
  <2>5. poi = "clear2" => Filo(w, lastId)
    BY <1>1, <1>2, <2>1 DEF InserisciPasso, Perduta
  <2>6. poi = "clear3" => Filo(w, loc[w].idLobby)
    BY <1>1, <1>2, <2>1 DEF InserisciPasso, Perduta, DopoId
  <2>7. poi \in {"clear2", "clear3"} => Filo(w, loc[w].idLobby)'
    BY <1>2, <2>1, <2>3, <2>5, <2>6 DEF Filo
  <2> QED BY <2>1, <2>2, <2>4, <2>7 DEF InserisciPasso, DopoId
<1>3. CASE pc[w] = "query2" /\ Leggi(w, [loc[w] EXCEPT !.idLobby = lastId], "clear2")
  <2>1. [loc[w] EXCEPT !.idLobby = lastId].idLobby = lastId
    BY <1>1 DEF Locale
  <2> QED BY <1>2, <1>3, <2>1, CorpoQuery DEF Leggi, Corpo
<1>4. CASE pc[w] = "query3" /\ LeggiRiga(w, HaAccountConLobby(work, req[w].u, req[w].g), "clear3")
  <2>1. Gestore(w) = "rollback"
    BY <1>4 DEF Gestore
  <2>2. \E poi \in {"clear3", "rollback"} : dbQuery(w, Lettura(work), {lastId}, loc[w], poi)
    BY <1>4, <2>1 DEF LeggiRiga, Leggi
  <2> QED BY <1>2, <1>4, <2>2, CorpoQuery DEF Corpo
<1> QED BY <1>3, <1>4

\* The reservation of the creator.
LEMMA InsertPrenotazioneSolo ==
  ASSUME UnSolo, Solo, Inv', NEW w \in Worker, In(w, "inserisci_lobby", "query4"),
         Scrivi(w, InsertPrenotazione(work, <<req[w].u, req[w].g>>, loc[w].idLobby, "Accettato"),
                "commit2"),
         UNCHANGED <<req, risposta>>
  PROVE  Solo'
<1> DEFINE a == <<req[w].u, req[w].g>>
           k == loc[w].idLobby
           q == InsertPrenotazione(work, a, k, "Accettato")
<1>1. InserisciPasso(w) /\ SessioneSana /\ a \in Account /\ work \in Db /\ loc \in [Worker -> Locale]
  BY DEF Solo, Passo, Inv, Chiamata, Richiesta, Account
<1>2. ASSUME Eseguita(w, q, {lastId}, loc[w], "commit2")
      PROVE  InserisciPasso(w)'
  <2>1. /\ pc'[w] = "commit2" /\ con' = "aperta" /\ work' = q.dopo /\ con # "persa"
        /\ db' = (IF autoCommit THEN q.dopo ELSE db)
        /\ loc'[w] = loc[w] /\ q.ok
    BY <1>2, <1>1 DEF Eseguita, Vai, Servibile, Solo, Inv, Chiamata
  <2>2. inTx' \/ autoCommit'
    <3>1. inTx' = ~autoCommit /\ autoCommit' = autoCommit
      BY <1>2 DEF Eseguita
    <3> QED BY <3>1, Zenon
  <2>3. Filo(w, k)
    BY <1>1, <2>1 DEF InserisciPasso, Perduta, DopoId, In
  <2>4. q.dopo.Lobby = work.Lobby /\ q.dopo.Prenotazioni[<<a, k>>] = "Accettato"
    <3>1. <<a, k>> \in Account \X LobbyId
      BY <1>1, <2>3 DEF Filo
    <3> QED BY <1>1, <3>1 DEF InsertPrenotazione, Db
  <2>5. db'.Lobby = db.Lobby
    BY <1>1, <2>1, <2>4 DEF SessioneSana
  <2>6. Filo(w, k)'
    BY <2>1, <2>3, <2>4, <2>5 DEF Filo
  <2>7. con' # "nullo"
    BY <2>1
  <2> HIDE DEF q
  <2> QED BY <2>1, <2>2, <2>4, <2>6, <2>7 DEF InserisciPasso, DopoId
<1> HIDE DEF q
<1>3. dbQuery(w, q, {lastId}, loc[w], "commit2")
  BY DEF Scrivi, q
<1> QED BY <1>2, <1>3, CorpoQuery DEF In, Corpo

\* ClearConnection(1).
LEMMA ClearStatementSolo ==
  ASSUME UnSolo, Solo, Inv', NEW w \in Worker, req[w].op = "inserisci_lobby",
         \/ pc[w] = "clear1" /\ ClearStatement(w, "query2")
         \/ pc[w] = "clear2" /\ ClearStatement(w, "query3")
         \/ pc[w] = "clear3" /\ ClearStatement(w, "query4"),
         UNCHANGED <<req, risposta>>
  PROVE  Solo'
<1>1. InserisciPasso(w) /\ SessioneSana
  BY DEF Solo, Passo
<1>2. UNCHANGED <<db, work, con, autoCommit, inTx, lastId, loc>>
  BY DEF ClearStatement, dbVars
<1>3. \/ pc[w] = "clear1" /\ pc'[w] = "query2"
      \/ pc[w] = "clear2" /\ pc'[w] = "query3"
      \/ pc[w] = "clear3" /\ pc'[w] = "query4"
  BY DEF ClearStatement, Vai, Solo, Inv, Chiamata
<1>4. SessioneSana'
  BY <1>1, <1>2 DEF SessioneSana
<1>5. InserisciPasso(w)'
  BY <1>1, <1>2, <1>3 DEF InserisciPasso, DopoId, Perduta, Filo
<1> QED BY <1>3, <1>4, <1>5, CorpoSolo DEF Corpo

\* A Commit that meets a connection leaves it, and what it sees.
LEMMA CommitSana ==
  ASSUME SessioneSana, NEW w, NEW poi, Commit(w, poi)
  PROVE  SessioneSana'
<1>1. CASE CommitApre(w, poi)
  BY <1>1 DEF CommitApre, SessioneSana, dbVars
<1>2. CASE CommitConferma(w, poi)
  <2>1. CASE UNCHANGED <<dbVars, con, inTx>>
    BY <1>2, <2>1 DEF CommitConferma, SessioneSana, dbVars
  <2>2. CASE inTx /\ con = "aperta" /\ db' = work /\ inTx' = FALSE /\ UNCHANGED <<work, con>>
    <3>1. ~inTx' /\ work' = db' /\ con' = "aperta"
      BY <2>2
    <3> QED BY <3>1 DEF SessioneSana
  <2>3. CASE con' = "persa" /\ work' = db' /\ inTx /\ UNCHANGED inTx
    BY <1>2, <2>3 DEF CommitConferma, SessioneSana
  <2> QED BY <1>2, <2>1, <2>2, <2>3 DEF CommitConferma
<1> QED BY <1>1, <1>2 DEF Commit

\* The first Commit, outside the try.
LEMMA CommitUnoSolo ==
  ASSUME UnSolo, Solo, Inv', NEW w \in Worker, In(w, "inserisci_lobby", "commit"),
         Commit(w, "query1"), UNCHANGED <<req, risposta>>
  PROVE  Solo'
<1>1. SessioneSana'
  BY CommitSana DEF Solo
<1>2. con = "aperta" => autoCommit
  BY DEF Solo, TransazioneSoloInInserisci, UnSolo, In
<1>3. CASE pc'[w] = "query1" /\ con' # "nullo" /\ ~inTx'
  <2>1. InserisciPasso(w)'
    BY <1>3 DEF InserisciPasso, DopoId
  <2> QED BY <1>1, <1>3, <2>1, CorpoSolo DEF Corpo, In
<1>4. CASE pc'[w] = "libero" /\ loc' = loc /\ con' # "aperta"
  <2>1. TransazioneSoloInInserisci'
    BY <1>4 DEF TransazioneSoloInInserisci
  <2>2. risposta'[w] = "nessuna"
    BY DEF Solo, Passo, In
  <2>3. Passo(w)'
    BY <1>4, <2>2 DEF Passo, InserisciPasso, DopoId
  <2>4. \A v \in Worker : Passo(v)'
    BY <2>3 DEF UnSolo
  <2> QED BY <1>1, <2>1, <2>4 DEF Solo
<1>5. Gestore(w) = "libero"
  BY DEF Gestore, In
<1>6. Vai(w, "query1") => pc'[w] = "query1"
  BY DEF Vai, Solo, Inv, Chiamata
<1>7. Eccezione(w) => pc'[w] = "libero" /\ loc' = loc
  BY <1>5 DEF Eccezione, Vai, Solo, Inv, Chiamata
<1>8. CASE CommitApre(w, "query1")
  <2>1. ~inTx'
    BY <1>8 DEF CommitApre, Solo, SessioneSana
  <2>2. CASE con' = "aperta" /\ Vai(w, "query1")
    <3>1. con' # "nullo"
      BY <2>2
    <3> QED BY <1>3, <1>6, <2>1, <2>2, <3>1
  <2>3. CASE con' \in {"nullo", "persa"} /\ Eccezione(w)
    <3>1. con' # "aperta"
      BY <2>3
    <3> QED BY <1>4, <1>7, <2>3, <3>1
  <2> QED BY <1>8, <2>2, <2>3 DEF CommitApre
<1>9. CASE CommitConferma(w, "query1")
  <2>1. con = "aperta" => ~inTx
    BY <1>2 DEF Solo, SessioneSana
  <2> QED BY <1>3, <1>4, <1>6, <1>7, <1>9, <2>1 DEF CommitConferma
<1> QED BY <1>8, <1>9 DEF Commit

\* The second Commit: what it goes on from is committed.
LEMMA CommitDueSolo ==
  ASSUME UnSolo, Solo, Inv', NEW w \in Worker, In(w, "inserisci_lobby", "commit2"),
         Commit(w, "clear"), UNCHANGED <<req, risposta>>
  PROVE  Solo'
<1> DEFINE r == req[w]
           k == loc[w].idLobby
<1>1. /\ InserisciPasso(w) /\ SessioneSana
      /\ con # "nullo" /\ (autoCommit \/ inTx)
      /\ r.op = "inserisci_lobby" /\ pc[w] = "commit2"
  BY DEF Solo, Passo, InserisciPasso, In, DopoId
<1>2. SessioneSana'
  BY <1>1, CommitSana
<1>3. ~Perduta => Filo(w, k) /\ work.Prenotazioni[<<<<r.u, r.g>>, k>>] = "Accettato"
  BY <1>1 DEF InserisciPasso, DopoId
<1>4. ~Perduta => Fatto(work, r, loc[w])
  BY <1>1, <1>3 DEF Fatto, Filo, StatsOps
<1>5. CASE pc'[w] = "clear" /\ loc' = loc /\ db' = work /\ ~Perduta
  <2>1. TransazioneSoloInInserisci'
    BY <1>1, <1>5 DEF TransazioneSoloInInserisci
  <2>2. risposta'[w] = "nessuna"
    BY <1>1 DEF Solo, Passo
  <2>3. Fatto(db', req'[w], loc'[w])
    BY <1>4, <1>5
  <2>4. Passo(w)'
    BY <1>1, <1>5, <2>2, <2>3 DEF Passo, InserisciPasso, DopoId, StatsOps
  <2>5. \A v \in Worker : Passo(v)'
    BY <2>4 DEF UnSolo
  <2> QED BY <1>2, <2>1, <2>5 DEF Solo
<1>6. CASE Eccezione(w)
  <2>1. pc'[w] = "rollback"
    BY <1>1, <1>6 DEF Eccezione, Gestore, Vai, Solo, Inv, Chiamata
  <2>2. InserisciPasso(w)'
    BY <2>1 DEF InserisciPasso, DopoId
  <2> QED BY <1>1, <1>2, <2>1, <2>2, CorpoSolo DEF Corpo
<1>7. Vai(w, "clear") => pc'[w] = "clear"
  BY DEF Vai, Solo, Inv, Chiamata
<1>8. CommitConferma(w, "clear")
  BY <1>1 DEF Commit, CommitApre
<1>9. ~inTx => work = db
  BY <1>1 DEF SessioneSana
<1> QED BY <1>5, <1>6, <1>7, <1>8, <1>9 DEF CommitConferma, Perduta, dbVars

\* RollBack, in the catch.
LEMMA RollBackSolo ==
  ASSUME UnSolo, Solo, Inv', NEW w \in Worker, In(w, "inserisci_lobby", "rollback"),
         RollBack(w, "rifiuta"), UNCHANGED <<req, risposta>>
  PROVE  Solo'
<1>1. /\ pc'[w] \in {"rifiuta", "libero"} /\ loc' = loc /\ db' = db
      /\ req[w].op = "inserisci_lobby" /\ pc[w] = "rollback"
  BY DEF RollBack, Vai, In, Solo, Inv, Chiamata, dbVars
<1>2. SessioneSana' /\ con' # "aperta"
  <2>1. CASE con = "nullo" /\ UNCHANGED <<dbVars, conVars>>
    BY <2>1 DEF dbVars, conVars, SessioneSana, Solo
  <2>2. CASE con' = "nullo" /\ SessioneFinita
    <3>1. autoCommit' /\ ~inTx'
      BY <2>2, Zenon DEF SessioneFinita
    <3>2. work' = db' /\ con' # "aperta"
      BY <1>1, <2>2 DEF SessioneFinita
    <3> QED BY <3>1, <3>2 DEF SessioneSana
  <2>3. CASE con = "persa" /\ UNCHANGED <<dbVars, conVars>>
    BY <2>3 DEF dbVars, conVars, SessioneSana, Solo
  <2>4. CASE con' = "persa" /\ work' = db /\ UNCHANGED <<db, autoCommit, inTx>>
    BY <2>4 DEF SessioneSana, Solo
  <2> QED BY <2>1, <2>2, <2>3, <2>4 DEF RollBack
<1>3. TransazioneSoloInInserisci'
  BY <1>2 DEF TransazioneSoloInInserisci
<1>4. risposta'[w] = "nessuna"
  BY <1>1 DEF Solo, Passo
<1>5. Passo(w)'
  BY <1>1, <1>4 DEF Passo, InserisciPasso, DopoId, StatsOps
<1>6. \A v \in Worker : Passo(v)'
  BY <1>5 DEF UnSolo
<1> QED BY <1>2, <1>3, <1>6 DEF Solo

\* The whole handler.
LEMMA InserisciSolo ==
  ASSUME UnSolo, Solo, Inv', NEW w \in Worker, HMInserisciLobby(w), UNCHANGED <<req, risposta>>
  PROVE  Solo'
<1>1. CASE In(w, "inserisci_lobby", "clear") /\ ClearConnection(w, "conferma")
  <2>1. Fatto(db, req[w], loc[w]) /\ pc[w] # "libero"
    BY <1>1 DEF In, Solo, Passo
  <2> QED BY <1>1, <2>1, ClearConnectionSolo
<1>2. HMInserisciLobby(w) => req[w].op = "inserisci_lobby"
  BY DEF HMInserisciLobby, In
<1> QED BY <1>1, <1>2, InsertLobbySolo, SelectSolo, InsertPrenotazioneSolo, ClearStatementSolo,
           CommitUnoSolo, CommitDueSolo, RollBackSolo
        DEF HMInserisciLobby, In

\* Every step of a server with one worker preserves the invariant.
LEMMA NextSolo == UnSolo /\ Solo /\ [Next]_vars => Solo'
<1> SUFFICES ASSUME UnSolo, Solo, [Next]_vars PROVE Solo'
  OBVIOUS
<1>1. Inv'
  BY NextInv DEF Solo
<1>2. ASSUME NEW w \in Worker, Ricevi(w)
      PROVE  Solo'
  <2>1. PICK op \in Ops : \E r \in Messaggi(op) :
          /\ Sensata(r)
          /\ req' = [req EXCEPT ![w] = r]
          /\ pc' = [pc EXCEPT ![w] = Primo(op)]
    BY <1>2 DEF Ricevi
  <2>2. PICK r \in Messaggi(op) :
          /\ Sensata(r)
          /\ req' = [req EXCEPT ![w] = r]
          /\ pc' = [pc EXCEPT ![w] = Primo(op)]
    BY <2>1
  <2>3. r.op = op
    BY DEF Messaggi
  <2>4. /\ req'[w] = r /\ pc'[w] = Primo(r.op) /\ risposta'[w] = "nessuna"
        /\ pc[w] = "libero"
        /\ UNCHANGED <<db, work, con, stmt, autoCommit, inTx, lastId>>
    BY <1>2, <2>2, <2>3 DEF Ricevi, Solo, Inv, Chiamata, dbVars, conVars
  <2>5. con = "aperta" => autoCommit
    BY <2>4 DEF Solo, TransazioneSoloInInserisci, UnSolo
  <2>6. SessioneSana' /\ TransazioneSoloInInserisci'
    BY <2>4, <2>5 DEF SessioneSana, TransazioneSoloInInserisci, Solo
  <2>7. r.op \in StatsOps => Noto(r.u)
    BY <2>2 DEF Sensata, StatsOps
  <2>8. Passo(w)'
    BY <2>4, <2>7 DEF Passo, InserisciPasso, DopoId, Primo, Noto, StatsOps
  <2>9. \A v \in Worker : Passo(v)'
    BY <2>8 DEF UnSolo
  <2> QED BY <1>1, <2>6, <2>9 DEF Solo
<1>3. ASSUME NEW w \in Worker, Lavora(w)
      PROVE  Solo'
  <2>1. CASE Gestisci(w) /\ UNCHANGED <<req, risposta>>
    BY <1>1, <2>1, LettureSolo, ScrittureSolo DEF Gestisci
  <2>2. CASE HMInserisciLobby(w) /\ UNCHANGED <<req, risposta>>
    BY <1>1, <2>2, InserisciSolo
  <2>3. CASE Invia(w)
    <3>1. /\ pc[w] \in {"conferma", "rifiuta", "riporta"}
          /\ pc'[w] = "libero" /\ risposta'[w] = pc[w]
          /\ UNCHANGED <<db, work, con, stmt, autoCommit, inTx, lastId, req, loc>>
      BY <2>3 DEF Invia, Vai, Solo, Inv, Chiamata, dbVars, conVars
    <3>2. con = "aperta" => autoCommit
      BY <3>1 DEF Solo, TransazioneSoloInInserisci, UnSolo
    <3>3. SessioneSana' /\ TransazioneSoloInInserisci'
      BY <3>1, <3>2 DEF SessioneSana, TransazioneSoloInInserisci, Solo
    <3>4. Passo(w)'
      BY <3>1 DEF Solo, Passo, InserisciPasso, DopoId
    <3>5. \A v \in Worker : Passo(v)'
      BY <3>4 DEF UnSolo
    <3> QED BY <1>1, <3>3, <3>5 DEF Solo
  <2> QED BY <1>3, <2>1, <2>2, <2>3 DEF Lavora
<1>4. ASSUME NEW w \in Worker, RispostaPython(w)
      PROVE  Solo'
  <2>1. /\ pc[w] = "http"
        /\ pc'[w] \in {"riporta", "query1"}
        /\ pc'[w] = "query1" => req[w].op \in StatsOps
        /\ UNCHANGED <<db, work, con, stmt, autoCommit, inTx, lastId, req, loc, risposta>>
    BY <1>4 DEF RispostaPython, Vai, Solo, Inv, Chiamata, dbVars, conVars
  <2>2. SessioneSana' /\ TransazioneSoloInInserisci'
    BY <2>1 DEF SessioneSana, TransazioneSoloInInserisci, Solo, UnSolo
  <2>3. Passo(w)'
    BY <2>1 DEF Solo, Passo, InserisciPasso, DopoId, StatsOps, Noto
  <2>4. \A v \in Worker : Passo(v)'
    BY <2>3 DEF UnSolo
  <2> QED BY <1>1, <2>2, <2>4 DEF Solo
<1>5. CASE LinkCade
  <2>1. /\ con = "aperta" /\ con' = "persa" /\ work' = db
        /\ UNCHANGED <<db, stmt, autoCommit, inTx, lastId, pc, req, loc, risposta>>
    BY <1>5 DEF LinkCade, wrkVars
  <2>2. SessioneSana' /\ TransazioneSoloInInserisci'
    BY <2>1 DEF SessioneSana, TransazioneSoloInInserisci, Solo
  <2>3. ~inTx => work' = work
    BY <2>1 DEF Solo, SessioneSana
  <2>4. ASSUME NEW w \in Worker
        PROVE  Passo(w)'
    BY <2>1, <2>3 DEF Solo, Passo, InserisciPasso, Perduta, Filo, Noto
  <2> QED BY <1>1, <2>2, <2>4 DEF Solo
<1>6. CASE Riavvio
  <2>1. /\ con' = "nullo" /\ work' = db /\ db' = db
        /\ pc' = [w \in Worker |-> "libero"] /\ risposta' = [w \in Worker |-> "nessuna"]
    BY <1>6 DEF Riavvio, SessioneFinita
  <2>2. autoCommit' /\ ~inTx'
    BY <1>6, Zenon DEF Riavvio, SessioneFinita
  <2>3. SessioneSana' /\ TransazioneSoloInInserisci'
    BY <2>1, <2>2 DEF SessioneSana, TransazioneSoloInInserisci
  <2>4. ASSUME NEW w \in Worker
        PROVE  Passo(w)'
    BY <2>1 DEF Passo, InserisciPasso, DopoId
  <2> QED BY <1>1, <2>3, <2>4 DEF Solo
<1>7. CASE UNCHANGED vars
  BY <1>1, <1>7 DEF vars, dbVars, conVars, wrkVars, Solo, SessioneSana, TransazioneSoloInInserisci,
     Passo, InserisciPasso, DopoId, Perduta, Filo, Noto
<1> QED BY <1>2, <1>3, <1>4, <1>5, <1>6, <1>7 DEF Next

(***************************************************************************)
(* The theorems.                                                           *)
(***************************************************************************)

\* A server with one worker: what it confirms is in the committed database.
THEOREM ConfermaVeraSolo ==
  ASSUME UnSolo
  PROVE  Spec => []ConfermaVera
<1>1. Init => Solo
  BY InitSolo
<1>2. Solo /\ [Next]_vars => Solo'
  BY NextSolo
<1>3. Solo => ConfermaVera
  BY SoloImplica
<1> QED BY <1>1, <1>2, <1>3, PTL DEF Spec

\* A server with one worker: no session that withholds its writes outlives the
\* inserisci_lobby that opened it.
THEOREM TransazioneSolo ==
  ASSUME UnSolo
  PROVE  Spec => []TransazioneSoloInInserisci
<1>1. Init => Solo
  BY InitSolo
<1>2. Solo /\ [Next]_vars => Solo'
  BY NextSolo
<1>3. Solo => TransazioneSoloInInserisci
  BY SoloImplica
<1> QED BY <1>1, <1>2, <1>3, PTL DEF Spec
=============================================================================
