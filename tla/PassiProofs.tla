----------------------------- MODULE PassiProofs -----------------------------
(***************************************************************************)
(* What a step of the server may never do: get dbManager stuck by itself,  *)
(* commit half of inserisci_lobby, take an acceptance back; and, all steps *)
(* together, change the committed tables otherwise than ServizioLobby      *)
(* does.                                                                   *)
(***************************************************************************)
EXTENDS SoloProofs

(***************************************************************************)
(* What gets dbManager stuck, for any number of workers.                   *)
(***************************************************************************)

\* A bounded failure adds one.
LEMMA GuastoCresce ==
  ASSUME Inv, Guasto
  PROVE  guasti' > guasti
BY DEF Inv, Chiamata, Guasto

\* A query that finds dbManager not stuck leaves it so, unless the link fails.
LEMMA QueryNonIncaglia ==
  ASSUME Inv, ~Incagliato, NEW w, NEW q, NEW ids, NEW dati, NEW poi, dbQuery(w, q, ids, dati, poi)
  PROVE  guasti' > guasti \/ ~Incagliato'
<1>1. CASE Guasto
  BY <1>1, GuastoCresce
<1>2. ~StatementInutile(w) /\ ~LinkGiaPerso(w)
  BY DEF Incagliato, StatementInutile, LinkGiaPerso
<1>3. CASE Rifiutata(w, q)
  BY <1>3 DEF Rifiutata, Incagliato
<1>4. CASE Eseguita(w, q, ids, dati, poi)
  BY <1>4 DEF Eseguita, Incagliato
<1> QED BY <1>1, <1>2, <1>3, <1>4 DEF dbQuery, ConnessioneFallita, CadutaInQuery

\* Nor does Commit.
LEMMA CommitNonIncaglia ==
  ASSUME Inv, ~Incagliato, NEW w, NEW poi, Commit(w, poi)
  PROVE  guasti' > guasti \/ ~Incagliato'
<1>1. CASE Guasto
  BY <1>1, GuastoCresce
<1>2. CASE ~Guasto
  BY <1>2 DEF Commit, CommitApre, CommitConferma, Incagliato
<1> QED BY <1>1, <1>2

\* ClearConnection and ClearStatement free it.
LEMMA ClearNonIncaglia ==
  ASSUME ~Incagliato, NEW w, NEW poi, ClearConnection(w, poi) \/ ClearStatement(w, poi)
  PROVE  ~Incagliato'
BY DEF ClearConnection, ClearStatement, Incagliato

\* The handlers other than inserisci_lobby make no other call.
LEMMA GestisciChiama ==
  ASSUME NEW w, Gestisci(w)
  PROVE  \/ \E q, ids, dati, poi : dbQuery(w, q, ids, dati, poi)
         \/ \E poi : ClearConnection(w, poi)
<1>1. CASE HMLogin(w) \/ HMVisualizzaLobbyId(w) \/ HMVisualizzaUtente(w) \/ HMGrafico(w)
  BY <1>1 DEF HMLogin, HMVisualizzaLobbyId, HMVisualizzaUtente, HMGrafico, Leggi
<1>2. CASE HMVisualizzaLobby(w)
  BY <1>2 DEF HMVisualizzaLobby, Leggi
<1>3. CASE HMPartecipaLobby(w) \/ HMAggiungiUtente(w) \/ HMEliminaUtente(w) \/ HMEliminaLobby(w)
  BY <1>3 DEF HMPartecipaLobby, HMAggiungiUtente, HMEliminaUtente, HMEliminaLobby,
              LeggiRiga, Leggi, Scrivi
<1>4. CASE HMCsStats(w) \/ HMLolStats(w) \/ HMTftStats(w) \/ Registrazione(w)
  BY <1>4 DEF HMCsStats, HMLolStats, HMTftStats, Stats, Registrazione, Leggi
<1> QED BY <1>1, <1>2, <1>3, <1>4 DEF Gestisci

\* The calls of inserisci_lobby, with the label each is made at.
LEMMA InserisciChiama ==
  ASSUME NEW w, HMInserisciLobby(w)
  PROVE  \/ \E q, ids, dati, poi : dbQuery(w, q, ids, dati, poi)
         \/ \E poi : ClearConnection(w, poi) \/ ClearStatement(w, poi)
         \/ In(w, "inserisci_lobby", "commit") /\ Commit(w, "query1")
         \/ In(w, "inserisci_lobby", "commit2") /\ Commit(w, "clear")
         \/ In(w, "inserisci_lobby", "rollback") /\ RollBack(w, "rifiuta")
BY DEF HMInserisciLobby, LeggiRiga, Leggi, Scrivi

\* One step.
LEMMA PassoIncaglio ==
  ASSUME Inv, [Next]_vars, ~Incagliato, Incagliato'
  PROVE  guasti' > guasti \/ \E w \in Worker : pc[w] = "rollback"
<1>1. ASSUME NEW w \in Worker, Ricevi(w) \/ RispostaPython(w) \/ Invia(w)
      PROVE  FALSE
  BY <1>1 DEF Ricevi, RispostaPython, Invia, conVars, Incagliato
<1>2. ASSUME NEW w \in Worker, Gestisci(w)
      PROVE  guasti' > guasti
  BY <1>2, GestisciChiama, QueryNonIncaglia, ClearNonIncaglia
<1>3. ASSUME NEW w \in Worker, HMInserisciLobby(w)
      PROVE  guasti' > guasti \/ pc[w] = "rollback"
  BY <1>3, InserisciChiama, QueryNonIncaglia, CommitNonIncaglia, ClearNonIncaglia DEF In
<1>4. CASE LinkCade \/ Riavvio
  BY <1>4, GuastoCresce DEF LinkCade, Riavvio
<1>5. CASE UNCHANGED vars
  BY <1>5 DEF vars, conVars, Incagliato
<1> QED BY <1>1, <1>2, <1>3, <1>4, <1>5 DEF Next, Lavora

(***************************************************************************)
(* What a session that Commit opened commits.                              *)
(***************************************************************************)

\* A query commits nothing in it.
LEMMA QueryNonConferma ==
  ASSUME ~autoCommit, NEW w, NEW q, NEW ids, NEW dati, NEW poi, dbQuery(w, q, ids, dati, poi)
  PROVE  db' = db
BY DEF dbQuery, ConnessioneFallita, StatementInutile, LinkGiaPerso, CadutaInQuery, Rifiutata,
       Eseguita, dbVars

\* The first Commit of a handler does not meet it.
LEMMA PrimoCommit ==
  ASSUME UnSolo, Solo, ~autoCommit, NEW w \in Worker, In(w, "inserisci_lobby", "commit"),
         Commit(w, "query1")
  PROVE  db' = db
<1>1. con # "nullo"
  BY DEF Solo, SessioneSana
<1>2. con # "aperta"
  BY DEF Solo, TransazioneSoloInInserisci, UnSolo, In
<1> QED BY <1>1, <1>2 DEF Commit, CommitApre, CommitConferma, dbVars

\* The second commits what the session holds, or nothing.
LEMMA SecondoCommit ==
  ASSUME UnSolo, Solo, ~autoCommit, NEW w \in Worker, In(w, "inserisci_lobby", "commit2"),
         Commit(w, "clear")
  PROVE  \/ db' = db
         \/ /\ db' = work /\ Filo(w, loc[w].idLobby)
            /\ work.Prenotazioni[<<<<req[w].u, req[w].g>>, loc[w].idLobby>>] = "Accettato"
<1>1. Passo(w)
  BY DEF Solo
<1>2. InserisciPasso(w)
  BY <1>1 DEF Passo
<1>3. con = "aperta" => Filo(w, loc[w].idLobby) /\
        work.Prenotazioni[<<<<req[w].u, req[w].g>>, loc[w].idLobby>>] = "Accettato"
  BY <1>2 DEF InserisciPasso, DopoId, In, Perduta
<1>4. db' = db \/ (con = "aperta" /\ db' = work)
  BY DEF Commit, CommitApre, CommitConferma, dbVars
<1> QED BY <1>3, <1>4

\* One step.
LEMMA PassoAtomico ==
  ASSUME UnSolo, Solo, [Next]_vars, ~autoCommit, NEW l \in LobbyId,
         db.Lobby[l] = Null, db'.Lobby[l] # Null
  PROVE  \E g \in Gioco : db'.Prenotazioni[<<<<db'.Lobby[l], g>>, l>>] = "Accettato"
<1>1. ASSUME NEW w \in Worker, Ricevi(w) \/ RispostaPython(w) \/ Invia(w)
      PROVE  db' = db
  BY <1>1 DEF Ricevi, RispostaPython, Invia, dbVars
<1>2. ASSUME NEW w \in Worker, Gestisci(w)
      PROVE  db' = db
  BY <1>2, GestisciChiama, QueryNonConferma DEF ClearConnection
<1>3. ASSUME NEW w \in Worker, HMInserisciLobby(w), db' # db
      PROVE  \E g \in Gioco : db'.Prenotazioni[<<<<db'.Lobby[l], g>>, l>>] = "Accettato"
  <2>1. CASE \E q, ids, dati, poi : dbQuery(w, q, ids, dati, poi)
    BY <1>3, <2>1, QueryNonConferma
  <2>2. CASE \E poi : ClearConnection(w, poi) \/ ClearStatement(w, poi)
    BY <1>3, <2>2 DEF ClearConnection, ClearStatement, dbVars
  <2>3. CASE In(w, "inserisci_lobby", "commit") /\ Commit(w, "query1")
    BY <1>3, <2>3, PrimoCommit
  <2>4. CASE In(w, "inserisci_lobby", "commit2") /\ Commit(w, "clear")
    <3>1. /\ db' = work /\ Filo(w, loc[w].idLobby)
          /\ work.Prenotazioni[<<<<req[w].u, req[w].g>>, loc[w].idLobby>>] = "Accettato"
      BY <1>3, <2>4, SecondoCommit
    <3>2. l = loc[w].idLobby /\ db'.Lobby[l] = req[w].u
      BY <3>1 DEF Filo
    <3>3. req[w].g \in Gioco
      BY DEF Solo, Inv, Chiamata, Richiesta
    <3> QED BY <3>1, <3>2, <3>3
  <2>5. CASE RollBack(w, "rifiuta")
    BY <1>3, <2>5 DEF RollBack, dbVars
  <2> QED BY <1>3, <2>1, <2>2, <2>3, <2>4, <2>5, InserisciChiama
<1>4. CASE LinkCade \/ Riavvio
  BY <1>4 DEF LinkCade, Riavvio
<1>5. CASE UNCHANGED vars
  BY <1>5 DEF vars, dbVars
<1> QED BY <1>1, <1>2, <1>3, <1>4, <1>5 DEF Next, Lavora

(***************************************************************************)
(* The theorems.                                                           *)
(***************************************************************************)

\* Whatever the number of workers, only a failure of the link, or RollBack, gets
\* dbManager stuck: no exception of a handler that leaves its pointers behind.
THEOREM IncaglioCausato == Spec => IncaglioHaCausa
<1>1. Init => Inv
  BY InitInv
<1>2. Inv /\ [Next]_vars => Inv'
  BY NextInv
<1>3. Inv /\ [Next]_vars =>
        [~Incagliato /\ Incagliato' => guasti' > guasti \/ \E w \in Worker : pc[w] = "rollback"]_vars
  BY PassoIncaglio
<1> QED BY <1>1, <1>2, <1>3, PTL DEF Spec, IncaglioHaCausa

\* A server with one worker: a lobby inserted in a transaction appears in the
\* committed database together with its creator's accepted reservation.
THEOREM LobbyAtomicaSolo ==
  ASSUME UnSolo
  PROVE  Spec => LobbyAtomica
<1>1. Init => Solo
  BY InitSolo
<1>2. Solo /\ [Next]_vars => Solo'
  BY NextSolo
<1>3. Solo /\ [Next]_vars =>
        [\A l \in LobbyId :
           db.Lobby[l] = Null /\ db'.Lobby[l] # Null /\ ~autoCommit
           => \E g \in Gioco : db'.Prenotazioni[<<<<db'.Lobby[l], g>>, l>>] = "Accettato"]_vars
  BY PassoAtomico
<1> QED BY <1>1, <1>2, <1>3, PTL DEF Spec, LobbyAtomica

-----------------------------------------------------------------------------
(***************************************************************************)
(* A server with one worker never takes an accepted reservation back to    *)
(* pending: a transaction sees the committed reservations as they are, so  *)
(* what it commits keeps them.                                             *)
(***************************************************************************)

Chiavi == Account \X LobbyId

\* From d to e: reservations are added, accepted or deleted.
Rispetta(d, e) ==
  \A p \in Chiavi : d.Prenotazioni[p] = "Accettato" => e.Prenotazioni[p] \in {"Accettato", Null}

\* From d to e: reservations are only added.
Aggiunge(d, e) ==
  \A p \in Chiavi : d.Prenotazioni[p] # Null => e.Prenotazioni[p] = d.Prenotazioni[p]

\* The invariant: an open session sees what is committed.
Accettati == Solo /\ Aggiunge(db, work)

\* A database whose reservations are the same.
LEMMA PrenotazioniUguali ==
  ASSUME NEW d, NEW e, e.Prenotazioni = d.Prenotazioni
  PROVE  Rispetta(d, e) /\ Aggiunge(d, e)
BY DEF Rispetta, Aggiunge

(***************************************************************************)
(* The statements.                                                         *)
(***************************************************************************)

\* Those on other tables.
LEMMA AltriStatement ==
  ASSUME NEW d \in Db, NEW u \in Utente, NEW e, NEW g \in Gioco, NEW n, NEW l
  PROVE  /\ Rispetta(d, Lettura(d).dopo) /\ Aggiunge(d, Lettura(d).dopo)
         /\ Rispetta(d, InsertUtente(d, u, e).dopo)
         /\ Rispetta(d, InsertAccount(d, u, g, n).dopo)
         /\ Aggiunge(d, InsertLobby(d, l, u).dopo)
<1>1. Lettura(d).dopo.Prenotazioni = d.Prenotazioni
  BY DEF Lettura
<1>2. InsertUtente(d, u, e).dopo.Prenotazioni = d.Prenotazioni
  BY DEF InsertUtente, Db
<1>3. InsertAccount(d, u, g, n).dopo.Prenotazioni = d.Prenotazioni
  BY DEF InsertAccount, Lettura, Db
<1>4. InsertLobby(d, l, u).dopo.Prenotazioni = d.Prenotazioni
  BY DEF InsertLobby, Db
<1> QED BY <1>1, <1>2, <1>3, <1>4, PrenotazioniUguali

\* The primary key lets a reservation only be added.
LEMMA InsertPrenotazioneAggiunge ==
  ASSUME NEW d \in Db, NEW a, NEW l, NEW s, InsertPrenotazione(d, a, l, s).ok
  PROVE  LET e == InsertPrenotazione(d, a, l, s).dopo IN Rispetta(d, e) /\ Aggiunge(d, e)
<1> DEFINE e == InsertPrenotazione(d, a, l, s).dopo
<1>1. e.Prenotazioni = [k \in Chiavi |-> IF k = <<a, l>> THEN s ELSE d.Prenotazioni[k]]
  BY DEF InsertPrenotazione, Db, Chiavi
<1>2. d.Prenotazioni[<<a, l>>] = Null
  BY DEF InsertPrenotazione
<1>3. "Accettato" # Null
  BY AplDbAssumption
<1> HIDE DEF e
<1>4. Rispetta(d, e) /\ Aggiunge(d, e)
  BY <1>1, <1>2, <1>3 DEF Rispetta, Aggiunge
<1> QED BY <1>4 DEF e

\* The others on reservations.
LEMMA PrenotazioniRispettate ==
  ASSUME NEW d \in Db, NEW a, NEW l
  PROVE  /\ Rispetta(d, AccettaPrenotazione(d, a, l).dopo)
         /\ Rispetta(d, DeletePrenotazione(d, a, l).dopo)
         /\ Rispetta(d, DeleteLobby(d, l).dopo)
<1>1. \A p \in Chiavi : AccettaPrenotazione(d, a, l).dopo.Prenotazioni[p] =
        IF p = <<a, l>> THEN (IF d.Prenotazioni[p] = Null THEN Null ELSE "Accettato")
                        ELSE d.Prenotazioni[p]
  BY DEF AccettaPrenotazione, Db, Chiavi
<1>2. \A p \in Chiavi : DeletePrenotazione(d, a, l).dopo.Prenotazioni[p] =
        IF p = <<a, l>> THEN Null ELSE d.Prenotazioni[p]
  BY DEF DeletePrenotazione, Db, Chiavi
<1>3. \A p \in Chiavi : DeleteLobby(d, l).dopo.Prenotazioni[p] =
        IF p[2] = l THEN Null ELSE d.Prenotazioni[p]
  BY DEF DeleteLobby, Db, Chiavi
<1>4. Rispetta(d, AccettaPrenotazione(d, a, l).dopo)
  BY <1>1 DEF Rispetta
<1>5. Rispetta(d, DeletePrenotazione(d, a, l).dopo)
  BY <1>2 DEF Rispetta
<1>6. Rispetta(d, DeleteLobby(d, l).dopo)
  BY <1>3 DEF Rispetta
<1> QED BY <1>4, <1>5, <1>6

(***************************************************************************)
(* The handlers: the queries they make.                                    *)
(***************************************************************************)

\* A query of a handler other than inserisci_lobby respects what was accepted.
LEMMA GestisciRispetta ==
  ASSUME Inv, NEW w \in Worker, Gestisci(w)
  PROVE  \/ \E q, ids, dati, poi : /\ dbQuery(w, q, ids, dati, poi)
                                   /\ q.ok => Rispetta(work, q.dopo)
                                   /\ req[w].op # "inserisci_lobby"
         \/ \E poi : ClearConnection(w, poi)
<1> DEFINE r == req[w]
<1>1. work \in Db /\ r.u \in Utente /\ r.g \in Gioco
  BY DEF Inv, Chiamata, Richiesta
<1>2. Rispetta(work, Lettura(work).dopo)
  BY <1>1, AltriStatement
<1>3. CASE HMLogin(w) \/ HMVisualizzaLobbyId(w) \/ HMVisualizzaUtente(w) \/ HMGrafico(w)
           \/ HMVisualizzaLobby(w)
  BY <1>2, <1>3 DEF HMLogin, HMVisualizzaLobbyId, HMVisualizzaUtente, HMGrafico,
                    HMVisualizzaLobby, Leggi, In
<1>4. CASE HMPartecipaLobby(w)
  <2>1. LET q == InsertPrenotazione(work, <<r.u, r.g>>, r.l, "Attesa")
        IN  q.ok => Rispetta(work, q.dopo)
    BY <1>1, InsertPrenotazioneAggiunge
  <2> QED BY <1>2, <1>4, <2>1 DEF HMPartecipaLobby, LeggiRiga, Leggi, Scrivi, In
<1>5. CASE HMAggiungiUtente(w)
  <2>1. Rispetta(work, AccettaPrenotazione(work, <<r.u, r.g>>, r.l).dopo)
    BY <1>1, PrenotazioniRispettate
  <2> QED BY <1>5, <2>1 DEF HMAggiungiUtente, Scrivi, In
<1>6. CASE HMEliminaUtente(w)
  <2>1. Rispetta(work, DeletePrenotazione(work, <<r.u, r.g>>, r.l).dopo)
    BY <1>1, PrenotazioniRispettate
  <2> QED BY <1>6, <2>1 DEF HMEliminaUtente, Scrivi, In
<1>7. CASE HMEliminaLobby(w)
  <2>1. Rispetta(work, DeleteLobby(work, r.l).dopo)
    BY <1>1, PrenotazioniRispettate
  <2> QED BY <1>7, <2>1 DEF HMEliminaLobby, Scrivi, In
<1>8. CASE HMCsStats(w) \/ HMLolStats(w) \/ HMTftStats(w)
  <2>1. Rispetta(work, InsertAccount(work, r.u, r.g, r.n).dopo)
    BY <1>1, AltriStatement
  <2> QED BY <1>2, <1>8, <2>1 DEF HMCsStats, HMLolStats, HMTftStats, Stats, Leggi, In
<1>9. CASE Registrazione(w)
  <2>1. Rispetta(work, InsertUtente(work, r.u, r.e).dopo)
    BY <1>1, AltriStatement
  <2> QED BY <1>9, <2>1 DEF Registrazione, In
<1> QED BY <1>3, <1>4, <1>5, <1>6, <1>7, <1>8, <1>9 DEF Gestisci

\* A query of inserisci_lobby only adds.
LEMMA InserisciAggiunge ==
  ASSUME Inv, NEW w \in Worker, HMInserisciLobby(w)
  PROVE  \/ \E q, ids, dati, poi : dbQuery(w, q, ids, dati, poi) /\ (q.ok => Aggiunge(work, q.dopo))
         \/ \E poi : ClearConnection(w, poi) \/ ClearStatement(w, poi)
         \/ \E poi : Commit(w, poi)
         \/ RollBack(w, "rifiuta")
<1> DEFINE r == req[w]
           q == InsertPrenotazione(work, <<r.u, r.g>>, loc[w].idLobby, "Accettato")
<1>1. work \in Db /\ r.u \in Utente /\ r.g \in Gioco
  BY DEF Inv, Chiamata, Richiesta
<1>2. Aggiunge(work, Lettura(work).dopo) /\ Aggiunge(work, InsertLobby(work, nextId, r.u).dopo)
  BY <1>1, AltriStatement
<1>3. q.ok => Aggiunge(work, q.dopo)
  BY <1>1, InsertPrenotazioneAggiunge
<1> QED BY <1>2, <1>3 DEF HMInserisciLobby, LeggiRiga, Leggi, Scrivi

(***************************************************************************)
(* The steps.                                                              *)
(***************************************************************************)

\* What only adds respects, too.
LEMMA AggiungeRispetta ==
  ASSUME NEW d, NEW e, Aggiunge(d, e)
  PROVE  Rispetta(d, e)
<1>1. "Accettato" # Null
  BY AplDbAssumption
<1> QED BY <1>1 DEF Aggiunge, Rispetta

\* A query, which must only add when it does not commit.
LEMMA QueryAccettati ==
  ASSUME Accettati, NEW w, NEW q, NEW ids, NEW dati, NEW poi, dbQuery(w, q, ids, dati, poi),
         q.ok => Rispetta(work, q.dopo),
         con # "persa" /\ ~autoCommit /\ q.ok => Aggiunge(work, q.dopo)
  PROVE  Rispetta(db, db') /\ Aggiunge(db', work')
<1>1. autoCommit => work = db
  BY DEF Accettati, Solo, SessioneSana
<1>2. Aggiunge(db, db) /\ Rispetta(db, db)
  BY PrenotazioniUguali
<1>3. CASE Eseguita(w, q, ids, dati, poi)
  <2>1. con # "persa" /\ q.ok /\ work' = q.dopo
    BY <1>3 DEF Eseguita, Servibile
  <2>2. CASE autoCommit
    <3>1. db' = q.dopo
      BY <1>3, <2>2 DEF Eseguita
    <3> QED BY <1>1, <2>1, <2>2, <3>1, PrenotazioniUguali
  <2>3. CASE ~autoCommit
    <3>1. db' = db
      BY <1>3, <2>3 DEF Eseguita
    <3>2. Aggiunge(work, work')
      BY <2>1, <2>3
    <3>3. Aggiunge(db, work')
      BY <3>2 DEF Accettati, Aggiunge
    <3> QED BY <1>2, <3>1, <3>3
  <2> QED BY <2>2, <2>3
<1>4. CASE CadutaInQuery(w, q)
  <2>1. work' = db' /\ (db' = db \/ (q.ok /\ autoCommit /\ db' = q.dopo))
    BY <1>4 DEF CadutaInQuery
  <2> QED BY <1>1, <1>2, <2>1, PrenotazioniUguali
<1>5. CASE db' = db /\ work' = work
  BY <1>2, <1>5 DEF Accettati
<1> QED BY <1>3, <1>4, <1>5 DEF dbQuery, ConnessioneFallita, StatementInutile, LinkGiaPerso,
                                Rifiutata, dbVars

\* One step: the rest of the invariant, and the property.
LEMMA PassoAccettati ==
  ASSUME UnSolo, Accettati, [Next]_vars
  PROVE  Rispetta(db, db') /\ Aggiunge(db', work')
<1>1. Aggiunge(db, db) /\ Rispetta(db, db) /\ Aggiunge(work, work) /\ Inv
  BY PrenotazioniUguali DEF Accettati, Solo
<1>2. CASE db' = db /\ (work' = work \/ work' = db)
  BY <1>1, <1>2 DEF Accettati
<1>3. CASE db' = work /\ work' = work
  BY <1>1, <1>3, AggiungeRispetta DEF Accettati
<1>4. ASSUME NEW w \in Worker, Ricevi(w) \/ RispostaPython(w) \/ Invia(w)
      PROVE  db' = db /\ work' = work
  BY <1>4 DEF Ricevi, RispostaPython, Invia, dbVars
<1>5. ASSUME NEW w \in Worker, Gestisci(w)
      PROVE  Rispetta(db, db') /\ Aggiunge(db', work')
  <2>1. CASE \E poi : ClearConnection(w, poi)
    BY <1>2, <2>1 DEF ClearConnection, SessioneFinita
  <2>2. CASE \E q, ids, dati, poi : /\ dbQuery(w, q, ids, dati, poi)
                                    /\ q.ok => Rispetta(work, q.dopo)
                                    /\ req[w].op # "inserisci_lobby"
    <3>1. con # "persa" => autoCommit
      BY <2>2, AutoCommitFuori DEF Accettati
    <3> QED BY <2>2, <3>1, QueryAccettati
  <2> QED BY <1>1, <1>5, <2>1, <2>2, GestisciRispetta
<1>6. ASSUME NEW w \in Worker, HMInserisciLobby(w)
      PROVE  Rispetta(db, db') /\ Aggiunge(db', work')
  <2>1. CASE \E q, ids, dati, poi : dbQuery(w, q, ids, dati, poi) /\ (q.ok => Aggiunge(work, q.dopo))
    BY <2>1, QueryAccettati, AggiungeRispetta
  <2>2. CASE \E poi : ClearConnection(w, poi) \/ ClearStatement(w, poi)
    BY <1>2, <2>2 DEF ClearConnection, ClearStatement, SessioneFinita, dbVars
  <2>3. CASE \E poi : Commit(w, poi)
    <3>1. \/ db' = db /\ (work' = work \/ work' = db)
          \/ db' = work /\ work' = work
      BY <2>3 DEF Commit, CommitApre, CommitConferma, dbVars
    <3> QED BY <1>2, <1>3, <3>1
  <2>4. CASE RollBack(w, "rifiuta")
    BY <1>2, <2>4 DEF RollBack, SessioneFinita, dbVars
  <2> QED BY <1>1, <1>6, <2>1, <2>2, <2>3, <2>4, InserisciAggiunge
<1>7. CASE LinkCade \/ Riavvio
  BY <1>2, <1>7 DEF LinkCade, Riavvio, SessioneFinita
<1>8. CASE UNCHANGED vars
  BY <1>2, <1>8 DEF vars, dbVars
<1> QED BY <1>2, <1>4, <1>5, <1>6, <1>7, <1>8 DEF Next, Lavora

(***************************************************************************)
(* The theorem.                                                            *)
(***************************************************************************)

\* A server with one worker: an accepted reservation stays accepted until it is
\* deleted, whatever messages, failures and restarts there are in between.
THEOREM AccettatoRestaSolo ==
  ASSUME UnSolo
  PROVE  Spec => AccettatoResta
<1>1. Init => Accettati
  BY InitSolo, PrenotazioniUguali DEF Init, Accettati
<1>2. Accettati /\ [Next]_vars => Accettati'
  BY NextSolo, PassoAccettati DEF Accettati
<1>3. Accettati /\ [Next]_vars =>
        [\A p \in Account \X LobbyId :
           db.Prenotazioni[p] = "Accettato" => db'.Prenotazioni[p] \in {"Accettato", Null}]_vars
  BY PassoAccettati DEF Rispetta, Chiavi
<1> QED BY <1>1, <1>2, <1>3, PTL DEF Spec, AccettatoResta

-----------------------------------------------------------------------------
(***************************************************************************)
(* The server implements ServizioLobby, with one worker.                   *)
(***************************************************************************)

\* From d to e: u has opened the lobby k, and may be in it already.
Pendente(d, e, u, g, k) ==
  /\ d.Lobby[k] = Null
  /\ e.Utenti = d.Utenti /\ e.Account_Game = d.Account_Game
  /\ e.Lobby = [d.Lobby EXCEPT ![k] = u]
  /\ \A p \in Chiavi : p # <<<<u, g>>, k>> => e.Prenotazioni[p] = d.Prenotazioni[p]
  /\ e.Prenotazioni[<<<<u, g>>, k>>] \in {Null, "Accettato"}

\* The handler in w has inserted its lobby and not come to the second Commit.
InLobby(w) == req[w].op = "inserisci_lobby" /\ pc[w] \in {"clear1", "query2"} \cup DopoId

\* What the session has and the database has not is one lobby at most; it is
\* there as long as its transaction goes on.
Sospesa ==
  /\ \/ work = db
     \/ \E w \in Worker : \E k \in LobbyId :
          req[w].op = "inserisci_lobby" /\ Pendente(db, work, req[w].u, req[w].g, k)
  /\ con = "aperta" /\ ~autoCommit => \A w \in Worker : InLobby(w) => work # db

Chiuse(d, e, n) == {l \in LobbyId : l < n /\ d.Lobby[l] = Null /\ e.Lobby[l] = Null}

\* A step of the service, or none.
Serve == [Servizio!Next]_(Servizio!vars)

\* The service has not moved.
LEMMA Fermo ==
  ASSUME db' = db, Chiuse(db, work, nextId)' = Chiuse(db, work, nextId)
  PROVE  Serve
BY DEF Serve, Chiuse, Servizio!vars

\* An id is lost.
LEMMA Scartata ==
  ASSUME NEW k \in LobbyId, db' = db, db.Lobby[k] = Null,
         Chiuse(db, work, nextId)' = Chiuse(db, work, nextId) \cup {k}
  PROVE  Serve
<1>1. Servizio!Scarta(k)
  BY DEF Servizio!Scarta, Chiuse
<1>2. CASE Chiuse(db, work, nextId)' = Chiuse(db, work, nextId)
  BY <1>2, Fermo
<1>3. CASE Chiuse(db, work, nextId)' # Chiuse(db, work, nextId)
  <2>1. Servizio!Next
    BY <1>1, <1>3 DEF Servizio!Next, Chiuse
  <2> QED BY <2>1 DEF Serve
<1> QED BY <1>2, <1>3

\* The session ends, with what it had not committed.
LEMMA SessionePersa ==
  ASSUME Inv, Sospesa, db' = db, work' = db, nextId' = nextId
  PROVE  Serve
<1>1. CASE work = db
  BY <1>1, Fermo DEF Chiuse
<1>2. ASSUME NEW w \in Worker, NEW k \in LobbyId, Pendente(db, work, req[w].u, req[w].g, k)
      PROVE  Serve
  <2>1. req[w].u \in Utente /\ req[w].u # Null /\ db \in Db /\ work \in Db
    BY AplDbAssumption DEF Inv, Chiamata, Richiesta
  <2>2. work.Lobby[k] # Null /\ \A l \in LobbyId : l # k => work.Lobby[l] = db.Lobby[l]
    BY <1>2, <2>1 DEF Pendente, Db
  <2>3. nextId \in Int /\ LobbyId \subseteq Int
    BY AplDbAssumption DEF Inv, LobbyId
  <2>4. k < nextId
    BY <2>2, <2>3 DEF Inv, Freschi
  <2>5. Chiuse(db, work, nextId)' = Chiuse(db, work, nextId) \cup {k}
    BY <1>2, <2>2, <2>4 DEF Chiuse, Pendente
  <2> QED BY <1>2, <2>5, Scartata DEF Pendente
<1> QED BY <1>1, <1>2 DEF Sospesa

\* The tables change, and no lobby does.
LEMMA LobbyFerme ==
  ASSUME work = db, work' = db', db'.Lobby = db.Lobby, nextId' = nextId
  PROVE  Chiuse(db, work, nextId)' = Chiuse(db, work, nextId)
BY DEF Chiuse

(***************************************************************************)
(* The statements, in a session that commits each of them.                 *)
(***************************************************************************)

\* Executed and committed at once.
Subito(q) == work = db /\ q.ok /\ db' = q.dopo /\ work' = q.dopo

LEMMA LetturaServe ==
  ASSUME Subito(Lettura(work)), nextId' = nextId
  PROVE  Serve
BY Fermo DEF Subito, Lettura, Chiuse

LEMMA UtenteServe ==
  ASSUME Inv, NEW u \in Utente, NEW e \in Email, Subito(InsertUtente(work, u, e)), nextId' = nextId
  PROVE  Serve
<1>1. /\ db \in Db /\ db' = [db EXCEPT !.Utenti[u] = e] /\ work' = db' /\ work = db
      /\ db.Utenti[u] = Null /\ \A v \in Utente : db.Utenti[v] # e
  BY DEF Subito, InsertUtente, Inv, Chiamata
<1>2. /\ db'.Utenti = [db.Utenti EXCEPT ![u] = e]
      /\ db'.Account_Game = db.Account_Game /\ db'.Lobby = db.Lobby
      /\ db'.Prenotazioni = db.Prenotazioni
  BY <1>1 DEF Db
<1>3. Chiuse(db, work, nextId)' = Chiuse(db, work, nextId)
  BY <1>1, <1>2, LobbyFerme
<1>4. Servizio!Registra(u, e)
  BY <1>1, <1>2, <1>3 DEF Servizio!Registra, Chiuse
<1>5. db'.Utenti # db.Utenti
  <2>1. e # Null /\ db'.Utenti[u] = e
    BY <1>1, <1>2, AplDbAssumption DEF Db
  <2> QED BY <1>1, <2>1
<1> QED BY <1>4, <1>5 DEF Serve, Servizio!Next, Servizio!UtentiCambia

LEMMA AccountServe ==
  ASSUME Inv, NEW u \in Utente, NEW g \in Gioco, NEW n \in Nickname,
         Subito(InsertAccount(work, u, g, n)), nextId' = nextId
  PROVE  Serve
<1>1. CASE work.Utenti[u] = Null
  BY <1>1, LetturaServe DEF InsertAccount
<1>2. CASE work.Utenti[u] # Null
  <2>1. /\ db \in Db /\ db' = [db EXCEPT !.Account_Game[<<u, g>>] = n] /\ work' = db' /\ work = db
        /\ db.Account_Game[<<u, g>>] = Null /\ \A v \in Utente : db.Account_Game[<<v, g>>] # n
    BY <1>2 DEF Subito, InsertAccount, NicknameUsato, Inv, Chiamata
  <2>2. /\ db'.Account_Game = [db.Account_Game EXCEPT ![<<u, g>>] = n]
        /\ db'.Utenti = db.Utenti /\ db'.Lobby = db.Lobby /\ db'.Prenotazioni = db.Prenotazioni
    BY <2>1 DEF Db
  <2>3. Chiuse(db, work, nextId)' = Chiuse(db, work, nextId)
    BY <2>1, <2>2, LobbyFerme
  <2>4. Servizio!Collega(u, g, n)
    BY <1>2, <2>1, <2>2, <2>3 DEF Servizio!Collega, Chiuse
  <2>5. db'.Account_Game # db.Account_Game
    <3>1. n # Null /\ db'.Account_Game[<<u, g>>] = n
      BY <2>1, <2>2, AplDbAssumption DEF Db, Account
    <3> QED BY <2>1, <3>1
  <2> QED BY <2>4, <2>5 DEF Serve, Servizio!Next, Servizio!AccountCambia
<1> QED BY <1>1, <1>2

\* A step that changes one reservation.
LEMMA PrenotazioneServe ==
  ASSUME Inv, work = db, work' = db', nextId' = nextId,
         NEW u \in Utente, NEW g \in Gioco, NEW l \in LobbyId, NEW s,
         db' = [db EXCEPT !.Prenotazioni[<<<<u, g>>, l>>] = s],
         LET a == <<u, g>>  prima == db.Prenotazioni[<<a, l>>] IN
           \/ s = prima
           \/ s = Null
           \/ s = "Accettato" /\ prima = "Attesa"
           \/ s = "Attesa" /\ prima = Null /\ db.Account_Game[a] # Null /\ db.Lobby[l] # Null
           \/ s = "Accettato" /\ prima = Null /\ db.Account_Game[a] # Null /\ db.Lobby[l] = u
  PROVE  Serve
<1> DEFINE a == <<u, g>>
           prima == db.Prenotazioni[<<a, l>>]
<1>1. db \in Db /\ <<a, l>> \in Chiavi
  BY DEF Inv, Chiamata, Chiavi, Account
<1>2. /\ db'.Prenotazioni = [db.Prenotazioni EXCEPT ![<<a, l>>] = s]
      /\ db'.Utenti = db.Utenti /\ db'.Lobby = db.Lobby /\ db'.Account_Game = db.Account_Game
  BY <1>1 DEF Db
<1>3. Chiuse(db, work, nextId)' = Chiuse(db, work, nextId)
  BY <1>2, LobbyFerme
<1>4. CASE s = prima
  <2>1. db' = db
    BY <1>1, <1>4 DEF Db, Chiavi
  <2> QED BY <1>3, <2>1, Fermo
<1>5. CASE s # prima
  <2>1. db'.Prenotazioni # db.Prenotazioni
    <3>1. db'.Prenotazioni[<<a, l>>] = s
      BY <1>1, <1>2 DEF Db, Chiavi
    <3> QED BY <1>5, <3>1
  <2>2. CASE s = Null
    <3>1. Servizio!Ritira(a, l)
      BY <1>2, <1>3, <1>5, <2>2 DEF Servizio!Ritira, Chiuse
    <3> QED BY <2>1, <3>1 DEF Serve, Servizio!Next, Servizio!PrenotazioniCambiano
  <2>3. CASE s = "Accettato" /\ prima = "Attesa"
    <3>1. Servizio!Accetta(a, l)
      BY <1>2, <1>3, <2>3 DEF Servizio!Accetta, Chiuse
    <3> QED BY <2>1, <3>1 DEF Serve, Servizio!Next, Servizio!PrenotazioniCambiano
  <2>4. CASE s = "Attesa" /\ prima = Null /\ db.Account_Game[a] # Null /\ db.Lobby[l] # Null
    <3>1. Servizio!Prenota(a, l)
      BY <1>2, <1>3, <2>4 DEF Servizio!Prenota, Chiuse
    <3> QED BY <2>1, <3>1 DEF Serve, Servizio!Next, Servizio!PrenotazioniCambiano
  <2>5. CASE s = "Accettato" /\ prima = Null /\ db.Account_Game[a] # Null /\ db.Lobby[l] = u
    <3>1. u # Null
      BY AplDbAssumption
    <3>2. Servizio!EntraProprietario(g, l)
      BY <1>2, <1>3, <2>5, <3>1 DEF Servizio!EntraProprietario, Chiuse
    <3> QED BY <2>1, <3>2 DEF Serve, Servizio!Next, Servizio!PrenotazioniCambiano
  <2> QED BY <1>5, <2>2, <2>3, <2>4, <2>5
<1> QED BY <1>4, <1>5

\* The statements on reservations.
LEMMA InsertPrenotazioneServe ==
  ASSUME Inv, NEW u \in Utente, NEW g \in Gioco, NEW l, NEW s \in {"Attesa", "Accettato"},
         Subito(InsertPrenotazione(work, <<u, g>>, l, s)), nextId' = nextId,
         s = "Accettato" => db.Lobby[l] = u
  PROVE  Serve
<1>1. /\ work = db /\ work' = db' /\ db \in Db /\ l \in LobbyId
      /\ db.Account_Game[<<u, g>>] # Null /\ db.Lobby[l] # Null
      /\ db.Prenotazioni[<<<<u, g>>, l>>] = Null
      /\ db' = InsertPrenotazione(db, <<u, g>>, l, s).dopo
  BY DEF Subito, InsertPrenotazione, Inv, Chiamata
<1>2. db' = [db EXCEPT !.Prenotazioni[<<<<u, g>>, l>>] = s]
  <2>1. [k \in Account \X LobbyId |-> IF k = <<<<u, g>>, l>> THEN s ELSE db.Prenotazioni[k]]
        = [db.Prenotazioni EXCEPT ![<<<<u, g>>, l>>] = s]
    BY <1>1 DEF Db
  <2> QED BY <1>1, <2>1 DEF InsertPrenotazione
<1> QED BY <1>1, <1>2, PrenotazioneServe

LEMMA AccettaServe ==
  ASSUME Inv, NEW u \in Utente, NEW g \in Gioco, NEW l \in LobbyId,
         Subito(AccettaPrenotazione(work, <<u, g>>, l)), nextId' = nextId
  PROVE  Serve
<1> DEFINE p == <<<<u, g>>, l>>
           s == IF db.Prenotazioni[p] = Null THEN Null ELSE "Accettato"
<1>1. work = db /\ work' = db' /\ db \in Db /\ p \in Chiavi
  BY DEF Subito, Inv, Chiamata, Chiavi, Account
<1>2. db' = [db EXCEPT !.Prenotazioni[p] = s]
  <2>1. db' = AccettaPrenotazione(db, <<u, g>>, l).dopo
    BY <1>1 DEF Subito
  <2>2. AccettaPrenotazione(db, <<u, g>>, l).dopo = [db EXCEPT !.Prenotazioni[p] = s]
    BY DEF AccettaPrenotazione
  <2> QED BY <2>1, <2>2
<1>3. db.Prenotazioni[p] \in {"Attesa", "Accettato", Null}
  BY <1>1 DEF Db, Chiavi, Stato
<1> HIDE DEF s
<1>4. s = db.Prenotazioni[p] \/ (s = "Accettato" /\ db.Prenotazioni[p] = "Attesa")
  BY <1>3 DEF s
<1> QED BY <1>1, <1>2, <1>4, PrenotazioneServe

LEMMA DeleteServe ==
  ASSUME Inv, NEW u \in Utente, NEW g \in Gioco, NEW l \in LobbyId,
         Subito(DeletePrenotazione(work, <<u, g>>, l)), nextId' = nextId
  PROVE  Serve
<1>1. /\ work = db /\ work' = db'
      /\ db' = [db EXCEPT !.Prenotazioni[<<<<u, g>>, l>>] = Null]
  BY DEF Subito, DeletePrenotazione
<1> QED BY <1>1, PrenotazioneServe

\* The deletion of a lobby: of one that is open, or of none.
LEMMA DeleteLobbyServe ==
  ASSUME Inv, NEW l \in LobbyId, Subito(DeleteLobby(work, l)), nextId' = nextId
  PROVE  Serve
<1>1. work = db /\ work' = db' /\ db' = DeleteLobby(db, l).dopo /\ db \in Db
  BY DEF Subito, Inv, Chiamata
<1>2. /\ db'.Lobby = [db.Lobby EXCEPT ![l] = Null]
      /\ db'.Prenotazioni = [k \in Chiavi |-> IF k[2] = l THEN Null ELSE db.Prenotazioni[k]]
      /\ db'.Utenti = db.Utenti /\ db'.Account_Game = db.Account_Game
  BY <1>1 DEF DeleteLobby, Db, Chiavi
<1>3. CASE db.Lobby[l] = Null
  <2>1. db'.Lobby = db.Lobby
    BY <1>1, <1>2, <1>3 DEF Db
  <2>2. \A k \in Chiavi : k[2] = l => db.Prenotazioni[k] = Null
    BY <1>3 DEF Inv, Chiamata, Integrita, PrenotazioniReferenziate, Chiavi
  <2>3. db'.Prenotazioni = db.Prenotazioni
    BY <1>1, <1>2, <2>2 DEF Db, Chiavi
  <2>4. Chiuse(db, work, nextId)' = Chiuse(db, work, nextId)
    BY <1>1, <2>1, LobbyFerme
  <2> QED BY <1>2, <2>1, <2>3, <2>4 DEF Serve, Servizio!vars, Chiuse
<1>4. CASE db.Lobby[l] # Null
  <2>1. nextId \in Int /\ LobbyId \subseteq Int
    BY AplDbAssumption DEF Inv, LobbyId
  <2>2. l < nextId
    BY <1>4, <2>1 DEF Inv, Freschi
  <2>3. db'.Lobby[l] = Null /\ \A k \in LobbyId : k # l => db'.Lobby[k] = db.Lobby[k]
    BY <1>1, <1>2 DEF Db
  <2>4. Chiuse(db, work, nextId)' = Chiuse(db, work, nextId) \cup {l}
    BY <1>1, <2>2, <2>3 DEF Chiuse
  <2>5. DOMAIN db.Prenotazioni = Chiavi
    BY <1>1 DEF Db, Chiavi
  <2>6. Servizio!Chiude(l)
    BY <1>2, <1>4, <2>4, <2>5 DEF Servizio!Chiude, Chiuse
  <2>7. db'.Lobby # db.Lobby
    BY <1>4, <2>3
  <2> QED BY <2>6, <2>7 DEF Serve, Servizio!Next, Servizio!LobbyCambia
<1> QED BY <1>3, <1>4

(***************************************************************************)
(* The handlers.                                                           *)
(***************************************************************************)

\* A query of a handler other than inserisci_lobby is committed, or does nothing.
LEMMA QueryFuori ==
  ASSUME UnSolo, Solo, NEW w \in Worker, req[w].op # "inserisci_lobby",
         NEW q, NEW ids, NEW dati, NEW poi, dbQuery(w, q, ids, dati, poi)
  PROVE  work = db /\ work' = db' /\ (db' = db \/ Subito(q))
<1>1. work = db
  BY VedeIlDb
<1>2. CASE Eseguita(w, q, ids, dati, poi)
  <2>1. autoCommit
    BY <1>2, AutoCommitFuori DEF Eseguita, Servibile
  <2> QED BY <1>1, <1>2, <2>1 DEF Eseguita, Subito
<1>3. CASE CadutaInQuery(w, q)
  BY <1>1, <1>3 DEF CadutaInQuery, Subito
<1> QED BY <1>1, <1>2, <1>3 DEF dbQuery, ConnessioneFallita, StatementInutile, LinkGiaPerso,
                                Rifiutata, dbVars

\* The statements those handlers execute are steps of the service.
LEMMA GestisciSubito ==
  ASSUME Inv, NEW w \in Worker, Gestisci(w)
  PROVE  \/ \E q, ids, dati, poi : /\ dbQuery(w, q, ids, dati, poi)
                                   /\ Subito(q) => Serve
                                   /\ req[w].op # "inserisci_lobby"
         \/ \E poi : ClearConnection(w, poi)
<1> DEFINE r == req[w]
<1>1. /\ r.u \in Utente /\ r.g \in Gioco /\ r.l \in LobbyId /\ r.n \in Nickname /\ r.e \in Email
      /\ nextId' = nextId
  BY DEF Inv, Chiamata, Richiesta, Gestisci
<1>2. Subito(Lettura(work)) => Serve
  BY <1>1, LetturaServe
<1>3. CASE HMLogin(w) \/ HMVisualizzaLobbyId(w) \/ HMVisualizzaUtente(w) \/ HMGrafico(w)
           \/ HMVisualizzaLobby(w)
  BY <1>2, <1>3 DEF HMLogin, HMVisualizzaLobbyId, HMVisualizzaUtente, HMGrafico,
                    HMVisualizzaLobby, Leggi, In
<1>4. CASE HMPartecipaLobby(w)
  <2>1. Subito(InsertPrenotazione(work, <<r.u, r.g>>, r.l, "Attesa")) => Serve
    BY <1>1, InsertPrenotazioneServe
  <2> QED BY <1>2, <1>4, <2>1 DEF HMPartecipaLobby, LeggiRiga, Leggi, Scrivi, In
<1>5. CASE HMAggiungiUtente(w)
  <2>1. Subito(AccettaPrenotazione(work, <<r.u, r.g>>, r.l)) => Serve
    BY <1>1, AccettaServe
  <2> QED BY <1>5, <2>1 DEF HMAggiungiUtente, Scrivi, In
<1>6. CASE HMEliminaUtente(w)
  <2>1. Subito(DeletePrenotazione(work, <<r.u, r.g>>, r.l)) => Serve
    BY <1>1, DeleteServe
  <2> QED BY <1>6, <2>1 DEF HMEliminaUtente, Scrivi, In
<1>7. CASE HMEliminaLobby(w)
  <2>1. Subito(DeleteLobby(work, r.l)) => Serve
    BY <1>1, DeleteLobbyServe
  <2> QED BY <1>7, <2>1 DEF HMEliminaLobby, Scrivi, In
<1>8. CASE HMCsStats(w) \/ HMLolStats(w) \/ HMTftStats(w)
  <2>1. Subito(InsertAccount(work, r.u, r.g, r.n)) => Serve
    BY <1>1, AccountServe
  <2> QED BY <1>2, <1>8, <2>1 DEF HMCsStats, HMLolStats, HMTftStats, Stats, Leggi, In
<1>9. CASE Registrazione(w)
  <2>1. Subito(InsertUtente(work, r.u, r.e)) => Serve
    BY <1>1, UtenteServe
  <2> QED BY <1>9, <2>1 DEF Registrazione, In
<1> QED BY <1>3, <1>4, <1>5, <1>6, <1>7, <1>8, <1>9 DEF Gestisci

LEMMA GestisciServe ==
  ASSUME UnSolo, Solo, Sospesa, NEW w \in Worker, Gestisci(w), req' = req
  PROVE  Serve /\ Sospesa'
<1>1. Inv /\ nextId' = nextId
  BY DEF Solo, Gestisci
<1>2. CASE \E poi : ClearConnection(w, poi)
  <2>1. db' = db /\ work' = db /\ con' = "nullo"
    BY <1>2 DEF ClearConnection, SessioneFinita
  <2> QED BY <1>1, <2>1, SessionePersa DEF Sospesa
<1>3. ASSUME NEW q, NEW ids, NEW dati, NEW poi, dbQuery(w, q, ids, dati, poi),
             Subito(q) => Serve, req[w].op # "inserisci_lobby"
      PROVE  Serve /\ Sospesa'
  <2>1. work = db /\ work' = db' /\ (db' = db \/ Subito(q))
    BY <1>3, QueryFuori
  <2>2. \A v \in Worker : ~InLobby(v)'
    BY <1>3 DEF InLobby, UnSolo
  <2> QED BY <1>1, <1>3, <2>1, <2>2, SessionePersa DEF Sospesa
<1> QED BY <1>1, <1>2, <1>3, GestisciSubito

\* INSERT INTO Lobby: the lobby is open, or will be at Commit, or its id is lost.
LEMMA InsertLobbyServe ==
  ASSUME UnSolo, Solo, Sospesa, NEW w \in Worker, In(w, "inserisci_lobby", "query1"),
         dbQuery(w, InsertLobby(work, nextId, req[w].u), {nextId}, loc[w], "clear1"),
         IdConsumato, req' = req
  PROVE  Serve /\ Sospesa'
<1> DEFINE u == req[w].u
           q == InsertLobby(work, nextId, u)
<1>1. /\ work = db /\ db \in Db /\ u \in Utente /\ req[w].g \in Gioco /\ u # Null
      /\ req[w].op = "inserisci_lobby" /\ PrenotazioniReferenziate(db)
  <2>1. work = db /\ req[w].op = "inserisci_lobby"
    BY DEF In, Solo, Passo, InserisciPasso, SessioneSana
  <2> QED BY <2>1, AplDbAssumption DEF Solo, Inv, Chiamata, Richiesta, Integrita
<1>2. /\ nextId \in Int /\ nextId >= 1 /\ LobbyId \subseteq Int
      /\ nextId <= MaxLobby => nextId \in LobbyId
      /\ \A l \in LobbyId : l >= nextId => db.Lobby[l] = Null
  BY AplDbAssumption DEF Solo, Inv, LobbyId, Freschi
<1>3. q.ok => /\ nextId \in LobbyId /\ db.Utenti[u] # Null
              /\ q.dopo.Lobby = [db.Lobby EXCEPT ![nextId] = u]
              /\ q.dopo.Utenti = db.Utenti /\ q.dopo.Account_Game = db.Account_Game
              /\ q.dopo.Prenotazioni = db.Prenotazioni
  BY <1>1 DEF InsertLobby, Db
<1> HIDE DEF q
<1>4. q.ok => q.dopo.Lobby[nextId] = u /\ db.Lobby[nextId] = Null /\ q.dopo # db
              /\ \A l \in LobbyId : l # nextId => q.dopo.Lobby[l] = db.Lobby[l]
  <2>1. db.Lobby \in [LobbyId -> Utente \cup {Null}]
    BY <1>1 DEF Db
  <2> QED BY <1>1, <1>2, <1>3, <2>1
<1>5. ASSUME db' = db, work' = db
      PROVE  Serve
  <2>1. nextId' = nextId \/ (nextId \in LobbyId /\ nextId' = nextId + 1)
    BY <1>1, <1>2, <1>5 DEF IdConsumato
  <2>2. CASE nextId' = nextId
    BY <1>1, <1>5, <2>2, Fermo DEF Chiuse
  <2>3. CASE nextId \in LobbyId /\ nextId' = nextId + 1
    <3>1. \A l \in LobbyId : l < nextId + 1 <=> l < nextId \/ l = nextId
      BY <1>2
    <3>2. db.Lobby[nextId] = Null
      BY <1>2, <2>3
    <3>3. Chiuse(db, work, nextId)' = Chiuse(db, work, nextId) \cup {nextId}
      BY <1>1, <1>5, <2>3, <3>1, <3>2 DEF Chiuse
    <3> QED BY <1>5, <2>3, <3>2, <3>3, Scartata
  <2> QED BY <2>1, <2>2, <2>3
<1>6. ASSUME q.ok, work' = q.dopo, db' = db \/ db' = q.dopo,
             con' = "aperta" \/ db' = q.dopo
      PROVE  Serve
  <2>1. nextId' = nextId + 1
    BY <1>1, <1>4, <1>6 DEF IdConsumato
  <2>2. Chiuse(db, work, nextId)' = Chiuse(db, work, nextId)
    <3>1. ASSUME NEW l \in LobbyId
          PROVE  l < nextId + 1 /\ db'.Lobby[l] = Null /\ work'.Lobby[l] = Null <=>
                 l < nextId /\ db.Lobby[l] = Null
      <4>1. l < nextId + 1 <=> l < nextId \/ l = nextId
        BY <1>2
      <4>2. l # nextId => work'.Lobby[l] = db.Lobby[l] /\ db'.Lobby[l] = db.Lobby[l]
        BY <1>4, <1>6
      <4>3. l = nextId => work'.Lobby[l] # Null /\ ~(l < nextId)
        BY <1>1, <1>2, <1>4, <1>6
      <4> QED BY <4>1, <4>2, <4>3
    <3> QED BY <1>1, <2>1, <3>1 DEF Chiuse
  <2>3. CASE db' = q.dopo
    <3>1. nextId \in LobbyId /\ nextId \notin Chiuse(db, work, nextId)
      BY <1>2, <1>3, <1>6 DEF Chiuse
    <3>2. Servizio!ApreVuota(u, nextId)
      BY <1>3, <1>4, <1>6, <2>2, <2>3, <3>1 DEF Servizio!ApreVuota, Chiuse
    <3>3. db'.Lobby # db.Lobby
      BY <1>1, <1>4, <1>6, <2>3
    <3> QED BY <1>1, <3>1, <3>2, <3>3 DEF Serve, Servizio!Next, Servizio!LobbyCambia
  <2> QED BY <1>6, <2>2, <2>3, Fermo
<1>7. CASE Eseguita(w, q, {nextId}, loc[w], "clear1")
  <2>1. q.ok /\ work' = q.dopo /\ con' = "aperta" /\ db' = (IF autoCommit THEN q.dopo ELSE db)
    BY <1>7 DEF Eseguita
  <2>2. Serve
    BY <1>6, <2>1
  <2>3. CASE autoCommit
    <3>1. autoCommit'
      BY <1>7, <2>3, Zenon DEF Eseguita
    <3> QED BY <2>1, <2>2, <2>3, <3>1 DEF Sospesa
  <2>4. CASE ~autoCommit
    <3>1. Pendente(db', work', u, req[w].g, nextId)
      BY <1>1, <1>3, <1>4, <2>1, <2>4 DEF Pendente, PrenotazioniReferenziate, Chiavi, Account, Db
    <3>2. work' # db'
      BY <1>1, <1>4, <2>1, <2>4
    <3> QED BY <1>1, <1>3, <2>1, <2>2, <3>1, <3>2 DEF Sospesa
  <2> QED BY <2>3, <2>4
<1>8. CASE CadutaInQuery(w, q)
  <2>1. con' = "persa" /\ work' = db' /\ (db' = db \/ (q.ok /\ db' = q.dopo))
    BY <1>8 DEF CadutaInQuery
  <2>2. Sospesa'
    BY <2>1 DEF Sospesa
  <2> QED BY <1>5, <1>6, <2>1, <2>2
<1>9. ASSUME db' = db, work' = work, Eccezione(w)
      PROVE  Serve /\ Sospesa'
  <2>1. pc'[w] = "rollback"
    BY <1>9 DEF Eccezione, Gestore, Vai, In, Solo, Inv, Chiamata
  <2>2. \A v \in Worker : ~InLobby(v)'
    BY <2>1 DEF InLobby, DopoId, UnSolo
  <2> QED BY <1>1, <1>5, <1>9, <2>2 DEF Sospesa
<1>10. dbQuery(w, q, {nextId}, loc[w], "clear1")
  BY DEF q
<1> QED BY <1>7, <1>8, <1>9, <1>10 DEF dbQuery, ConnessioneFallita, StatementInutile, LinkGiaPerso,
                                      Rifiutata, dbVars

\* A step that leaves the databases as they are.
LEMMA Rimasta ==
  ASSUME Sospesa, UNCHANGED <<db, work, nextId, req>>,
         con' = "aperta" /\ ~autoCommit' => \A v \in Worker : InLobby(v)' => work # db
  PROVE  Serve /\ Sospesa'
<1>1. Serve
  BY Fermo DEF Chiuse
<1>2. Sospesa'
  BY DEF Sospesa
<1> QED BY <1>1, <1>2

\* A query after the INSERT INTO Lobby: what is left to show is what it does
\* when it is executed.
LEMMA QueryInLobby ==
  ASSUME UnSolo, Solo, Sospesa, NEW w \in Worker, InLobby(w),
         NEW q, NEW ids, NEW dati, NEW poi, dbQuery(w, q, ids, dati, poi), UNCHANGED <<nextId, req>>,
         Eseguita(w, q, ids, dati, poi) => Serve /\ Sospesa',
         Subito(q) => Serve
  PROVE  Serve /\ Sospesa'
<1>1. ASSUME UNCHANGED <<db, work>>, Eccezione(w)
      PROVE  Serve /\ Sospesa'
  <2>1. pc'[w] = "rollback"
    BY <1>1 DEF Eccezione, Gestore, Vai, InLobby, DopoId, Solo, Inv, Chiamata
  <2>2. \A v \in Worker : ~InLobby(v)'
    BY <2>1 DEF InLobby, DopoId, UnSolo
  <2> QED BY <1>1, <2>2, Rimasta
<1>2. CASE CadutaInQuery(w, q)
  <2>1. con' = "persa" /\ work' = db' /\ (db' = db \/ (q.ok /\ autoCommit /\ db' = q.dopo))
    BY <1>2 DEF CadutaInQuery
  <2>2. autoCommit => work = db
    BY DEF Solo, SessioneSana
  <2>3. db' = db \/ Subito(q)
    BY <2>1, <2>2 DEF Subito
  <2>4. Serve
    BY <2>1, <2>3, SessionePersa DEF Solo
  <2> QED BY <2>1, <2>4 DEF Sospesa
<1> QED BY <1>1, <1>2 DEF dbQuery, ConnessioneFallita, StatementInutile, LinkGiaPerso, Rifiutata,
                          dbVars

\* A statement executed in its transaction finds the lobby there.
LEMMA InTransazione ==
  ASSUME UnSolo, Solo, Sospesa, NEW w \in Worker, InLobby(w), ~autoCommit, con # "persa"
  PROVE  /\ con = "aperta" /\ work # db
         /\ \E k \in LobbyId : Pendente(db, work, req[w].u, req[w].g, k)
<1>1. con = "aperta"
  BY DEF Solo, SessioneSana, Inv, Chiamata
<1> QED BY <1>1 DEF Sospesa, UnSolo

\* It is the one of the handler.
LEMMA LobbyPropria ==
  ASSUME Inv, NEW w \in Worker, NEW k \in LobbyId, NEW l, Filo(w, l),
         Pendente(db, work, req[w].u, req[w].g, k)
  PROVE  k = l
<1>1. req[w].u # Null /\ db \in Db /\ work.Lobby = [db.Lobby EXCEPT ![k] = req[w].u]
  BY AplDbAssumption DEF Inv, Chiamata, Richiesta, Pendente
<1>2. work.Lobby[k] = req[w].u /\ db.Lobby[k] = Null
  BY <1>1 DEF Db, Pendente
<1> QED BY <1>1, <1>2 DEF Filo

\* The two SELECTs.
LEMMA SelectServe ==
  ASSUME UnSolo, Solo, Sospesa, NEW w \in Worker, InLobby(w),
         NEW dati, NEW poi, Leggi(w, dati, poi), UNCHANGED <<nextId, req>>
  PROVE  Serve /\ Sospesa'
<1>1. ASSUME Eseguita(w, Lettura(work), {lastId}, dati, poi)
      PROVE  Serve /\ Sospesa'
  <2>1. con # "persa" /\ con' = "aperta" /\ work' = work /\ db' = (IF autoCommit THEN work ELSE db)
    BY <1>1 DEF Eseguita, Servibile, Lettura
  <2>2. autoCommit' = autoCommit
    BY <1>1 DEF Eseguita
  <2>3. db' = db
    BY <2>1 DEF Solo, SessioneSana
  <2>4. ~autoCommit => work # db
    BY <2>1, InTransazione
  <2> QED BY <2>1, <2>2, <2>3, <2>4, Rimasta
<1>2. Subito(Lettura(work)) => Serve
  BY LetturaServe
<1> QED BY <1>1, <1>2, QueryInLobby DEF Leggi

\* The reservation of the owner, committed at once or with the lobby.
LEMMA ProprietarioServe ==
  ASSUME UnSolo, Solo, Sospesa, NEW w \in Worker, In(w, "inserisci_lobby", "query4"),
         Scrivi(w, InsertPrenotazione(work, <<req[w].u, req[w].g>>, loc[w].idLobby, "Accettato"),
                "commit2"),
         UNCHANGED <<nextId, req>>
  PROVE  Serve /\ Sospesa'
<1> DEFINE u == req[w].u
           g == req[w].g
           k == loc[w].idLobby
           q == InsertPrenotazione(work, <<u, g>>, k, "Accettato")
<1>1. InLobby(w) /\ Inv /\ u \in Utente /\ g \in Gioco /\ work \in Db /\ db \in Db
  BY DEF In, InLobby, DopoId, Solo, Inv, Chiamata, Richiesta
<1>2. con # "persa" => Filo(w, k)
  BY DEF In, Solo, Passo, InserisciPasso, DopoId, Perduta
<1>3. ASSUME Subito(q), con # "persa"
      PROVE  Serve
  <2>1. work = db /\ db.Lobby[k] = u
    BY <1>2, <1>3 DEF Subito, Filo
  <2> QED BY <1>1, <1>3, <2>1, InsertPrenotazioneServe
<1>4. q.dopo.Lobby = work.Lobby /\ q.dopo.Utenti = work.Utenti
      /\ q.dopo.Account_Game = work.Account_Game
      /\ q.dopo.Prenotazioni =
           [p \in Chiavi |-> IF p = <<<<u, g>>, k>> THEN "Accettato" ELSE work.Prenotazioni[p]]
  BY <1>1 DEF InsertPrenotazione, Db, Chiavi
<1> HIDE DEF q
<1>5. ASSUME Eseguita(w, q, {lastId}, loc[w], "commit2")
      PROVE  Serve /\ Sospesa'
  <2>1. /\ con # "persa" /\ work' = q.dopo /\ q.ok
        /\ db' = (IF autoCommit THEN q.dopo ELSE db)
    BY <1>5 DEF Eseguita, Servibile
  <2>2. CASE autoCommit
    <3>1. autoCommit'
      BY <1>5, <2>2, Zenon DEF Eseguita
    <3>2. Subito(q)
      BY <2>1, <2>2 DEF Subito, Solo, SessioneSana
    <3> QED BY <1>3, <2>1, <2>2, <3>1, <3>2 DEF Sospesa
  <2>3. CASE ~autoCommit
    <3>1. PICK l \in LobbyId : Pendente(db, work, u, g, l)
      BY <1>1, <2>1, <2>3, InTransazione
    <3>2. l = k
      BY <1>1, <1>2, <2>1, <3>1, LobbyPropria
    <3>3. db' = db /\ work'.Lobby = work.Lobby
      BY <1>4, <2>1, <2>3
    <3>4. Serve
      BY <3>3, Fermo DEF Chiuse
    <3>5. <<<<u, g>>, k>> \in Chiavi
      BY <1>1, <3>2 DEF Chiavi, Account
    <3>6. Pendente(db', work', u, g, k)
      BY <1>4, <2>1, <3>1, <3>2, <3>3, <3>5 DEF Pendente
    <3>7. work' # db'
      <4>1. db.Lobby[k] = Null /\ work.Lobby[k] = u /\ u # Null
        BY <1>1, <3>1, <3>2, AplDbAssumption DEF Pendente, Db
      <4> QED BY <3>3, <4>1
    <3> QED BY <3>2, <3>4, <3>6, <3>7 DEF Sospesa, In
  <2> QED BY <2>2, <2>3
<1>6. dbQuery(w, q, {lastId}, loc[w], "commit2")
  BY DEF Scrivi, q
<1>7. CASE con # "persa"
  BY <1>1, <1>3, <1>5, <1>6, <1>7, QueryInLobby
<1>8. CASE con = "persa"
  <2>1. db' = db /\ work' = work /\ Eccezione(w)
    BY <1>6, <1>8 DEF dbQuery, ConnessioneFallita, StatementInutile, LinkGiaPerso, CadutaInQuery,
                      Rifiutata, Eseguita, Servibile, dbVars
  <2>2. pc'[w] = "rollback"
    BY <2>1 DEF Eccezione, Gestore, Vai, In, Solo, Inv, Chiamata
  <2>3. \A v \in Worker : ~InLobby(v)'
    BY <2>2 DEF InLobby, DopoId, UnSolo
  <2> QED BY <2>1, <2>3, Rimasta
<1> QED BY <1>7, <1>8

\* Commit makes the lobby and the reservation of its owner one step.
LEMMA ConfermaServe ==
  ASSUME UnSolo, Solo, Sospesa, NEW w \in Worker, In(w, "inserisci_lobby", "commit2"), ~Perduta,
         db' = work, work' = work, UNCHANGED <<nextId, req>>
  PROVE  Serve
<1> DEFINE u == req[w].u
           g == req[w].g
<1>1. CASE work = db
  BY <1>1, Fermo DEF Chiuse
<1>2. CASE work # db
  <2>1. PICK k \in LobbyId : Pendente(db, work, u, g, k)
    BY <1>2 DEF Sospesa, UnSolo
  <2>2. /\ Inv /\ u \in Utente /\ g \in Gioco /\ u # Null /\ db \in Db /\ work \in Db
        /\ PrenotazioniReferenziate(work) /\ "Accettato" # Null
    BY AplDbAssumption DEF Solo, Inv, Chiamata, Richiesta, Integrita
  <2>3. /\ Filo(w, loc[w].idLobby)
        /\ work.Prenotazioni[<<<<u, g>>, loc[w].idLobby>>] = "Accettato"
    BY DEF In, Solo, Passo, InserisciPasso, DopoId
  <2>4. k = loc[w].idLobby
    BY <2>1, <2>2, <2>3, LobbyPropria
  <2>5. <<<<u, g>>, k>> \in Chiavi /\ <<u, g>> \in Account
    BY <2>2 DEF Chiavi, Account
  <2>6. work.Account_Game[<<u, g>>] # Null
    BY <2>2, <2>3, <2>4, <2>5 DEF PrenotazioniReferenziate
  <2>7. work.Prenotazioni = [db.Prenotazioni EXCEPT ![<<<<u, g>>, k>>] = "Accettato"]
    BY <2>1, <2>2, <2>3, <2>4, <2>5 DEF Pendente, Db, Chiavi
  <2>8. /\ db.Lobby[k] = Null /\ work.Lobby[k] = u
        /\ \A l \in LobbyId : l # k => work.Lobby[l] = db.Lobby[l]
    BY <2>1, <2>2 DEF Pendente, Db
  <2>9. Chiuse(db, work, nextId)' = Chiuse(db, work, nextId) /\ k \notin Chiuse(db, work, nextId)
    BY <2>2, <2>8 DEF Chiuse
  <2>10. Servizio!Apre(u, g, k)
    BY <2>1, <2>6, <2>7, <2>8, <2>9 DEF Servizio!Apre, Pendente, Chiuse
  <2>11. db'.Lobby # db.Lobby
    BY <2>2, <2>8
  <2> QED BY <2>2, <2>10, <2>11 DEF Serve, Servizio!Next, Servizio!LobbyCambia
<1> QED BY <1>1, <1>2

\* The other calls of inserisci_lobby.
LEMMA CommitServe ==
  ASSUME UnSolo, Solo, Sospesa, NEW w \in Worker, UNCHANGED <<nextId, req>>,
         \/ In(w, "inserisci_lobby", "commit") /\ Commit(w, "query1")
         \/ In(w, "inserisci_lobby", "commit2") /\ Commit(w, "clear")
  PROVE  Serve /\ Sospesa'
<1>1. \A v \in Worker : ~InLobby(v)'
  <2>1. pc'[w] \in {"query1", "clear", "libero", "rollback"}
    BY DEF Commit, CommitApre, CommitConferma, Eccezione, Gestore, Vai, In, Solo, Inv, Chiamata
  <2> QED BY <2>1 DEF InLobby, DopoId, UnSolo
<1>2. CASE UNCHANGED <<db, work>>
  BY <1>1, <1>2, Rimasta
<1>3. CASE db' = db /\ work' = db
  BY <1>1, <1>3, SessionePersa DEF Solo, Sospesa
<1>4. CASE db' = work /\ work' = work /\ inTx /\ con = "aperta"
  <2>1. ~Perduta
    BY <1>4 DEF Perduta
  <2>2. ~autoCommit
    BY <1>4 DEF Solo, SessioneSana
  <2>3. In(w, "inserisci_lobby", "commit2")
    BY <1>4, <2>2 DEF Solo, TransazioneSoloInInserisci, UnSolo, In
  <2> QED BY <1>1, <1>4, <2>1, <2>3, ConfermaServe DEF Sospesa
<1> QED BY <1>2, <1>3, <1>4 DEF Commit, CommitApre, CommitConferma, dbVars

LEMMA RollBackServe ==
  ASSUME UnSolo, Solo, Sospesa, NEW w \in Worker, UNCHANGED <<nextId, req>>,
         RollBack(w, "rifiuta")
  PROVE  Serve /\ Sospesa'
<1>1. pc'[w] \in {"rifiuta", "libero"}
  BY DEF RollBack, Vai, Solo, Inv, Chiamata
<1>2. \A v \in Worker : ~InLobby(v)'
  BY <1>1 DEF InLobby, DopoId, UnSolo
<1>3. CASE UNCHANGED <<db, work>>
  BY <1>2, <1>3, Rimasta
<1>4. CASE db' = db /\ work' = db
  BY <1>2, <1>4, SessionePersa DEF Solo, Sospesa
<1> QED BY <1>3, <1>4 DEF RollBack, SessioneFinita, dbVars

LEMMA ClearStatementServe ==
  ASSUME UnSolo, Solo, Sospesa, NEW w \in Worker, InLobby(w), NEW poi, ClearStatement(w, poi),
         UNCHANGED <<nextId, req>>
  PROVE  Serve /\ Sospesa'
<1>1. UNCHANGED <<db, work, con, autoCommit>>
  BY DEF ClearStatement, dbVars
<1>2. con = "aperta" /\ ~autoCommit => work # db
  BY DEF Sospesa
<1> QED BY <1>1, <1>2, Rimasta

LEMMA InserisciServe ==
  ASSUME UnSolo, Solo, Sospesa, NEW w \in Worker, HMInserisciLobby(w), req' = req
  PROVE  Serve /\ Sospesa'
<1>1. CASE In(w, "inserisci_lobby", "query1")
           /\ dbQuery(w, InsertLobby(work, nextId, req[w].u), {nextId}, loc[w], "clear1")
           /\ IdConsumato
  BY <1>1, InsertLobbyServe
<1>2. ASSUME nextId' = nextId, NEW e \in {"clear1", "clear2", "clear3"},
             In(w, "inserisci_lobby", e), NEW poi, ClearStatement(w, poi)
      PROVE  Serve /\ Sospesa'
  BY <1>2, ClearStatementServe DEF In, InLobby, DopoId
<1>3. ASSUME nextId' = nextId, NEW e \in {"query2", "query3"}, In(w, "inserisci_lobby", e),
             NEW dati, NEW poi, Leggi(w, dati, poi)
      PROVE  Serve /\ Sospesa'
  BY <1>3, SelectServe DEF In, InLobby, DopoId
<1>4. CASE nextId' = nextId /\ In(w, "inserisci_lobby", "clear") /\ ClearConnection(w, "conferma")
  <2>1. db' = db /\ work' = db /\ con' = "nullo"
    BY <1>4 DEF ClearConnection, SessioneFinita
  <2> QED BY <1>4, <2>1, SessionePersa DEF Solo, Sospesa
<1> QED BY <1>1, <1>2, <1>3, <1>4, CommitServe, ProprietarioServe, RollBackServe
        DEF HMInserisciLobby, LeggiRiga

(***************************************************************************)
(* The steps, and the theorem.                                             *)
(***************************************************************************)

LEMMA PassoServe ==
  ASSUME UnSolo, Solo, Sospesa, [Next]_vars
  PROVE  Serve /\ Sospesa'
<1>1. ASSUME NEW w \in Worker, Ricevi(w)
      PROVE  Serve /\ Sospesa'
  <2>1. UNCHANGED <<db, work, nextId>> /\ pc[w] = "libero"
    BY <1>1 DEF Ricevi, dbVars
  <2>2. work = db
    <3>1. con = "aperta" => autoCommit
      BY <2>1 DEF Solo, TransazioneSoloInInserisci, UnSolo
    <3> QED BY <3>1 DEF Solo, SessioneSana, Inv, Chiamata
  <2>3. pc'[w] \in {"commit", "http", "query1"}
    BY <1>1 DEF Ricevi, Primo, Solo, Inv, Chiamata
  <2>4. \A v \in Worker : ~InLobby(v)'
    BY <2>3 DEF InLobby, DopoId, UnSolo
  <2>5. Serve
    BY <2>1, Fermo DEF Chiuse
  <2> QED BY <2>1, <2>2, <2>4, <2>5 DEF Sospesa
<1>2. ASSUME NEW w \in Worker, RispostaPython(w) \/ Invia(w)
      PROVE  Serve /\ Sospesa'
  <2>1. UNCHANGED <<db, work, nextId, req>>
    BY <1>2 DEF RispostaPython, Invia, dbVars
  <2>2. pc'[w] \in {"riporta", "query1", "libero"}
    BY <1>2 DEF RispostaPython, Invia, Vai, Solo, Inv, Chiamata
  <2>3. \A v \in Worker : ~InLobby(v)'
    BY <2>2 DEF InLobby, DopoId, UnSolo
  <2> QED BY <2>1, <2>3, Rimasta
<1>3. ASSUME NEW w \in Worker, Gestisci(w) \/ HMInserisciLobby(w), UNCHANGED <<req, risposta>>
      PROVE  Serve /\ Sospesa'
  BY <1>3, GestisciServe, InserisciServe
<1>4. CASE LinkCade \/ Riavvio
  <2>1. db' = db /\ work' = db /\ con' # "aperta" /\ nextId' = nextId
    BY <1>4 DEF LinkCade, Riavvio, SessioneFinita
  <2> QED BY <2>1, SessionePersa DEF Solo, Sospesa
<1>5. CASE UNCHANGED vars
  <2>1. UNCHANGED <<db, work, nextId, req, con, autoCommit, pc>>
    BY <1>5 DEF vars, dbVars, conVars, wrkVars
  <2> QED BY <2>1, Rimasta DEF Sospesa, InLobby
<1> QED BY <1>1, <1>2, <1>3, <1>4, <1>5 DEF Next, Lavora

LEMMA InitServe == Init => Servizio!Init /\ Sospesa
<1> SUFFICES ASSUME Init PROVE Servizio!Init /\ Sospesa
  OBVIOUS
<1>1. work = db /\ con = "nullo" /\ db \in Db
  BY InitInv DEF Init, Inv, Chiamata
<1>2. Sospesa
  BY <1>1 DEF Sospesa
<1>3. Servizio!Init
  BY <1>1 DEF Servizio!Init, Db, Account, Stato
<1> QED BY <1>2, <1>3

\* A server with one worker implements ServizioLobby: the committed tables change
\* only by its steps, whatever fails and wherever the server is restarted.
THEOREM ServizioMantenuto ==
  ASSUME UnSolo
  PROVE  Spec => MantieneServizio
<1>1. Init => Solo /\ Sospesa /\ Servizio!Init
  BY InitSolo, InitServe
<1>2. Solo /\ Sospesa /\ [Next]_vars => (Solo /\ Sospesa)'
  BY NextSolo, PassoServe
<1>3. Solo /\ Sospesa /\ [Next]_vars => [Servizio!Next]_(Servizio!vars)
  BY PassoServe DEF Serve
<1> QED BY <1>1, <1>2, <1>3, PTL DEF Spec, MantieneServizio, Servizio!Spec

(***************************************************************************)
(* With more workers, as long as none opens a transaction.                 *)
(***************************************************************************)

\* Every call is a step of the service or leaves the tables alone.
LEMMA PassoInsiemeServe ==
  ASSUME SenzaTransazioni, Insieme, Insieme', [Next]_vars
  PROVE  Serve
<1>1. Inv /\ work = db /\ work' = db'
  BY DEF Insieme, SessioneAperta
<1>2. db' = db /\ nextId' = nextId => Serve
  BY <1>1, Fermo DEF Chiuse
<1>3. ASSUME NEW w \in Worker, Gestisci(w)
      PROVE  Serve
  <2>1. nextId' = nextId
    BY <1>3 DEF Gestisci
  <2>2. CASE \E poi : ClearConnection(w, poi)
    BY <1>2, <2>1, <2>2 DEF ClearConnection
  <2>3. ASSUME NEW q, NEW ids, NEW dati, NEW poi, dbQuery(w, q, ids, dati, poi),
               Subito(q) => Serve
        PROVE  Serve
    <3>1. db' = db \/ (q.ok /\ db' = q.dopo)
      BY <2>3, dbQueryDati
    <3> QED BY <1>1, <1>2, <2>1, <2>3, <3>1 DEF Subito
  <2> QED BY <1>1, <1>3, <2>2, <2>3, GestisciSubito
<1>4. ASSUME NEW w \in Worker PROVE ~HMInserisciLobby(w)
  BY DEF Insieme, PassoInsieme, SenzaTransazioni, HMInserisciLobby, In
<1>5. ASSUME NEW w \in Worker, Ricevi(w) \/ RispostaPython(w) \/ Invia(w)
      PROVE  Serve
  BY <1>2, <1>5 DEF Ricevi, RispostaPython, Invia, dbVars
<1>6. CASE LinkCade \/ Riavvio \/ UNCHANGED vars
  BY <1>2, <1>6 DEF LinkCade, Riavvio, vars, dbVars
<1> QED BY <1>3, <1>4, <1>5, <1>6 DEF Next, Lavora

\* A server with any number of workers, none of which opens a transaction,
\* implements ServizioLobby too: checks and acts of different sessions interleave,
\* and the committed tables still change only by the steps of the service.
THEOREM ServizioMantenutoInsieme ==
  ASSUME SenzaTransazioni
  PROVE  Spec => MantieneServizio
<1>1. Init => Insieme /\ Servizio!Init
  BY InitInsieme, InitServe
<1>2. Insieme /\ [Next]_vars => Insieme'
  BY NextInsieme
<1>3. Insieme /\ Insieme' /\ [Next]_vars => [Servizio!Next]_(Servizio!vars)
  BY PassoInsiemeServe DEF Serve
<1> QED BY <1>1, <1>2, <1>3, PTL DEF Spec, MantieneServizio, Servizio!Spec
=============================================================================
