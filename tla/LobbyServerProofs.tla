-------------------------- MODULE LobbyServerProofs --------------------------
(***************************************************************************)
(* What holds of the server for any number of workers, users, games and     *)
(* lobbies: its types and the constraints of the tables; and, as long as no *)
(* worker opens a transaction, what it confirms of users and accounts and   *)
(* the lists it gives.                                                      *)
(***************************************************************************)
EXTENDS LobbyServer, TLAPS

(***************************************************************************)
(* The statements give a database, and one that keeps its constraints.      *)
(***************************************************************************)

\* INSERT INTO Utenti, of /registrazione.
LEMMA InsertUtenteSano ==
  ASSUME NEW d \in Db, Integrita(d), NEW u \in Utente, NEW e \in Email,
         InsertUtente(d, u, e).ok
  PROVE  /\ InsertUtente(d, u, e).dopo \in Db
         /\ Integrita(InsertUtente(d, u, e).dopo)
         /\ InsertUtente(d, u, e).dopo.Lobby = d.Lobby
<1> DEFINE x == InsertUtente(d, u, e).dopo
<1>1. /\ x.Utenti = [d.Utenti EXCEPT ![u] = e]
      /\ x.Account_Game = d.Account_Game
      /\ x.Lobby = d.Lobby
      /\ x.Prenotazioni = d.Prenotazioni
  BY DEF InsertUtente, Db
<1>2. x \in Db
  BY DEF InsertUtente, Db
<1>3. d.Utenti[u] = Null /\ \A v \in Utente : d.Utenti[v] # e
  BY DEF InsertUtente
<1>4. Integrita(x)
  BY <1>1, <1>3, AplDbAssumption
  DEF Integrita, EmailUniche, NicknameUnici, AccountDiUtenti, LobbyDiUtenti,
      PrenotazioniReferenziate, Db, Account
<1> QED BY <1>1, <1>2, <1>4

\* INSERT ... SELECT into Account_Game, of the Stats handlers.
LEMMA InsertAccountSano ==
  ASSUME NEW d \in Db, Integrita(d), NEW u \in Utente, NEW g \in Gioco, NEW n \in Nickname,
         InsertAccount(d, u, g, n).ok
  PROVE  /\ InsertAccount(d, u, g, n).dopo \in Db
         /\ Integrita(InsertAccount(d, u, g, n).dopo)
         /\ InsertAccount(d, u, g, n).dopo.Lobby = d.Lobby
<1> DEFINE x == InsertAccount(d, u, g, n).dopo
<1>1. CASE d.Utenti[u] = Null
  BY <1>1 DEF InsertAccount, Lettura
<1>2. CASE d.Utenti[u] # Null
  <2>1. <<u, g>> \in Account
    BY DEF Account
  <2>2. /\ x.Account_Game = [d.Account_Game EXCEPT ![<<u, g>>] = n]
        /\ x.Utenti = d.Utenti
        /\ x.Lobby = d.Lobby
        /\ x.Prenotazioni = d.Prenotazioni
    BY <1>2 DEF InsertAccount, Db
  <2>3. x \in Db
    BY <1>2, <2>1 DEF InsertAccount, Db
  <2>4. d.Account_Game[<<u, g>>] = Null /\ \A v \in Utente : d.Account_Game[<<v, g>>] # n
    BY <1>2 DEF InsertAccount, NicknameUsato
  <2>5. d.Account_Game \in [Account -> Nickname \cup {Null}]
    BY DEF Db
  <2>6. \A a \in Account : x.Account_Game[a] = IF a = <<u, g>> THEN n ELSE d.Account_Game[a]
    BY <2>2, <2>5
  <2>7. NicknameUnici(x)
    BY <2>1, <2>4, <2>6 DEF Integrita, NicknameUnici, Account
  <2>8. AccountDiUtenti(x)
    BY <1>2, <2>2, <2>6 DEF Integrita, AccountDiUtenti
  <2>9. PrenotazioniReferenziate(x)
    BY <2>2, <2>6, AplDbAssumption DEF Integrita, PrenotazioniReferenziate
  <2>10. EmailUniche(x) /\ LobbyDiUtenti(x)
    BY <2>2 DEF Integrita, EmailUniche, LobbyDiUtenti
  <2> QED BY <2>2, <2>3, <2>7, <2>8, <2>9, <2>10 DEF Integrita
<1> QED BY <1>1, <1>2

\* INSERT INTO Lobby, of HMInserisciLobby.
LEMMA InsertLobbySano ==
  ASSUME NEW d \in Db, Integrita(d), NEW l, NEW u \in Utente, InsertLobby(d, l, u).ok
  PROVE  /\ InsertLobby(d, l, u).dopo \in Db
         /\ Integrita(InsertLobby(d, l, u).dopo)
         /\ \A k \in LobbyId : k # l => InsertLobby(d, l, u).dopo.Lobby[k] = d.Lobby[k]
<1> DEFINE x == InsertLobby(d, l, u).dopo
<1>1. /\ x.Lobby = [k \in LobbyId |-> IF k = l THEN u ELSE d.Lobby[k]]
      /\ x.Utenti = d.Utenti
      /\ x.Account_Game = d.Account_Game
      /\ x.Prenotazioni = d.Prenotazioni
  BY DEF InsertLobby, Db
<1>2. x \in Db
  BY DEF InsertLobby, Db
<1>3. LobbyDiUtenti(x)
  <2>1. d.Utenti[u] # Null
    BY DEF InsertLobby
  <2>2. \A k \in LobbyId : d.Lobby[k] # Null => d.Utenti[d.Lobby[k]] # Null
    BY DEF Integrita, LobbyDiUtenti
  <2>3. \A k \in LobbyId : x.Lobby[k] = IF k = l THEN u ELSE d.Lobby[k]
    BY <1>1
  <2>4. x.Utenti = d.Utenti
    BY <1>1
  <2> HIDE DEF x
  <2> QED BY <2>1, <2>2, <2>3, <2>4 DEF LobbyDiUtenti
<1>4. PrenotazioniReferenziate(x)
  BY <1>1, AplDbAssumption DEF Integrita, PrenotazioniReferenziate
<1>5. EmailUniche(x) /\ NicknameUnici(x) /\ AccountDiUtenti(x)
  BY <1>1 DEF Integrita, EmailUniche, NicknameUnici, AccountDiUtenti
<1> QED BY <1>1, <1>2, <1>3, <1>4, <1>5 DEF Integrita

\* INSERT INTO Prenotazioni, of HMPartecipaLobby and HMInserisciLobby.
LEMMA InsertPrenotazioneSano ==
  ASSUME NEW d \in Db, Integrita(d), NEW a \in Account, NEW l, NEW s \in Stato,
         InsertPrenotazione(d, a, l, s).ok
  PROVE  /\ InsertPrenotazione(d, a, l, s).dopo \in Db
         /\ Integrita(InsertPrenotazione(d, a, l, s).dopo)
         /\ InsertPrenotazione(d, a, l, s).dopo.Lobby = d.Lobby
<1> DEFINE x == InsertPrenotazione(d, a, l, s).dopo
<1>1. /\ x.Prenotazioni = [k \in Account \X LobbyId |-> IF k = <<a, l>> THEN s ELSE d.Prenotazioni[k]]
      /\ x.Utenti = d.Utenti
      /\ x.Account_Game = d.Account_Game
      /\ x.Lobby = d.Lobby
  BY DEF InsertPrenotazione, Db
<1>2. x \in Db
  BY DEF InsertPrenotazione, Db
<1>3. d.Account_Game[a] # Null /\ d.Lobby[l] # Null
  BY DEF InsertPrenotazione
<1>4. \A b \in Account : \A k \in LobbyId :
        x.Prenotazioni[<<b, k>>] = IF b = a /\ k = l THEN s ELSE d.Prenotazioni[<<b, k>>]
  BY <1>1
<1>5. PrenotazioniReferenziate(x)
  <2> HIDE DEF x
  <2> QED BY <1>1, <1>3, <1>4 DEF Integrita, PrenotazioniReferenziate
<1>6. EmailUniche(x) /\ NicknameUnici(x) /\ AccountDiUtenti(x) /\ LobbyDiUtenti(x)
  BY <1>1 DEF Integrita, EmailUniche, NicknameUnici, AccountDiUtenti, LobbyDiUtenti
<1> QED BY <1>1, <1>2, <1>5, <1>6 DEF Integrita

\* A database that differs from a sound one only in its reservations, none of
\* them where there was none, is sound.
LEMMA PrenotazioniRestano ==
  ASSUME NEW d \in Db, Integrita(d), NEW x \in Db,
         x.Utenti = d.Utenti, x.Account_Game = d.Account_Game, x.Lobby = d.Lobby,
         \A p \in Account \X LobbyId : d.Prenotazioni[p] = Null => x.Prenotazioni[p] = Null
  PROVE  Integrita(x)
<1>1. PrenotazioniReferenziate(x)
  BY DEF Integrita, PrenotazioniReferenziate
<1> QED BY <1>1 DEF Integrita, EmailUniche, NicknameUnici, AccountDiUtenti, LobbyDiUtenti

\* UPDATE Prenotazioni, of HMAggiungiUtente.
LEMMA AccettaPrenotazioneSano ==
  ASSUME NEW d \in Db, Integrita(d), NEW a \in Account, NEW l \in LobbyId
  PROVE  /\ AccettaPrenotazione(d, a, l).dopo \in Db
         /\ Integrita(AccettaPrenotazione(d, a, l).dopo)
         /\ AccettaPrenotazione(d, a, l).dopo.Lobby = d.Lobby
<1> DEFINE x == AccettaPrenotazione(d, a, l).dopo
<1>1. x \in Db
  BY DEF AccettaPrenotazione, Db, Stato
<1>2. /\ x.Utenti = d.Utenti
      /\ x.Account_Game = d.Account_Game
      /\ x.Lobby = d.Lobby
      /\ x.Prenotazioni = [d.Prenotazioni EXCEPT ![<<a, l>>] = IF @ = Null THEN Null ELSE "Accettato"]
  BY DEF AccettaPrenotazione, Db
<1>3. d.Prenotazioni \in [Account \X LobbyId -> Stato \cup {Null}]
  BY DEF Db
<1>4. \A p \in Account \X LobbyId : d.Prenotazioni[p] = Null => x.Prenotazioni[p] = Null
  BY <1>2, <1>3
<1> HIDE DEF x
<1> QED BY <1>1, <1>2, <1>4, PrenotazioniRestano DEF x

\* DELETE FROM Prenotazioni, of HMEliminaUtente.
LEMMA DeletePrenotazioneSano ==
  ASSUME NEW d \in Db, Integrita(d), NEW a \in Account, NEW l \in LobbyId
  PROVE  /\ DeletePrenotazione(d, a, l).dopo \in Db
         /\ Integrita(DeletePrenotazione(d, a, l).dopo)
         /\ DeletePrenotazione(d, a, l).dopo.Lobby = d.Lobby
<1> DEFINE x == DeletePrenotazione(d, a, l).dopo
<1>1. x \in Db
  BY DEF DeletePrenotazione, Db
<1>2. /\ x.Utenti = d.Utenti
      /\ x.Account_Game = d.Account_Game
      /\ x.Lobby = d.Lobby
      /\ x.Prenotazioni = [d.Prenotazioni EXCEPT ![<<a, l>>] = Null]
  BY DEF DeletePrenotazione, Db
<1>3. d.Prenotazioni \in [Account \X LobbyId -> Stato \cup {Null}]
  BY DEF Db
<1>4. \A p \in Account \X LobbyId : d.Prenotazioni[p] = Null => x.Prenotazioni[p] = Null
  BY <1>2, <1>3
<1> HIDE DEF x
<1> QED BY <1>1, <1>2, <1>4, PrenotazioniRestano DEF x

\* DELETE FROM Lobby with its cascade, of HMEliminaLobby.
LEMMA DeleteLobbySano ==
  ASSUME NEW d \in Db, Integrita(d), NEW l \in LobbyId
  PROVE  /\ DeleteLobby(d, l).dopo \in Db
         /\ Integrita(DeleteLobby(d, l).dopo)
         /\ \A k \in LobbyId : d.Lobby[k] = Null => DeleteLobby(d, l).dopo.Lobby[k] = Null
<1> DEFINE x == DeleteLobby(d, l).dopo
<1>1. x \in Db
  BY DEF DeleteLobby, Db
<1>2. /\ x.Utenti = d.Utenti
      /\ x.Account_Game = d.Account_Game
      /\ x.Lobby = [d.Lobby EXCEPT ![l] = Null]
      /\ x.Prenotazioni = [k \in Account \X LobbyId |-> IF k[2] = l THEN Null ELSE d.Prenotazioni[k]]
  BY DEF DeleteLobby, Db
<1>3. \A k \in LobbyId : x.Lobby[k] = IF k = l THEN Null ELSE d.Lobby[k]
  BY <1>2 DEF Db
<1>4. \A a \in Account : \A k \in LobbyId :
        x.Prenotazioni[<<a, k>>] = IF k = l THEN Null ELSE d.Prenotazioni[<<a, k>>]
  BY <1>2
<1> HIDE DEF x
<1>5. PrenotazioniReferenziate(x)
  BY <1>2, <1>3, <1>4 DEF Integrita, PrenotazioniReferenziate
<1>6. LobbyDiUtenti(x)
  BY <1>2, <1>3 DEF Integrita, LobbyDiUtenti
<1>7. EmailUniche(x) /\ NicknameUnici(x) /\ AccountDiUtenti(x)
  BY <1>2 DEF Integrita, EmailUniche, NicknameUnici, AccountDiUtenti
<1> QED BY <1>1, <1>3, <1>5, <1>6, <1>7 DEF Integrita, x

(***************************************************************************)
(* What a call of dbManager may touch, and that every call leaves it sound. *)
(***************************************************************************)

\* The part of the invariant about the variables a call writes.
Chiamata ==
  /\ db \in Db /\ Integrita(db)
  /\ work \in Db /\ Integrita(work)
  /\ con \in {"nullo", "aperta", "persa"}
  /\ stmt \in {"nullo", "aperto", "orfano", "chiuso"}
  /\ autoCommit \in BOOLEAN
  /\ inTx \in BOOLEAN
  /\ lastId \in 0..MaxLobby
  /\ pc \in [Worker -> Etichetta]
  /\ loc \in [Worker -> Locale]
  /\ guasti \in 0..MaxGuasti

Freschi(n, d) == \A l \in LobbyId : l >= n => d.Lobby[l] = Null

Inv ==
  /\ Chiamata
  /\ nextId \in 1..(MaxLobby + 1)
  /\ Freschi(nextId, db) /\ Freschi(nextId, work)
  /\ req \in [Worker -> Richiesta]
  /\ risposta \in [Worker -> {"nessuna", "conferma", "rifiuta", "riporta"}]

\* The invariant is the type invariant and the integrity of the data.
LEMMA InvImplica == Inv <=> TypeOK /\ Integrity
BY DEF Inv, Chiamata, Freschi, TypeOK, Integrity

\* A failure is counted within the bound.
LEMMA GuastoTipo ==
  ASSUME guasti \in 0..MaxGuasti, Guasto
  PROVE  guasti' \in 0..MaxGuasti
BY LobbyServerAssumption DEF Guasto

\* An exception leaves the handler at a label.
LEMMA EccezioneTipo ==
  ASSUME Chiamata, NEW w \in Worker, Eccezione(w)
  PROVE  pc' \in [Worker -> Etichetta] /\ loc' \in [Worker -> Locale]
BY DEF Chiamata, Eccezione, Gestore, Vai, Etichetta

\* dbQuery leaves the database it had, or the one the statement gives if the
\* server accepts it.
LEMMA dbQueryDati ==
  ASSUME NEW w, NEW q, NEW ids, NEW dati, NEW poi, dbQuery(w, q, ids, dati, poi)
  PROVE  /\ db' = db \/ (q.ok /\ db' = q.dopo)
         /\ work' = work \/ work' = db \/ (q.ok /\ work' = q.dopo)
<1>1. CASE ConnessioneFallita(w) \/ StatementInutile(w) \/ LinkGiaPerso(w) \/ Rifiutata(w, q)
  BY <1>1 DEF ConnessioneFallita, StatementInutile, LinkGiaPerso, Rifiutata, dbVars
<1>2. CASE CadutaInQuery(w, q)
  BY <1>2 DEF CadutaInQuery
<1>3. CASE Eseguita(w, q, ids, dati, poi)
  BY <1>3 DEF Eseguita
<1> QED BY <1>1, <1>2, <1>3 DEF dbQuery

\* dbQuery is sound when the statement is.
LEMMA dbQuerySana ==
  ASSUME Chiamata, NEW w \in Worker, NEW q, NEW ids, NEW dati \in Locale, NEW poi \in Etichetta,
         q.ok => q.dopo \in Db /\ Integrita(q.dopo) /\ ids \subseteq 0..MaxLobby,
         dbQuery(w, q, ids, dati, poi)
  PROVE  Chiamata'
<1>1. db' \in Db /\ Integrita(db') /\ work' \in Db /\ Integrita(work')
  BY dbQueryDati DEF Chiamata
<1>2. CASE ConnessioneFallita(w)
  BY <1>1, <1>2, GuastoTipo, EccezioneTipo DEF ConnessioneFallita, Chiamata
<1>3. CASE StatementInutile(w)
  BY <1>1, <1>3, EccezioneTipo DEF StatementInutile, Chiamata
<1>4. CASE LinkGiaPerso(w)
  BY <1>1, <1>4, EccezioneTipo DEF LinkGiaPerso, Chiamata
<1>5. CASE CadutaInQuery(w, q)
  BY <1>1, <1>5, GuastoTipo, EccezioneTipo DEF CadutaInQuery, Chiamata
<1>6. CASE Rifiutata(w, q)
  BY <1>1, <1>6, EccezioneTipo DEF Rifiutata, Chiamata
<1>7. CASE Eseguita(w, q, ids, dati, poi)
  BY <1>1, <1>7 DEF Eseguita, Vai, Chiamata
<1> QED BY <1>2, <1>3, <1>4, <1>5, <1>6, <1>7 DEF dbQuery

\* So is dbQuery for the freshness of the lobby ids not given out.
LEMMA dbQueryFreschi ==
  ASSUME NEW n, Freschi(n, db), Freschi(n, work), NEW w, NEW q, NEW ids, NEW dati, NEW poi,
         q.ok => Freschi(n, q.dopo),
         dbQuery(w, q, ids, dati, poi)
  PROVE  Freschi(n, db)' /\ Freschi(n, work)'
<1>1. /\ db' = db \/ (q.ok /\ db' = q.dopo)
      /\ work' = work \/ work' = db \/ (q.ok /\ work' = q.dopo)
  BY dbQueryDati
<1> QED BY <1>1 DEF Freschi

\* A call of dbQuery preserves the invariant when the statement does.
LEMMA QueryInv ==
  ASSUME Inv, NEW w \in Worker, NEW q, NEW ids, NEW dati \in Locale, NEW poi \in Etichetta,
         q.ok => /\ q.dopo \in Db /\ Integrita(q.dopo) /\ Freschi(nextId, q.dopo)
                 /\ ids \subseteq 0..MaxLobby,
         dbQuery(w, q, ids, dati, poi),
         UNCHANGED <<nextId, req, risposta>>
  PROVE  Inv'
<1>1. Chiamata'
  BY dbQuerySana DEF Inv
<1>2. Freschi(nextId, db)' /\ Freschi(nextId, work)'
  <2>1. \A l \in LobbyId : l >= nextId => db'.Lobby[l] = Null /\ work'.Lobby[l] = Null
    BY dbQueryFreschi DEF Inv, Freschi
  <2> QED BY <2>1 DEF Freschi
<1> QED BY <1>1, <1>2 DEF Inv

\* A read preserves it.
LEMMA LeggiInv ==
  ASSUME Inv, NEW w \in Worker, NEW dati \in Locale, NEW poi \in Etichetta,
         Leggi(w, dati, poi), UNCHANGED <<nextId, req, risposta>>
  PROVE  Inv'
<1>1. Lettura(work).dopo \in Db /\ Integrita(Lettura(work).dopo) /\ Freschi(nextId, Lettura(work).dopo)
  BY DEF Inv, Chiamata, Lettura
<1>2. {lastId} \subseteq 0..MaxLobby
  BY DEF Inv, Chiamata
<1> QED BY <1>1, <1>2, QueryInv DEF Leggi

\* A read of one row preserves it.
LEMMA LeggiRigaInv ==
  ASSUME Inv, NEW w \in Worker, NEW riga, NEW poi \in Etichetta,
         LeggiRiga(w, riga, poi), UNCHANGED <<nextId, req, risposta>>
  PROVE  Inv'
<1>1. loc[w] \in Locale
  BY DEF Inv, Chiamata
<1>2. (IF riga THEN poi ELSE Gestore(w)) \in Etichetta
  BY DEF Gestore, Etichetta
<1> QED BY <1>1, <1>2, LeggiInv DEF LeggiRiga

\* A write that gives no AUTO_INCREMENT value preserves it when the statement
\* does.
LEMMA ScriviInv ==
  ASSUME Inv, NEW w \in Worker, NEW q, NEW poi \in Etichetta,
         q.ok => q.dopo \in Db /\ Integrita(q.dopo) /\ Freschi(nextId, q.dopo),
         Scrivi(w, q, poi), UNCHANGED <<nextId, req, risposta>>
  PROVE  Inv'
<1>1. loc[w] \in Locale /\ {lastId} \subseteq 0..MaxLobby
  BY DEF Inv, Chiamata
<1> QED BY <1>1, QueryInv DEF Scrivi

\* ClearConnection(1) preserves it.
LEMMA ClearStatementInv ==
  ASSUME Inv, NEW w \in Worker, NEW poi \in Etichetta,
         ClearStatement(w, poi), UNCHANGED <<nextId, req, risposta>>
  PROVE  Inv'
BY DEF Inv, Chiamata, ClearStatement, Vai, dbVars, Freschi

\* The end of a session leaves its variables typed.
LEMMA SessioneFinitaTipo ==
  ASSUME SessioneFinita
  PROVE  autoCommit' \in BOOLEAN /\ inTx' \in BOOLEAN /\ lastId' \in 0..MaxLobby /\ work' = db
<1>1. autoCommit' \in BOOLEAN /\ inTx' \in BOOLEAN
  BY Zenon DEF SessioneFinita
<1>2. lastId' \in 0..MaxLobby
  BY AplDbAssumption DEF SessioneFinita
<1> QED BY <1>1, <1>2 DEF SessioneFinita

\* ClearConnection() preserves it.
LEMMA ClearConnectionInv ==
  ASSUME Inv, NEW w \in Worker, NEW poi \in Etichetta,
         ClearConnection(w, poi), UNCHANGED <<nextId, req, risposta>>
  PROVE  Inv'
<1>1. autoCommit' \in BOOLEAN /\ inTx' \in BOOLEAN /\ lastId' \in 0..MaxLobby /\ work' = db
  BY SessioneFinitaTipo DEF ClearConnection
<1>2. /\ stmt' = "nullo" /\ con' = "nullo"
      /\ pc' = [pc EXCEPT ![w] = poi]
      /\ db' = db /\ loc' = loc /\ guasti' = guasti
  BY DEF ClearConnection, Vai
<1> QED BY <1>1, <1>2 DEF Inv, Chiamata, Freschi

\* Commit preserves it.
LEMMA CommitInv ==
  ASSUME Inv, NEW w \in Worker, NEW poi \in Etichetta,
         Commit(w, poi), UNCHANGED <<nextId, req, risposta>>
  PROVE  Inv'
<1>1. pc' \in [Worker -> Etichetta] /\ loc' \in [Worker -> Locale]
  <2>1. CASE Eccezione(w)
    BY <2>1, EccezioneTipo DEF Inv
  <2>2. CASE Vai(w, poi) /\ UNCHANGED loc
    BY <2>2 DEF Vai, Inv, Chiamata
  <2> QED BY <2>1, <2>2 DEF Commit, CommitApre, CommitConferma
<1>2. guasti' \in 0..MaxGuasti
  BY GuastoTipo DEF Commit, CommitApre, CommitConferma, Inv, Chiamata
<1>3. (db' = db \/ db' = work) /\ (work' = work \/ work' = db \/ work' = db')
  BY DEF Commit, CommitApre, CommitConferma, dbVars
<1>4. /\ db' \in Db /\ Integrita(db') /\ work' \in Db /\ Integrita(work')
      /\ Freschi(nextId, db)' /\ Freschi(nextId, work)'
  BY <1>3 DEF Inv, Chiamata, Freschi
<1>5. /\ con' \in {"nullo", "aperta", "persa"}
      /\ stmt' = stmt /\ lastId' = lastId
      /\ autoCommit' \in BOOLEAN /\ inTx' \in BOOLEAN
  BY DEF Commit, CommitApre, CommitConferma, dbVars, Inv, Chiamata
<1> QED BY <1>1, <1>2, <1>4, <1>5 DEF Inv, Chiamata

\* RollBack preserves it.
LEMMA RollBackInv ==
  ASSUME Inv, NEW w \in Worker, NEW poi \in Etichetta,
         RollBack(w, poi), UNCHANGED <<nextId, req, risposta>>
  PROVE  Inv'
<1>1. pc' \in [Worker -> Etichetta] /\ loc' \in [Worker -> Locale]
  BY DEF RollBack, Vai, Inv, Chiamata, Etichetta
<1>2. guasti' \in 0..MaxGuasti
  BY GuastoTipo DEF RollBack, Inv, Chiamata
<1>3. db' = db /\ (work' = work \/ work' = db)
  BY DEF RollBack, dbVars, SessioneFinita
<1>4. /\ db' \in Db /\ Integrita(db') /\ work' \in Db /\ Integrita(work')
      /\ Freschi(nextId, db)' /\ Freschi(nextId, work)'
  BY <1>3 DEF Inv, Chiamata, Freschi
<1>5. /\ con' \in {"nullo", "aperta", "persa"}
      /\ stmt' \in {"nullo", "aperto", "orfano", "chiuso"}
      /\ autoCommit' \in BOOLEAN /\ inTx' \in BOOLEAN /\ lastId' \in 0..MaxLobby
  <2>1. CASE UNCHANGED conVars
    BY <2>1 DEF conVars, Inv, Chiamata
  <2>2. CASE con' = "nullo" /\ stmt' = (IF stmt = "aperto" THEN "orfano" ELSE stmt) /\ SessioneFinita
    BY <2>2, SessioneFinitaTipo DEF Inv, Chiamata
  <2>3. CASE con' = "persa" /\ UNCHANGED <<stmt, autoCommit, inTx, lastId>>
    BY <2>3 DEF Inv, Chiamata
  <2> QED BY <2>1, <2>2, <2>3 DEF RollBack
<1> QED BY <1>1, <1>2, <1>4, <1>5 DEF Inv, Chiamata

(***************************************************************************)
(* Every handler preserves the invariant, call by call.                     *)
(***************************************************************************)

\* The handlers that only read.
LEMMA LettureInv ==
  ASSUME Inv, NEW w \in Worker,
         \/ HMLogin(w) \/ HMVisualizzaLobbyId(w) \/ HMVisualizzaUtente(w)
         \/ HMVisualizzaLobby(w) \/ HMGrafico(w),
         UNCHANGED <<nextId, req, risposta>>
  PROVE  Inv'
<1> DEFINE r == req[w]
<1>1. loc[w] \in Locale /\ {"query2", "query3", "clear1", "clear", "conferma", "http"} \subseteq Etichetta
  BY DEF Inv, Chiamata, Etichetta
<1>2. CASE HMLogin(w)
  <2>1. [loc[w] EXCEPT !.trovato = Presente(work, r.u, r.flag)] \in Locale
    <3>1. Presente(work, r.u, r.flag) \in BOOLEAN
      BY DEF Presente
    <3> QED BY <1>1, <3>1 DEF Locale
  <2>2. (IF loc[w].trovato THEN "query2" ELSE "conferma") \in Etichetta
    BY <1>1
  <2> QED BY <1>1, <1>2, <2>1, <2>2, LeggiInv, ClearConnectionInv DEF HMLogin
<1>3. CASE HMVisualizzaLobby(w)
  <2>1. /\ [loc[w] EXCEPT !.possedute = Possedute(work, r.u, r.g)] \in Locale
        /\ [loc[w] EXCEPT !.presente = LobbyPresente(work, r.u, r.g)] \in Locale
        /\ [loc[w] EXCEPT !.disponibili = Disponibili(work, r.u, r.g)] \in Locale
    BY <1>1 DEF Locale, Possedute, LobbyPresente, Disponibili
  <2> QED BY <1>1, <1>3, <2>1, LeggiInv, ClearConnectionInv DEF HMVisualizzaLobby
<1>4. CASE HMVisualizzaLobbyId(w)
  BY <1>1, <1>4, LeggiInv, ClearConnectionInv DEF HMVisualizzaLobbyId
<1>5. CASE HMVisualizzaUtente(w)
  BY <1>1, <1>5, LeggiInv, ClearConnectionInv DEF HMVisualizzaUtente
<1>6. CASE HMGrafico(w)
  BY <1>1, <1>6, LeggiInv, ClearConnectionInv DEF HMGrafico
<1> QED BY <1>2, <1>3, <1>4, <1>5, <1>6

\* The handlers that write reservations or delete a lobby.
LEMMA PrenotazioniInv ==
  ASSUME Inv, NEW w \in Worker,
         HMPartecipaLobby(w) \/ HMAggiungiUtente(w) \/ HMEliminaUtente(w) \/ HMEliminaLobby(w),
         UNCHANGED <<nextId, req, risposta>>
  PROVE  Inv'
<1> DEFINE r == req[w]
           a == <<r.u, r.g>>
<1>1. {"query2", "clear1", "clear", "conferma"} \subseteq Etichetta
  BY DEF Etichetta
<1>2. a \in Account /\ r.l \in LobbyId /\ "Attesa" \in Stato
  BY DEF Inv, Richiesta, Account, Stato
<1>3. work \in Db /\ Integrita(work) /\ Freschi(nextId, work)
  BY DEF Inv, Chiamata
<1> HIDE DEF r
<1>4. CASE HMPartecipaLobby(w)
  <2>1. InsertPrenotazione(work, a, r.l, "Attesa").ok =>
          /\ InsertPrenotazione(work, a, r.l, "Attesa").dopo \in Db
          /\ Integrita(InsertPrenotazione(work, a, r.l, "Attesa").dopo)
          /\ Freschi(nextId, InsertPrenotazione(work, a, r.l, "Attesa").dopo)
    BY <1>2, <1>3, InsertPrenotazioneSano DEF Freschi
  <2> QED BY <1>1, <1>4, <2>1, LeggiRigaInv, ScriviInv, ClearConnectionInv DEF HMPartecipaLobby, r
<1>5. CASE HMAggiungiUtente(w)
  <2>1. /\ AccettaPrenotazione(work, a, r.l).dopo \in Db
        /\ Integrita(AccettaPrenotazione(work, a, r.l).dopo)
        /\ Freschi(nextId, AccettaPrenotazione(work, a, r.l).dopo)
    BY <1>2, <1>3, AccettaPrenotazioneSano DEF Freschi
  <2> QED BY <1>1, <1>5, <2>1, ScriviInv, ClearConnectionInv DEF HMAggiungiUtente, r
<1>6. CASE HMEliminaUtente(w)
  <2>1. /\ DeletePrenotazione(work, a, r.l).dopo \in Db
        /\ Integrita(DeletePrenotazione(work, a, r.l).dopo)
        /\ Freschi(nextId, DeletePrenotazione(work, a, r.l).dopo)
    BY <1>2, <1>3, DeletePrenotazioneSano DEF Freschi
  <2> QED BY <1>1, <1>6, <2>1, ScriviInv, ClearConnectionInv DEF HMEliminaUtente, r
<1>7. CASE HMEliminaLobby(w)
  <2>1. /\ DeleteLobby(work, r.l).dopo \in Db
        /\ Integrita(DeleteLobby(work, r.l).dopo)
        /\ Freschi(nextId, DeleteLobby(work, r.l).dopo)
    BY <1>2, <1>3, DeleteLobbySano DEF Freschi
  <2> QED BY <1>1, <1>7, <2>1, ScriviInv, ClearConnectionInv DEF HMEliminaLobby, r
<1> QED BY <1>4, <1>5, <1>6, <1>7

\* The handlers that register a user or an account.
LEMMA AccountInv ==
  ASSUME Inv, NEW w \in Worker,
         HMCsStats(w) \/ HMLolStats(w) \/ HMTftStats(w) \/ Registrazione(w),
         UNCHANGED <<nextId, req, risposta>>
  PROVE  Inv'
<1> DEFINE r == req[w]
<1>1. {"query2", "clear1", "clear", "rifiuta", "conferma"} \subseteq Etichetta
  BY DEF Etichetta
<1>2. r.u \in Utente /\ r.g \in Gioco /\ r.n \in Nickname /\ r.e \in Email
  BY DEF Inv, Richiesta
<1>3. /\ work \in Db /\ Integrita(work) /\ Freschi(nextId, work)
      /\ loc[w] \in Locale
      /\ {lastId} \cup LobbyId \subseteq 0..MaxLobby
  BY DEF Inv, Chiamata, LobbyId
<1>4. ASSUME NEW op, Stats(w, op)
      PROVE  Inv'
  <2>1. [loc[w] EXCEPT !.trovato = NicknameUsato(work, r.n, r.g)] \in Locale
    <3>1. NicknameUsato(work, r.n, r.g) \in BOOLEAN
      BY DEF NicknameUsato
    <3> QED BY <1>3, <3>1 DEF Locale
  <2>2. (IF loc[w].trovato THEN "rifiuta" ELSE "query2") \in Etichetta
    BY <1>1
  <2>3. InsertAccount(work, r.u, r.g, r.n).ok =>
          /\ InsertAccount(work, r.u, r.g, r.n).dopo \in Db
          /\ Integrita(InsertAccount(work, r.u, r.g, r.n).dopo)
          /\ Freschi(nextId, InsertAccount(work, r.u, r.g, r.n).dopo)
    BY <1>2, <1>3, InsertAccountSano DEF Freschi
  <2>4. CASE dbQuery(w, InsertAccount(work, r.u, r.g, r.n), {lastId} \cup LobbyId, loc[w], "clear")
    BY <1>1, <1>3, <2>3, <2>4, QueryInv
  <2> QED BY <1>1, <1>4, <2>1, <2>2, <2>4, LeggiInv, ClearConnectionInv DEF Stats
<1>5. CASE Registrazione(w)
  <2>1. InsertUtente(work, r.u, r.e).ok =>
          /\ InsertUtente(work, r.u, r.e).dopo \in Db
          /\ Integrita(InsertUtente(work, r.u, r.e).dopo)
          /\ Freschi(nextId, InsertUtente(work, r.u, r.e).dopo)
    BY <1>2, <1>3, InsertUtenteSano DEF Freschi
  <2>2. CASE dbQuery(w, InsertUtente(work, r.u, r.e), {lastId} \cup LobbyId, loc[w], "clear")
    BY <1>1, <1>3, <2>1, <2>2, QueryInv
  <2> QED BY <1>1, <1>5, <2>2, ClearConnectionInv DEF Registrazione
<1> QED BY <1>4, <1>5 DEF HMCsStats, HMLolStats, HMTftStats

\* The INSERT INTO Lobby of HMInserisciLobby, with the id it takes.
LEMMA InserisciRigaInv ==
  ASSUME Inv, NEW w \in Worker,
         dbQuery(w, InsertLobby(work, nextId, req[w].u), {nextId}, loc[w], "clear1"),
         IdConsumato,
         UNCHANGED <<req, risposta>>
  PROVE  Inv'
<1> DEFINE q == InsertLobby(work, nextId, req[w].u)
<1>1. /\ req[w].u \in Utente /\ loc[w] \in Locale /\ "clear1" \in Etichetta
      /\ work \in Db /\ Integrita(work) /\ MaxLobby \in Nat /\ nextId \in 1..(MaxLobby + 1)
  BY AplDbAssumption DEF Inv, Chiamata, Richiesta, Etichetta
<1>2. q.ok => /\ q.dopo \in Db /\ Integrita(q.dopo) /\ {nextId} \subseteq 0..MaxLobby
              /\ \A k \in LobbyId : k # nextId => q.dopo.Lobby[k] = work.Lobby[k]
              /\ nextId \in LobbyId /\ q.dopo.Lobby[nextId] # Null
  <2>1. ASSUME q.ok
        PROVE  nextId \in LobbyId /\ q.dopo.Lobby[nextId] = req[w].u
    <3>1. nextId \in LobbyId
      BY <2>1 DEF InsertLobby
    <3>2. q.dopo.Lobby = [k \in LobbyId |-> IF k = nextId THEN req[w].u ELSE work.Lobby[k]]
      BY <1>1 DEF InsertLobby, Db
    <3> QED BY <3>1, <3>2
  <2>2. req[w].u # Null
    BY <1>1, AplDbAssumption
  <2>3. nextId \in LobbyId => {nextId} \subseteq 0..MaxLobby
    BY <1>1 DEF LobbyId
  <2> QED BY <1>1, <2>1, <2>2, <2>3, InsertLobbySano
<1> HIDE DEF q
<1>3. Chiamata'
  BY <1>1, <1>2, dbQuerySana DEF Inv, q
<1>4. /\ db' = db \/ (q.ok /\ db' = q.dopo)
      /\ work' = work \/ work' = db \/ (q.ok /\ work' = q.dopo)
  BY dbQueryDati DEF q
<1>5. CASE nextId' = nextId + 1 /\ nextId <= MaxLobby
  <2>1. \A l \in LobbyId : l >= nextId + 1 => db'.Lobby[l] = Null /\ work'.Lobby[l] = Null
    BY <1>1, <1>2, <1>4 DEF Inv, Freschi, LobbyId
  <2>2. Freschi(nextId, db)' /\ Freschi(nextId, work)'
    BY <1>5, <2>1 DEF Freschi
  <2>3. nextId' \in 1..(MaxLobby + 1)
    BY <1>1, <1>5
  <2> QED BY <1>3, <2>2, <2>3 DEF Inv
<1>6. CASE nextId' = nextId /\ db' = db /\ work' \in {work, db}
  <2>1. Freschi(nextId, db)' /\ Freschi(nextId, work)'
    BY <1>6 DEF Inv, Freschi
  <2> QED BY <1>3, <1>6, <2>1 DEF Inv
<1>7. con' = "aperta" /\ work' # work => q.ok
  BY DEF dbQuery, ConnessioneFallita, StatementInutile, LinkGiaPerso, CadutaInQuery,
         Rifiutata, Eseguita, dbVars, q
<1>8. con' = "persa" /\ db' = db => work' \in {work, db}
  BY DEF dbQuery, ConnessioneFallita, StatementInutile, LinkGiaPerso, CadutaInQuery,
         Rifiutata, Eseguita, dbVars
<1>9. q.ok => nextId <= MaxLobby
  BY <1>1, <1>2 DEF LobbyId
<1> QED BY <1>5, <1>6, <1>7, <1>8, <1>9 DEF IdConsumato

\* HMInserisciLobby.
LEMMA InserisciInv ==
  ASSUME Inv, NEW w \in Worker, HMInserisciLobby(w), UNCHANGED <<req, risposta>>
  PROVE  Inv'
<1> DEFINE r == req[w]
<1>1. {"query1", "clear1", "query2", "clear2", "query3", "clear3", "query4", "commit2",
       "clear", "conferma", "rifiuta"} \subseteq Etichetta
  BY DEF Etichetta
<1>2. CASE dbQuery(w, InsertLobby(work, nextId, r.u), {nextId}, loc[w], "clear1") /\ IdConsumato
  BY <1>2, InserisciRigaInv
<1>3. CASE UNCHANGED nextId
  <2>1. CASE Leggi(w, [loc[w] EXCEPT !.idLobby = lastId], "clear2")
    <3>1. [loc[w] EXCEPT !.idLobby = lastId] \in Locale
      BY DEF Inv, Chiamata, Locale
    <3> QED BY <1>1, <1>3, <2>1, <3>1, LeggiInv
  <2>2. CASE Scrivi(w, InsertPrenotazione(work, <<r.u, r.g>>, loc[w].idLobby, "Accettato"), "commit2")
    <3>1. <<r.u, r.g>> \in Account /\ "Accettato" \in Stato /\ work \in Db /\ Integrita(work)
      BY DEF Inv, Chiamata, Richiesta, Account, Stato
    <3> DEFINE q == InsertPrenotazione(work, <<r.u, r.g>>, loc[w].idLobby, "Accettato")
    <3>2. q.ok => q.dopo \in Db /\ Integrita(q.dopo) /\ q.dopo.Lobby = work.Lobby
      BY <3>1, InsertPrenotazioneSano
    <3>3. q.ok => Freschi(nextId, q.dopo)
      BY <3>2 DEF Freschi, Inv
    <3> HIDE DEF q
    <3> QED BY <1>1, <1>3, <2>2, <3>2, <3>3, ScriviInv DEF q
  <2>3. CASE LeggiRiga(w, HaAccountConLobby(work, r.u, r.g), "clear3")
    BY <1>1, <1>3, <2>3, LeggiRigaInv
  <2>4. CASE \E poi \in Etichetta : Commit(w, poi)
    BY <1>3, <2>4, CommitInv
  <2>5. CASE \E poi \in Etichetta : ClearStatement(w, poi) \/ ClearConnection(w, poi) \/ RollBack(w, poi)
    BY <1>3, <2>5, ClearStatementInv, ClearConnectionInv, RollBackInv
  <2> QED BY <1>1, <1>2, <2>1, <2>2, <2>3, <2>4, <2>5 DEF HMInserisciLobby
<1> QED BY <1>2, <1>3 DEF HMInserisciLobby

(***************************************************************************)
(* The theorems.                                                            *)
(***************************************************************************)

\* The messages of Ricevi are typed.
LEMMA MessaggiTipo ==
  ASSUME NEW op \in Ops
  PROVE  Messaggi(op) \subseteq Richiesta /\ Messaggi(op) # {}
<1>1. /\ op \in TutteOps
      /\ Scelte(Utente, "u", op) # {} /\ Scelte(Utente, "u", op) \subseteq Utente
      /\ Scelte(Gioco, "g", op) # {} /\ Scelte(Gioco, "g", op) \subseteq Gioco
      /\ Scelte(LobbyId, "l", op) # {} /\ Scelte(LobbyId, "l", op) \subseteq LobbyId
  <2>1. LobbyId # {}
    <3>1. 1 \in LobbyId
      BY AplDbAssumption DEF LobbyId
    <3> QED BY <3>1
  <2> QED BY <2>1, AplDbAssumption, LobbyServerAssumption DEF Scelte
<1>2. /\ Scelte(Nickname, "n", op) # {} /\ Scelte(Nickname, "n", op) \subseteq Nickname
      /\ Scelte(Email, "e", op) # {} /\ Scelte(Email, "e", op) \subseteq Email
      /\ Scelte(BOOLEAN, "flag", op) # {} /\ Scelte(BOOLEAN, "flag", op) \subseteq BOOLEAN
  BY AplDbAssumption DEF Scelte
<1>3. Messaggi(op) \subseteq Richiesta
  BY <1>1, <1>2 DEF Messaggi, Richiesta
<1>4. PICK u \in Scelte(Utente, "u", op), g \in Scelte(Gioco, "g", op),
           l \in Scelte(LobbyId, "l", op), n \in Scelte(Nickname, "n", op),
           e \in Scelte(Email, "e", op), f \in Scelte(BOOLEAN, "flag", op) : TRUE
  BY <1>1, <1>2
<1>5. [op |-> op, u |-> u, g |-> g, l |-> l, n |-> n, e |-> e, flag |-> f] \in Messaggi(op)
  BY <1>4 DEF Messaggi
<1> QED BY <1>3, <1>5

\* The invariant holds when the server starts.
LEMMA InitInv == Init => Inv
<1> SUFFICES ASSUME Init PROVE Inv
  OBVIOUS
<1>1. db \in Db /\ Integrita(db) /\ work = db
  BY LobbyServerAssumption DEF Init
<1>2. Freschi(nextId, db) /\ nextId \in 1..(MaxLobby + 1)
  BY AplDbAssumption DEF Init, Freschi, LobbyId
<1>3. (CHOOSE r \in UNION {Messaggi(op) : op \in Ops} : TRUE) \in Richiesta
  <2>1. PICK op \in Ops : TRUE
    BY LobbyServerAssumption
  <2>2. UNION {Messaggi(o) : o \in Ops} # {}
    BY <2>1, MessaggiTipo
  <2>3. UNION {Messaggi(o) : o \in Ops} \subseteq Richiesta
    BY MessaggiTipo
  <2> QED BY <2>2, <2>3
<1>4. LocaleIniziale \in Locale
  BY AplDbAssumption DEF LocaleIniziale, Locale
<1>5. autoCommit \in BOOLEAN /\ inTx \in BOOLEAN
  BY Zenon DEF Init
<1>6. lastId \in 0..MaxLobby /\ guasti \in 0..MaxGuasti
  BY AplDbAssumption, LobbyServerAssumption DEF Init
<1> QED BY <1>1, <1>2, <1>3, <1>4, <1>5, <1>6 DEF Init, Inv, Chiamata, Etichetta

\* Every step preserves it.
LEMMA NextInv == Inv /\ [Next]_vars => Inv'
<1> SUFFICES ASSUME Inv, [Next]_vars PROVE Inv'
  OBVIOUS
<1>1. LocaleIniziale \in Locale
  BY AplDbAssumption DEF LocaleIniziale, Locale
<1>2. ASSUME NEW w \in Worker, Ricevi(w)
      PROVE  Inv'
  <2>1. PICK op \in Ops : \E r \in Messaggi(op) :
           req' = [req EXCEPT ![w] = r] /\ pc' = [pc EXCEPT ![w] = Primo(op)]
    BY <1>2 DEF Ricevi
  <2>2. req' \in [Worker -> Richiesta]
    BY <2>1, MessaggiTipo DEF Inv
  <2>3. pc' \in [Worker -> Etichetta]
    BY <2>1 DEF Inv, Chiamata, Primo, Etichetta
  <2> QED BY <1>1, <1>2, <2>2, <2>3 DEF Ricevi, Inv, Chiamata, dbVars, conVars, Freschi
<1>3. ASSUME NEW w \in Worker, Lavora(w)
      PROVE  Inv'
  <2>1. CASE Gestisci(w) /\ UNCHANGED <<req, risposta>>
    BY <2>1, LettureInv, PrenotazioniInv, AccountInv DEF Gestisci
  <2>2. CASE HMInserisciLobby(w) /\ UNCHANGED <<req, risposta>>
    BY <2>2, InserisciInv
  <2>3. CASE Invia(w)
    BY <2>3 DEF Invia, Vai, Inv, Chiamata, dbVars, conVars, Freschi, Etichetta
  <2> QED BY <1>3, <2>1, <2>2, <2>3 DEF Lavora
<1>4. ASSUME NEW w \in Worker, RispostaPython(w)
      PROVE  Inv'
  BY <1>4 DEF RispostaPython, Vai, Inv, Chiamata, dbVars, conVars, Freschi, Etichetta
<1>5. CASE LinkCade
  <2>1. guasti' \in 0..MaxGuasti
    BY <1>5, GuastoTipo DEF LinkCade, Inv, Chiamata
  <2> QED BY <1>5, <2>1 DEF LinkCade, wrkVars, Inv, Chiamata, Freschi
<1>6. CASE Riavvio
  <2>1. guasti' \in 0..MaxGuasti
    BY <1>6, GuastoTipo DEF Riavvio, Inv, Chiamata
  <2>2. autoCommit' \in BOOLEAN /\ inTx' \in BOOLEAN /\ lastId' \in 0..MaxLobby /\ work' = db
    BY <1>6, SessioneFinitaTipo DEF Riavvio
  <2> QED BY <1>1, <1>6, <2>1, <2>2 DEF Riavvio, Inv, Chiamata, Freschi, Etichetta
<1>7. CASE UNCHANGED vars
  BY <1>7 DEF vars, dbVars, conVars, wrkVars, Inv, Chiamata, Freschi
<1> QED BY <1>2, <1>3, <1>4, <1>5, <1>6, <1>7 DEF Next

\* The variables of the server keep their types, whatever the number of its
\* threads and whatever fails.
THEOREM TypeCorrect == Spec => []TypeOK
<1>1. Spec => []Inv
  BY InitInv, NextInv, PTL DEF Spec
<1>2. Inv => TypeOK
  BY InvImplica
<1> QED BY <1>1, <1>2, PTL

\* The constraints of ConfigdB.sql hold of the committed data and of what every
\* session sees, and no lobby has an id still to be given: no interleaving of
\* handlers, no exception, lost link or restart breaks them.
THEOREM IntegrityHolds == Spec => []Integrity
<1>1. Spec => []Inv
  BY InitInv, NextInv, PTL DEF Spec
<1>2. Inv => Integrity
  BY InvImplica
<1> QED BY <1>1, <1>2, PTL
-----------------------------------------------------------------------------
(***************************************************************************)
(* Several workers and no transaction: what is confirmed of users and       *)
(* accounts, and the lists of visualizza_lobby.                             *)
(***************************************************************************)

\* What no statement of these handlers takes back.
Cresce(d, x) ==
  /\ \A u \in Utente : d.Utenti[u] # Null => x.Utenti[u] = d.Utenti[u]
  /\ \A a \in Account : d.Account_Game[a] # Null => x.Account_Game[a] = d.Account_Game[a]
  /\ \A l \in LobbyId : x.Lobby[l] = d.Lobby[l] \/ x.Lobby[l] = Null

\* Nor do they take back an accepted reservation, unless the lobby goes with it
\* or the user is removed from it.
Accolti(d, x) ==
  "elimina_utente" \notin Ops =>
    \A a \in Account : \A l \in LobbyId :
      d.Prenotazioni[<<a, l>>] = "Accettato" =>
        x.Prenotazioni[<<a, l>>] = "Accettato" \/ x.Lobby[l] = Null

\* How far a registration has come: the row is there before it is confirmed.
ContoPasso(w) ==
  LET r == req[w]
      fatto == pc[w] \in {"clear", "conferma"} \/ risposta[w] = "conferma" IN
    /\ r.op \in StatsOps /\ pc[w] # "libero" => Noto(r.u)
    /\ r.op \in StatsOps /\ fatto => db.Account_Game[<<r.u, r.g>>] = r.n
    /\ r.op = "registrazione" /\ fatto => db.Utenti[r.u] = r.e

\* The user u is in lobby l, which is not theirs, or l is deleted.
Dentro(u, l) ==
  \/ db.Lobby[l] = Null
  \/ db.Lobby[l] # u /\ \E h \in Gioco : db.Prenotazioni[<<<<u, h>>, l>>] = "Accettato"

\* How far visualizza_lobby has come.  What a lobby is to the user changes, once
\* read, only by its being deleted.
ListePasso(w) ==
  LET r == req[w]
      v == loc[w] IN
  r.op = "visualizza_lobby" =>
    /\ pc[w] = "query1" => v.possedute = {}
    /\ pc[w] \in {"query1", "query2"} => v.presente = {}
    /\ pc[w] \in {"query1", "query2", "query3"} => v.disponibili = {}
    /\ \A l \in v.possedute : db.Lobby[l] = r.u \/ db.Lobby[l] = Null
    /\ v.possedute \cap (v.presente \cup v.disponibili) = {}
    /\ "elimina_utente" \notin Ops =>
         (\A l \in v.presente : Dentro(r.u, l)) /\ v.presente \cap v.disponibili = {}

PassoInsieme(w) ==
  /\ req[w].op \in Ops
  /\ ContoPasso(w)
  /\ ListePasso(w)

\* Every statement is committed when it is executed.
SessioneAperta == work = db /\ autoCommit /\ ~inTx

Insieme == Inv /\ SessioneAperta /\ \A w \in Worker : PassoInsieme(w)

\* The invariant contains the two properties.
LEMMA InsiemeImplica ==
  Insieme => ContiConfermati /\ ListeSeparate
<1> SUFFICES ASSUME Insieme PROVE ContiConfermati /\ ListeSeparate
  OBVIOUS
<1>1. Null \notin Nickname /\ Null \notin Email
  BY AplDbAssumption
<1>2. ASSUME NEW w \in Worker, risposta[w] = "conferma", NEW v \in Utente
      PROVE  /\ req[w].op \in StatsOps =>
                  (db.Account_Game[<<v, req[w].g>>] = req[w].n <=> v = req[w].u)
             /\ req[w].op = "registrazione" => (db.Utenti[v] = req[w].e <=> v = req[w].u)
  <2>1. ContoPasso(w)
    BY DEF Insieme, PassoInsieme
  <2>2. /\ req[w].u \in Utente /\ req[w].g \in Gioco
        /\ req[w].n # Null /\ req[w].e # Null
        /\ NicknameUnici(db) /\ EmailUniche(db)
    BY <1>1 DEF Insieme, Inv, Chiamata, Richiesta, Integrita
  <2>3. CASE req[w].op \in StatsOps
    BY <1>2, <2>1, <2>2, <2>3 DEF ContoPasso, NicknameUnici, StatsOps
  <2>4. CASE req[w].op = "registrazione"
    BY <1>2, <2>1, <2>2, <2>4 DEF ContoPasso, EmailUniche, StatsOps
  <2> QED BY <2>3, <2>4
<1>3. ContiConfermati
  BY <1>2 DEF ContiConfermati
<1>4. ListeSeparate
  BY DEF Insieme, PassoInsieme, ListePasso, Dentro, ListeSeparate
<1> QED BY <1>3, <1>4

(***************************************************************************)
(* The statements.                                                          *)
(***************************************************************************)

\* A read.
LEMMA UgualeCresce ==
  ASSUME NEW d
  PROVE  Cresce(d, d) /\ Accolti(d, d)
BY DEF Cresce, Accolti

\* INSERT INTO Utenti.
LEMMA InsertUtenteCresce ==
  ASSUME NEW d \in Db, NEW u \in Utente, NEW e \in Email, InsertUtente(d, u, e).ok
  PROVE  /\ Cresce(d, InsertUtente(d, u, e).dopo) /\ Accolti(d, InsertUtente(d, u, e).dopo)
         /\ InsertUtente(d, u, e).dopo.Utenti[u] = e
<1> DEFINE x == InsertUtente(d, u, e).dopo
<1>1. /\ x.Utenti = [d.Utenti EXCEPT ![u] = e]
      /\ x.Account_Game = d.Account_Game
      /\ x.Lobby = d.Lobby
      /\ x.Prenotazioni = d.Prenotazioni
      /\ d.Utenti[u] = Null /\ d.Utenti \in [Utente -> Email \cup {Null}]
  BY DEF InsertUtente, Db
<1> HIDE DEF x
<1> QED BY <1>1 DEF Cresce, Accolti, x

\* INSERT ... SELECT into Account_Game.
LEMMA InsertAccountCresce ==
  ASSUME NEW d \in Db, NEW u \in Utente, NEW g \in Gioco, NEW n \in Nickname,
         d.Utenti[u] # Null, InsertAccount(d, u, g, n).ok
  PROVE  /\ Cresce(d, InsertAccount(d, u, g, n).dopo) /\ Accolti(d, InsertAccount(d, u, g, n).dopo)
         /\ InsertAccount(d, u, g, n).dopo.Account_Game[<<u, g>>] = n
<1> DEFINE x == InsertAccount(d, u, g, n).dopo
<1>1. /\ x.Account_Game = [d.Account_Game EXCEPT ![<<u, g>>] = n]
      /\ x.Utenti = d.Utenti
      /\ x.Lobby = d.Lobby
      /\ x.Prenotazioni = d.Prenotazioni
      /\ d.Account_Game[<<u, g>>] = Null
      /\ d.Account_Game \in [Account -> Nickname \cup {Null}] /\ <<u, g>> \in Account
  BY DEF InsertAccount, Db, Account
<1> HIDE DEF x
<1> QED BY <1>1 DEF Cresce, Accolti, x

\* INSERT INTO Prenotazioni.
LEMMA InsertPrenotazioneCresce ==
  ASSUME NEW d \in Db, NEW a \in Account, NEW l \in LobbyId, InsertPrenotazione(d, a, l, "Attesa").ok
  PROVE  /\ Cresce(d, InsertPrenotazione(d, a, l, "Attesa").dopo)
         /\ Accolti(d, InsertPrenotazione(d, a, l, "Attesa").dopo)
<1> DEFINE x == InsertPrenotazione(d, a, l, "Attesa").dopo
<1>1. /\ x.Prenotazioni = [k \in Account \X LobbyId |-> IF k = <<a, l>> THEN "Attesa" ELSE d.Prenotazioni[k]]
      /\ x.Utenti = d.Utenti
      /\ x.Account_Game = d.Account_Game
      /\ x.Lobby = d.Lobby
      /\ d.Prenotazioni[<<a, l>>] = Null
  BY DEF InsertPrenotazione, Db
<1>2. \A b \in Account : \A k \in LobbyId :
        x.Prenotazioni[<<b, k>>] = IF b = a /\ k = l THEN "Attesa" ELSE d.Prenotazioni[<<b, k>>]
  BY <1>1
<1>3. "Accettato" # Null
  BY AplDbAssumption
<1> HIDE DEF x
<1> QED BY <1>1, <1>2, <1>3 DEF Cresce, Accolti, x

\* UPDATE Prenotazioni.
LEMMA AccettaCresce ==
  ASSUME NEW d \in Db, NEW a \in Account, NEW l \in LobbyId
  PROVE  /\ Cresce(d, AccettaPrenotazione(d, a, l).dopo)
         /\ Accolti(d, AccettaPrenotazione(d, a, l).dopo)
<1> DEFINE x == AccettaPrenotazione(d, a, l).dopo
<1>1. /\ x.Prenotazioni = [d.Prenotazioni EXCEPT ![<<a, l>>] = IF @ = Null THEN Null ELSE "Accettato"]
      /\ x.Utenti = d.Utenti
      /\ x.Account_Game = d.Account_Game
      /\ x.Lobby = d.Lobby
      /\ d.Prenotazioni \in [Account \X LobbyId -> Stato \cup {Null}]
  BY DEF AccettaPrenotazione, Db
<1>2. "Accettato" # Null
  BY AplDbAssumption
<1> HIDE DEF x
<1>3. ASSUME NEW b \in Account, NEW k \in LobbyId, d.Prenotazioni[<<b, k>>] = "Accettato"
      PROVE  x.Prenotazioni[<<b, k>>] = "Accettato"
  BY <1>1, <1>2, <1>3
<1> QED BY <1>1, <1>3 DEF Cresce, Accolti, x

\* DELETE FROM Prenotazioni, which the handler of elimina_utente sends.
LEMMA DeletePrenotazioneCresce ==
  ASSUME NEW d \in Db, NEW a \in Account, NEW l \in LobbyId, "elimina_utente" \in Ops
  PROVE  /\ Cresce(d, DeletePrenotazione(d, a, l).dopo)
         /\ Accolti(d, DeletePrenotazione(d, a, l).dopo)
BY DEF DeletePrenotazione, Cresce, Accolti, Db

\* DELETE FROM Lobby with its cascade.
LEMMA DeleteLobbyCresce ==
  ASSUME NEW d \in Db, NEW l \in LobbyId
  PROVE  /\ Cresce(d, DeleteLobby(d, l).dopo)
         /\ Accolti(d, DeleteLobby(d, l).dopo)
<1> DEFINE x == DeleteLobby(d, l).dopo
<1>1. /\ x.Utenti = d.Utenti
      /\ x.Account_Game = d.Account_Game
      /\ x.Lobby = [d.Lobby EXCEPT ![l] = Null]
      /\ x.Prenotazioni = [k \in Account \X LobbyId |-> IF k[2] = l THEN Null ELSE d.Prenotazioni[k]]
      /\ d.Lobby \in [LobbyId -> Utente \cup {Null}]
  BY DEF DeleteLobby, Db
<1>2. \A b \in Account : \A k \in LobbyId :
        x.Prenotazioni[<<b, k>>] = IF k = l THEN Null ELSE d.Prenotazioni[<<b, k>>]
  BY <1>1
<1> HIDE DEF x
<1> QED BY <1>1, <1>2 DEF Cresce, Accolti, x

(***************************************************************************)
(* The calls.                                                               *)
(***************************************************************************)

\* A worker that does not move, or whose call has thrown, keeps its facts while
\* the database grows.
LEMMA Resta ==
  ASSUME Insieme, Cresce(db, db'), Accolti(db, db'), NEW v \in Worker,
         req'[v] = req[v], loc'[v] = loc[v], risposta'[v] = risposta[v],
         pc'[v] \in {pc[v], "libero", "rifiuta"},
         pc'[v] # "libero" => pc[v] # "libero"
  PROVE  PassoInsieme(v)'
<1>1. /\ req[v].u \in Utente /\ req[v].g \in Gioco /\ req[v].n # Null /\ req[v].e # Null
      /\ loc[v] \in Locale
      /\ req[v].op \in Ops /\ ContoPasso(v) /\ ListePasso(v)
  BY AplDbAssumption DEF Insieme, PassoInsieme, Inv, Chiamata, Richiesta
<1>2. ContoPasso(v)'
  <2>1. <<req[v].u, req[v].g>> \in Account
    BY <1>1 DEF Account
  <2> QED BY <1>1, <2>1 DEF ContoPasso, Cresce, Noto
<1>3. ASSUME req[v].op = "visualizza_lobby"
      PROVE  ListePasso(v)'
  <2>1. ASSUME "elimina_utente" \notin Ops, NEW l \in loc[v].presente
        PROVE  Dentro(req[v].u, l)'
    <3>1. l \in LobbyId /\ Dentro(req[v].u, l)
      BY <1>1, <1>3, <2>1 DEF ListePasso, Locale
    <3>2. CASE db'.Lobby[l] = Null
      BY <1>1, <3>2 DEF Dentro
    <3>3. CASE db'.Lobby[l] # Null
      <4>1. db'.Lobby[l] = db.Lobby[l]
        BY <3>1, <3>3 DEF Cresce
      <4>2. PICK h \in Gioco : db.Prenotazioni[<<<<req[v].u, h>>, l>>] = "Accettato"
        BY <3>1, <3>3, <4>1 DEF Dentro
      <4>3. <<req[v].u, h>> \in Account
        BY <1>1 DEF Account
      <4>4. db'.Prenotazioni[<<<<req[v].u, h>>, l>>] = "Accettato"
        BY <2>1, <3>1, <3>3, <4>2, <4>3 DEF Accolti
      <4> QED BY <1>1, <3>1, <3>3, <4>1, <4>4 DEF Dentro
    <3> QED BY <3>2, <3>3
  <2>2. \A l \in loc[v].possedute : db'.Lobby[l] = req[v].u \/ db'.Lobby[l] = Null
    BY <1>1, <1>3 DEF ListePasso, Locale, Cresce
  <2> QED BY <1>1, <1>3, <2>1, <2>2 DEF ListePasso
<1>4. req[v].op # "visualizza_lobby" => ListePasso(v)'
  BY DEF ListePasso
<1> QED BY <1>1, <1>2, <1>3, <1>4 DEF PassoInsieme

\* What dbQuery may leave, in a session that commits every statement.
LEMMA QueryEsito ==
  ASSUME Insieme, NEW w \in Worker, req[w].op # "inserisci_lobby", pc[w] # "libero",
         NEW q, NEW ids, NEW dati, NEW poi, dbQuery(w, q, ids, dati, poi)
  PROVE  /\ work' = db' /\ (db' = db \/ (q.ok /\ db' = q.dopo))
         /\ \A v \in Worker : v # w => pc'[v] = pc[v] /\ loc'[v] = loc[v]
         /\ \/ loc'[w] = loc[w] /\ pc'[w] \in {"libero", "rifiuta"}
            \/ q.ok /\ db' = q.dopo /\ loc'[w] = dati /\ pc'[w] = poi
<1>1. pc \in [Worker -> Etichetta] /\ loc \in [Worker -> Locale] /\ work = db
  BY DEF Insieme, SessioneAperta, Inv, Chiamata
<1>2. Eccezione(w) => /\ \A v \in Worker : v # w => pc'[v] = pc[v]
                      /\ loc' = loc /\ pc'[w] \in {"libero", "rifiuta"}
  BY <1>1 DEF Eccezione, Gestore, Vai
<1>3. CASE ConnessioneFallita(w) \/ StatementInutile(w) \/ LinkGiaPerso(w) \/ Rifiutata(w, q)
  BY <1>1, <1>2, <1>3 DEF ConnessioneFallita, StatementInutile, LinkGiaPerso, Rifiutata, dbVars
<1>4. CASE CadutaInQuery(w, q)
  BY <1>1, <1>2, <1>4 DEF CadutaInQuery
<1>5. CASE Eseguita(w, q, ids, dati, poi)
  <2>1. autoCommit
    BY DEF Insieme, SessioneAperta
  <2> QED BY <1>1, <1>5, <2>1 DEF Eseguita, Vai
<1> QED BY <1>3, <1>4, <1>5 DEF dbQuery

\* The session goes on committing every statement.
LEMMA QuerySessione ==
  ASSUME Insieme, NEW w, NEW q, NEW ids, NEW dati, NEW poi, dbQuery(w, q, ids, dati, poi)
  PROVE  autoCommit' /\ ~inTx'
<1>1. autoCommit /\ ~inTx
  BY DEF Insieme, SessioneAperta
<1>2. UNCHANGED <<autoCommit, inTx>> \/ (autoCommit' = autoCommit /\ inTx' = ~autoCommit)
  BY Zenon DEF dbQuery, ConnessioneFallita, StatementInutile, LinkGiaPerso, CadutaInQuery,
               Rifiutata, Eseguita
<1>3. CASE UNCHANGED <<autoCommit, inTx>>
  BY <1>1, <1>3, Zenon
<1>4. CASE autoCommit' = autoCommit /\ inTx' = ~autoCommit
  <2>1. autoCommit'
    BY <1>1, <1>4, Zenon
  <2>2. ~inTx'
    BY <1>1, <1>4, Zenon
  <2> QED BY <2>1, <2>2
<1> QED BY <1>2, <1>3, <1>4, Zenon

\* dbQuery keeps the invariant, if the statement only adds and the handler knows
\* what it goes on with.
LEMMA QueryInsieme ==
  ASSUME Insieme, Inv', NEW w \in Worker, req[w].op # "inserisci_lobby", pc[w] # "libero",
         NEW q, NEW ids, NEW dati, NEW poi, dbQuery(w, q, ids, dati, poi),
         UNCHANGED <<req, risposta>>,
         q.ok => Cresce(db, q.dopo) /\ Accolti(db, q.dopo),
         q.ok /\ db' = q.dopo /\ loc'[w] = dati /\ pc'[w] = poi => PassoInsieme(w)'
  PROVE  Insieme'
<1>1. /\ work' = db' /\ (db' = db \/ (q.ok /\ db' = q.dopo))
      /\ \A v \in Worker : v # w => pc'[v] = pc[v] /\ loc'[v] = loc[v]
      /\ \/ loc'[w] = loc[w] /\ pc'[w] \in {"libero", "rifiuta"}
         \/ q.ok /\ db' = q.dopo /\ loc'[w] = dati /\ pc'[w] = poi
  BY QueryEsito
<1>2. autoCommit' /\ ~inTx'
  BY QuerySessione
<1>3. Cresce(db, db') /\ Accolti(db, db')
  BY <1>1, UgualeCresce
<1>4. \A v \in Worker : PassoInsieme(v)'
  <2>1. ASSUME NEW v \in Worker, v # w PROVE PassoInsieme(v)'
    BY <1>1, <1>3, <2>1, Resta
  <2>2. CASE loc'[w] = loc[w] /\ pc'[w] \in {"libero", "rifiuta"}
    <3>1. PassoInsieme(w)'
      BY <1>3, <2>2, Resta
    <3> QED BY <2>1, <3>1
  <2>3. CASE q.ok /\ db' = q.dopo /\ loc'[w] = dati /\ pc'[w] = poi
    BY <2>1, <2>3
  <2> QED BY <1>1, <2>2, <2>3
<1> QED BY <1>1, <1>2, <1>4 DEF Insieme, SessioneAperta

\* So does a read.
LEMMA LeggiInsieme ==
  ASSUME Insieme, Inv', NEW w \in Worker, req[w].op # "inserisci_lobby", pc[w] # "libero",
         NEW dati, NEW poi, Leggi(w, dati, poi),
         UNCHANGED <<req, risposta>>,
         db' = db /\ loc'[w] = dati /\ pc'[w] = poi => PassoInsieme(w)'
  PROVE  Insieme'
<1>1. Lettura(work).dopo = db
  BY DEF Lettura, Insieme, SessioneAperta
<1>2. Cresce(db, Lettura(work).dopo) /\ Accolti(db, Lettura(work).dopo)
  BY <1>1, UgualeCresce
<1>3. dbQuery(w, Lettura(work), {lastId}, dati, poi)
  BY DEF Leggi
<1> QED BY <1>1, <1>2, <1>3, QueryInsieme

\* A call after which the handler confirms nothing and has read nothing more.
LEMMA LeggiOltre ==
  ASSUME Insieme, Inv', NEW w \in Worker, pc[w] # "libero",
         req[w].op \notin StatsOps \cup {"registrazione", "visualizza_lobby", "inserisci_lobby"},
         NEW dati, NEW poi, Leggi(w, dati, poi) \/ LeggiRiga(w, dati, poi),
         UNCHANGED <<req, risposta>>
  PROVE  Insieme'
<1>1. PassoInsieme(w)'
  BY DEF Insieme, PassoInsieme, ContoPasso, ListePasso
<1>2. CASE Leggi(w, dati, poi)
  BY <1>1, <1>2, LeggiInsieme
<1>3. CASE LeggiRiga(w, dati, poi)
  BY <1>1, <1>3, LeggiInsieme DEF LeggiRiga
<1> QED BY <1>2, <1>3

\* So is a write of such a handler, if the statement only adds.
LEMMA ScriviOltre ==
  ASSUME Insieme, Inv', NEW w \in Worker, pc[w] # "libero",
         req[w].op \notin StatsOps \cup {"registrazione", "visualizza_lobby", "inserisci_lobby"},
         NEW q, NEW poi, Scrivi(w, q, poi),
         q.ok => Cresce(db, q.dopo) /\ Accolti(db, q.dopo),
         UNCHANGED <<req, risposta>>
  PROVE  Insieme'
<1>1. PassoInsieme(w)'
  BY DEF Insieme, PassoInsieme, ContoPasso, ListePasso
<1> QED BY <1>1, QueryInsieme DEF Scrivi

\* ClearConnection confirms only what was done.
LEMMA ClearInsieme ==
  ASSUME Insieme, Inv', NEW w \in Worker, pc[w] # "libero",
         NEW poi \in {"query2", "conferma", "rifiuta", "http"}, ClearConnection(w, poi),
         UNCHANGED <<req, risposta>>,
         poi = "query2" => req[w].op # "visualizza_lobby",
         poi = "conferma" => pc[w] = "clear" \/ req[w].op \notin StatsOps \cup {"registrazione"}
  PROVE  Insieme'
<1>1. /\ pc'[w] = poi /\ (\A v \in Worker : v # w => pc'[v] = pc[v])
      /\ loc' = loc /\ db' = db /\ work' = db'
  BY DEF ClearConnection, SessioneFinita, Vai, Insieme, Inv, Chiamata
<1>2. autoCommit' /\ ~inTx'
  BY Zenon DEF ClearConnection, SessioneFinita
<1>3. Cresce(db, db') /\ Accolti(db, db')
  BY <1>1, UgualeCresce
<1>4. PassoInsieme(w)'
  <2>1. PassoInsieme(w) /\ req' = req /\ risposta' = risposta
    BY DEF Insieme
  <2>2. ContoPasso(w)'
    BY <1>1, <2>1 DEF PassoInsieme, ContoPasso, Noto
  <2>3. ListePasso(w) => ListePasso(w)'
    BY <1>1, <2>1 DEF ListePasso, Dentro
  <2> QED BY <2>1, <2>2, <2>3 DEF PassoInsieme
<1>5. \A v \in Worker : PassoInsieme(v)'
  BY <1>1, <1>3, <1>4, Resta
<1> QED BY <1>1, <1>2, <1>5 DEF Insieme, SessioneAperta

(***************************************************************************)
(* The handlers.                                                            *)
(***************************************************************************)

\* The messages that are neither a registration nor visualizza_lobby.
LEMMA AltriInsieme ==
  ASSUME Insieme, Inv', NEW w \in Worker,
         \/ HMLogin(w) \/ HMVisualizzaLobbyId(w) \/ HMVisualizzaUtente(w) \/ HMPartecipaLobby(w)
         \/ HMAggiungiUtente(w) \/ HMEliminaUtente(w) \/ HMEliminaLobby(w) \/ HMGrafico(w),
         UNCHANGED <<req, risposta>>
  PROVE  Insieme'
<1> DEFINE r == req[w]
           a == <<r.u, r.g>>
<1>1. pc[w] # "libero"
  BY DEF HMLogin, HMVisualizzaLobbyId, HMVisualizzaUtente, HMPartecipaLobby,
         HMAggiungiUtente, HMEliminaUtente, HMEliminaLobby, HMGrafico, In
<1>2. req[w].op \notin StatsOps \cup {"registrazione", "visualizza_lobby", "inserisci_lobby"}
  BY DEF HMLogin, HMVisualizzaLobbyId, HMVisualizzaUtente, HMPartecipaLobby,
         HMAggiungiUtente, HMEliminaUtente, HMEliminaLobby, HMGrafico, In, StatsOps
<1>3. a \in Account /\ r.l \in LobbyId /\ db \in Db /\ work = db /\ r.op \in Ops
  BY DEF Insieme, SessioneAperta, PassoInsieme, Inv, Chiamata, Richiesta, Account
<1>4. ASSUME NEW poi \in {"query2", "conferma", "rifiuta", "http"}, ClearConnection(w, poi)
      PROVE  Insieme'
  BY <1>1, <1>2, <1>4, ClearInsieme
<1>5. CASE HMLogin(w)
  <2>1. (IF loc[w].trovato THEN "query2" ELSE "conferma") \in {"query2", "conferma", "rifiuta", "http"}
    OBVIOUS
  <2> QED BY <1>1, <1>2, <1>4, <1>5, <2>1, LeggiOltre DEF HMLogin
<1>6. CASE HMVisualizzaLobbyId(w) \/ HMVisualizzaUtente(w) \/ HMGrafico(w)
  BY <1>1, <1>2, <1>4, <1>6, LeggiOltre DEF HMVisualizzaLobbyId, HMVisualizzaUtente, HMGrafico
<1>7. CASE HMPartecipaLobby(w)
  <2>1. CASE Scrivi(w, InsertPrenotazione(work, a, r.l, "Attesa"), "clear")
    BY <1>1, <1>2, <1>3, <2>1, InsertPrenotazioneCresce, ScriviOltre
  <2> QED BY <1>1, <1>2, <1>4, <1>7, <2>1, LeggiOltre DEF HMPartecipaLobby
<1>8. CASE HMAggiungiUtente(w)
  <2>1. CASE Scrivi(w, AccettaPrenotazione(work, a, r.l), "clear")
    BY <1>1, <1>2, <1>3, <2>1, AccettaCresce, ScriviOltre
  <2> QED BY <1>4, <1>8, <2>1 DEF HMAggiungiUtente
<1>9. CASE HMEliminaUtente(w)
  <2>1. "elimina_utente" \in Ops
    BY <1>3, <1>9 DEF HMEliminaUtente, In
  <2>2. CASE Scrivi(w, DeletePrenotazione(work, a, r.l), "clear")
    BY <1>1, <1>2, <1>3, <2>1, <2>2, DeletePrenotazioneCresce, ScriviOltre
  <2> QED BY <1>4, <1>9, <2>2 DEF HMEliminaUtente
<1>10. CASE HMEliminaLobby(w)
  <2>1. CASE Scrivi(w, DeleteLobby(work, r.l), "clear")
    BY <1>1, <1>2, <1>3, <2>1, DeleteLobbyCresce, ScriviOltre
  <2> QED BY <1>4, <1>10, <2>1 DEF HMEliminaLobby
<1> QED BY <1>5, <1>6, <1>7, <1>8, <1>9, <1>10

\* The registration of a user or of an account.
LEMMA ContiInsieme ==
  ASSUME Insieme, Inv', NEW w \in Worker,
         HMCsStats(w) \/ HMLolStats(w) \/ HMTftStats(w) \/ Registrazione(w),
         UNCHANGED <<req, risposta>>
  PROVE  Insieme'
<1> DEFINE r == req[w]
<1>1. /\ r.u \in Utente /\ r.g \in Gioco /\ r.n \in Nickname /\ r.e \in Email
      /\ db \in Db /\ work = db /\ PassoInsieme(w)
  BY DEF Insieme, SessioneAperta, Inv, Chiamata, Richiesta
<1>2. ASSUME NEW op \in StatsOps, Stats(w, op)
      PROVE  Insieme'
  <2>1. /\ pc[w] \in {"query1", "clear1", "query2", "clear"} /\ r.op = op
        /\ r.op \notin {"registrazione", "visualizza_lobby", "inserisci_lobby"}
    BY <1>2 DEF Stats, In, StatsOps
  <2>2. db.Utenti[r.u] # Null
    BY <1>1, <1>2, <2>1 DEF PassoInsieme, ContoPasso, Noto
  <2>3. CASE Leggi(w, [loc[w] EXCEPT !.trovato = NicknameUsato(work, r.n, r.g)], "clear1")
    <3>1. db' = db /\ pc'[w] = "clear1" => PassoInsieme(w)'
      BY <1>1, <2>1 DEF PassoInsieme, ContoPasso, ListePasso, Noto
    <3> QED BY <2>1, <2>3, <3>1, LeggiInsieme
  <2>4. CASE /\ dbQuery(w, InsertAccount(work, r.u, r.g, r.n), {lastId} \cup LobbyId, loc[w], "clear")
    <3> DEFINE q == InsertAccount(work, r.u, r.g, r.n)
    <3>1. q.ok => Cresce(db, q.dopo) /\ Accolti(db, q.dopo) /\ q.dopo.Account_Game[<<r.u, r.g>>] = r.n
      BY <1>1, <2>2, InsertAccountCresce
    <3> HIDE DEF q
    <3>2. q.ok /\ db' = q.dopo /\ pc'[w] = "clear" => PassoInsieme(w)'
      BY <1>1, <2>1, <2>2, <3>1 DEF PassoInsieme, ContoPasso, ListePasso, Noto, Cresce
    <3> QED BY <2>1, <2>4, <3>1, <3>2, QueryInsieme DEF q
  <2>5. CASE pc[w] = "clear1" /\ ClearConnection(w, IF loc[w].trovato THEN "rifiuta" ELSE "query2")
    BY <2>1, <2>5, ClearInsieme
  <2>6. CASE pc[w] = "clear" /\ ClearConnection(w, "conferma")
    BY <2>1, <2>6, ClearInsieme
  <2> QED BY <1>2, <2>3, <2>4, <2>5, <2>6 DEF Stats, In
<1>3. CASE Registrazione(w)
  <2>1. pc[w] \in {"query1", "clear"} /\ r.op = "registrazione" /\ r.op \notin StatsOps
    BY <1>3 DEF Registrazione, In, StatsOps
  <2>2. CASE dbQuery(w, InsertUtente(work, r.u, r.e), {lastId} \cup LobbyId, loc[w], "clear")
    <3> DEFINE q == InsertUtente(work, r.u, r.e)
    <3>1. q.ok => Cresce(db, q.dopo) /\ Accolti(db, q.dopo) /\ q.dopo.Utenti[r.u] = r.e
      BY <1>1, InsertUtenteCresce
    <3> HIDE DEF q
    <3>2. q.ok /\ db' = q.dopo /\ pc'[w] = "clear" => PassoInsieme(w)'
      BY <1>1, <2>1, <3>1 DEF PassoInsieme, ContoPasso, ListePasso
    <3> QED BY <2>1, <2>2, <3>1, <3>2, QueryInsieme DEF q
  <2>3. CASE pc[w] = "clear" /\ ClearConnection(w, "conferma")
    BY <2>1, <2>3, ClearInsieme
  <2> QED BY <1>3, <2>2, <2>3 DEF Registrazione, In
<1>4. {"csstats", "lolstats", "tftstats"} \subseteq StatsOps
  BY DEF StatsOps
<1> QED BY <1>2, <1>3, <1>4 DEF HMCsStats, HMLolStats, HMTftStats

\* The three queries of visualizza_lobby.
LEMMA VisualizzaInsieme ==
  ASSUME Insieme, Inv', NEW w \in Worker, HMVisualizzaLobby(w), UNCHANGED <<req, risposta>>
  PROVE  Insieme'
<1> DEFINE r == req[w]
           v == loc[w]
           v1 == [v EXCEPT !.possedute = Possedute(work, r.u, r.g)]
           v2 == [v EXCEPT !.presente = LobbyPresente(work, r.u, r.g)]
           v3 == [v EXCEPT !.disponibili = Disponibili(work, r.u, r.g)]
<1>1. /\ v \in Locale /\ work = db /\ r.op \in Ops /\ req' = req
      /\ ListePasso(w)
  BY DEF Insieme, SessioneAperta, PassoInsieme, Inv, Chiamata
<1>2. r.op = "visualizza_lobby" /\ r.op \notin StatsOps /\ pc[w] # "libero"
  BY DEF HMVisualizzaLobby, In, StatsOps
<1>3. ContoPasso(w)'
  BY <1>1, <1>2 DEF ContoPasso
<1>4. "Accettato" # Null
  BY AplDbAssumption
<1>5. CASE pc[w] = "query1" /\ Leggi(w, v1, "query2")
  <2>1. /\ v1.possedute = Possedute(db, r.u, r.g)
        /\ v1.presente = v.presente /\ v1.disponibili = v.disponibili
    BY <1>1 DEF Locale
  <2>2. ASSUME db' = db, loc'[w] = v1, pc'[w] = "query2"
        PROVE  ListePasso(w)'
    <3>1. v1.presente = {} /\ v1.disponibili = {}
      BY <1>1, <1>2, <1>5, <2>1, <2>2 DEF ListePasso
    <3>2. \A l \in v1.possedute : db.Lobby[l] = r.u
      BY <2>1 DEF Possedute
    <3> HIDE DEF v1
    <3> QED BY <1>1, <2>2, <3>1, <3>2 DEF ListePasso
  <2> QED BY <1>1, <1>2, <1>3, <1>5, <2>2, LeggiInsieme DEF PassoInsieme
<1>6. CASE pc[w] = "query2" /\ Leggi(w, v2, "query3")
  <2>1. /\ v2.presente = LobbyPresente(db, r.u, r.g)
        /\ v2.possedute = v.possedute /\ v2.disponibili = v.disponibili
    BY <1>1 DEF Locale
  <2>2. ASSUME db' = db, loc'[w] = v2, pc'[w] = "query3"
        PROVE  ListePasso(w)'
    <3>1. /\ v2.disponibili = {}
          /\ \A l \in v2.possedute : db.Lobby[l] = r.u \/ db.Lobby[l] = Null
      BY <1>1, <1>2, <1>6, <2>1, <2>2 DEF ListePasso
    <3>2. \A l \in v2.presente : /\ db.Lobby[l] # r.u /\ db.Lobby[l] # Null
                                 /\ \E h \in Gioco : db.Prenotazioni[<<<<r.u, h>>, l>>] = "Accettato"
      BY <2>1 DEF LobbyPresente
    <3> HIDE DEF v2
    <3>3. \A l \in v2.presente : Dentro(r.u, l)'
      BY <1>1, <2>2, <3>2 DEF Dentro
    <3> QED BY <1>1, <2>2, <3>1, <3>2, <3>3 DEF ListePasso
  <2> QED BY <1>1, <1>2, <1>3, <1>6, <2>2, LeggiInsieme DEF PassoInsieme
<1>7. CASE pc[w] = "query3" /\ Leggi(w, v3, "clear")
  <2>1. /\ v3.disponibili = Disponibili(db, r.u, r.g)
        /\ v3.possedute = v.possedute /\ v3.presente = v.presente
    BY <1>1 DEF Locale
  <2>2. ASSUME db' = db, loc'[w] = v3, pc'[w] = "clear"
        PROVE  ListePasso(w)'
    <3>1. /\ v3.possedute \cap v3.presente = {}
          /\ \A l \in v3.possedute : db.Lobby[l] = r.u \/ db.Lobby[l] = Null
          /\ "elimina_utente" \notin Ops => \A l \in v3.presente : Dentro(r.u, l)
      BY <1>1, <1>2, <1>7, <2>1, <2>2 DEF ListePasso
    <3>2. \A l \in v3.disponibili : /\ db.Lobby[l] # r.u /\ db.Lobby[l] # Null
                                    /\ \A h \in Gioco : db.Prenotazioni[<<<<r.u, h>>, l>>] = Null
      BY <2>1 DEF Disponibili
    <3> HIDE DEF v3
    <3>3. v3.possedute \cap (v3.presente \cup v3.disponibili) = {}
      BY <3>1, <3>2
    <3>4. "elimina_utente" \notin Ops => v3.presente \cap v3.disponibili = {}
      BY <1>4, <3>1, <3>2 DEF Dentro
    <3>5. "elimina_utente" \notin Ops => \A l \in v3.presente : Dentro(r.u, l)'
      BY <1>1, <2>2, <3>1 DEF Dentro
    <3> QED BY <1>1, <2>2, <3>1, <3>3, <3>4, <3>5 DEF ListePasso
  <2> QED BY <1>1, <1>2, <1>3, <1>7, <2>2, LeggiInsieme DEF PassoInsieme
<1>8. CASE pc[w] = "clear" /\ ClearConnection(w, "conferma")
  BY <1>2, <1>8, ClearInsieme
<1> QED BY <1>5, <1>6, <1>7, <1>8 DEF HMVisualizzaLobby, In

\* It holds when the server starts.
LEMMA InitInsieme == Init => Insieme
<1> SUFFICES ASSUME Init PROVE Insieme
  OBVIOUS
<1>1. Inv
  BY InitInv
<1>2. autoCommit /\ ~inTx
  BY Zenon DEF Init
<1>3. work = db /\ \A w \in Worker : pc[w] = "libero" /\ risposta[w] = "nessuna" /\ loc[w] = LocaleIniziale
  BY DEF Init
<1>4. \A w \in Worker : req[w].op \in Ops
  <2> DEFINE M == UNION {Messaggi(op) : op \in Ops}
  <2>1. PICK op \in Ops : TRUE
    BY LobbyServerAssumption
  <2>2. M # {}
    BY <2>1, MessaggiTipo
  <2>3. \A r \in M : r.op \in Ops
    BY DEF Messaggi
  <2>4. (CHOOSE r \in M : TRUE) \in M
    BY <2>2
  <2>5. \A w \in Worker : req[w] = CHOOSE r \in M : TRUE
    BY DEF Init
  <2> HIDE DEF M
  <2> QED BY <2>3, <2>4, <2>5
<1>5. \A w \in Worker : ContoPasso(w) /\ ListePasso(w)
  BY <1>3 DEF ContoPasso, ListePasso, LocaleIniziale
<1> QED BY <1>1, <1>2, <1>3, <1>4, <1>5 DEF Insieme, SessioneAperta, PassoInsieme

\* A message arrives.
LEMMA RiceviInsieme ==
  ASSUME Insieme, Inv', NEW w \in Worker, Ricevi(w)
  PROVE  Insieme'
<1>1. PICK op \in Ops : \E r \in Messaggi(op) :
         Sensata(r) /\ req' = [req EXCEPT ![w] = r] /\ pc' = [pc EXCEPT ![w] = Primo(op)]
  BY DEF Ricevi
<1>2. PICK r \in Messaggi(op) :
         Sensata(r) /\ req' = [req EXCEPT ![w] = r] /\ pc' = [pc EXCEPT ![w] = Primo(op)]
  BY <1>1
<1>3. /\ req \in [Worker -> Richiesta] /\ pc \in [Worker -> Etichetta]
      /\ loc \in [Worker -> Locale]
      /\ risposta \in [Worker -> {"nessuna", "conferma", "rifiuta", "riporta"}]
  BY DEF Insieme, Inv, Chiamata
<1>4. r.op = op
  BY DEF Messaggi
<1>5. /\ req'[w] = r /\ pc'[w] = Primo(op) /\ loc'[w] = LocaleIniziale /\ risposta'[w] = "nessuna"
      /\ \A v \in Worker : v # w => /\ req'[v] = req[v] /\ pc'[v] = pc[v] /\ loc'[v] = loc[v]
                                    /\ risposta'[v] = risposta[v]
      /\ db' = db /\ work' = work
  BY <1>2, <1>3 DEF Ricevi, dbVars
<1>6. autoCommit' = autoCommit /\ inTx' = inTx
  BY DEF Ricevi, conVars
<1>7. PassoInsieme(w)'
  <2>1. Primo(op) \notin {"clear", "conferma"}
    BY DEF Primo
  <2>2. op \in StatsOps => db.Utenti[r.u] # Null
    BY <1>2, <1>4 DEF Sensata, StatsOps, Noto
  <2>3. ContoPasso(w)'
    BY <1>4, <1>5, <2>1, <2>2 DEF ContoPasso, Noto, StatsOps
  <2>4. ListePasso(w)'
    BY <1>5 DEF ListePasso, LocaleIniziale
  <2> QED BY <1>4, <1>5, <2>3, <2>4 DEF PassoInsieme
<1>8. ASSUME NEW v \in Worker, v # w PROVE PassoInsieme(v)'
  BY <1>5, <1>8, Resta, UgualeCresce
<1> QED BY <1>5, <1>6, <1>7, <1>8 DEF Insieme, SessioneAperta

\* Every step keeps it.
LEMMA NextInsieme == SenzaTransazioni /\ Insieme /\ [Next]_vars => Insieme'
<1> SUFFICES ASSUME SenzaTransazioni, Insieme, [Next]_vars PROVE Insieme'
  OBVIOUS
<1>1. Inv'
  BY NextInv DEF Insieme
<1>2. Cresce(db, db) /\ Accolti(db, db)
  BY UgualeCresce
<1>3. ASSUME NEW w \in Worker, Lavora(w)
      PROVE  Insieme'
  <2>1. CASE Gestisci(w) /\ UNCHANGED <<req, risposta>>
    BY <1>1, <2>1, AltriInsieme, ContiInsieme, VisualizzaInsieme DEF Gestisci
  <2>2. CASE HMInserisciLobby(w)
    <3>1. req[w].op # "inserisci_lobby"
      BY DEF Insieme, PassoInsieme, SenzaTransazioni
    <3> QED BY <2>2, <3>1 DEF HMInserisciLobby, In
  <2>3. CASE Invia(w)
    <3>1. /\ pc'[w] = "libero" /\ (\A v \in Worker : v # w => pc'[v] = pc[v])
          /\ risposta'[w] = pc[w] /\ (\A v \in Worker : v # w => risposta'[v] = risposta[v])
          /\ db' = db /\ work' = work /\ req' = req /\ loc' = loc
      BY <2>3 DEF Invia, Vai, dbVars, Insieme, Inv, Chiamata
    <3>2. autoCommit' = autoCommit /\ inTx' = inTx
      BY <2>3 DEF Invia, conVars
    <3>3. PassoInsieme(w)'
      <4>1. PassoInsieme(w)
        BY DEF Insieme
      <4>2. ContoPasso(w)'
        BY <3>1, <4>1 DEF PassoInsieme, ContoPasso, Noto
      <4>3. ListePasso(w)'
        BY <3>1, <4>1 DEF PassoInsieme, ListePasso, Dentro
      <4> QED BY <3>1, <4>1, <4>2, <4>3 DEF PassoInsieme
    <3>4. ASSUME NEW v \in Worker, v # w PROVE PassoInsieme(v)'
      BY <1>2, <3>1, <3>4, Resta
    <3> QED BY <1>1, <3>1, <3>2, <3>3, <3>4 DEF Insieme, SessioneAperta
  <2> QED BY <1>3, <2>1, <2>2, <2>3 DEF Lavora
<1>4. ASSUME NEW w \in Worker, RispostaPython(w)
      PROVE  Insieme'
  <2>1. /\ pc[w] = "http" /\ pc'[w] \in {"riporta", "query1"}
        /\ pc'[w] = "query1" => req[w].op \in StatsOps
        /\ \A v \in Worker : v # w => pc'[v] = pc[v]
        /\ db' = db /\ work' = work /\ req' = req /\ loc' = loc /\ risposta' = risposta
    BY <1>4 DEF RispostaPython, Vai, dbVars, Insieme, Inv, Chiamata
  <2>2. autoCommit' = autoCommit /\ inTx' = inTx
    BY <1>4 DEF RispostaPython, conVars
  <2>3. PassoInsieme(w)'
    BY <2>1 DEF Insieme, PassoInsieme, ContoPasso, ListePasso, Dentro, Noto, StatsOps
  <2>4. ASSUME NEW v \in Worker, v # w PROVE PassoInsieme(v)'
    BY <1>2, <2>1, <2>4, Resta
  <2> QED BY <1>1, <2>1, <2>2, <2>3, <2>4 DEF Insieme, SessioneAperta
<1>5. CASE LinkCade
  <2>1. db' = db /\ work' = db /\ req' = req /\ loc' = loc /\ risposta' = risposta /\ pc' = pc
    BY <1>5 DEF LinkCade, wrkVars
  <2>2. autoCommit' = autoCommit /\ inTx' = inTx
    BY <1>5 DEF LinkCade
  <2>3. ASSUME NEW v \in Worker PROVE PassoInsieme(v)'
    BY <1>2, <2>1, Resta
  <2> QED BY <1>1, <2>1, <2>2, <2>3 DEF Insieme, SessioneAperta
<1>6. CASE Riavvio
  <2>1. /\ db' = db /\ work' = db /\ req' = req
        /\ \A v \in Worker : pc'[v] = "libero" /\ risposta'[v] = "nessuna" /\ loc'[v] = LocaleIniziale
    BY <1>6 DEF Riavvio, SessioneFinita
  <2>2. autoCommit' /\ ~inTx'
    BY <1>6, Zenon DEF Riavvio, SessioneFinita
  <2>3. ASSUME NEW v \in Worker PROVE PassoInsieme(v)'
    BY <2>1 DEF Insieme, PassoInsieme, ContoPasso, ListePasso, LocaleIniziale
  <2> QED BY <1>1, <2>1, <2>2, <2>3 DEF Insieme, SessioneAperta
<1>7. CASE UNCHANGED vars
  <2>1. db' = db /\ work' = work /\ req' = req /\ loc' = loc /\ risposta' = risposta /\ pc' = pc
    BY <1>7 DEF vars, dbVars, wrkVars
  <2>2. autoCommit' = autoCommit /\ inTx' = inTx
    BY <1>7 DEF vars, conVars
  <2>3. ASSUME NEW v \in Worker PROVE PassoInsieme(v)'
    BY <1>2, <2>1, Resta
  <2> QED BY <1>1, <2>1, <2>2, <2>3 DEF Insieme, SessioneAperta
<1>8. ASSUME NEW w \in Worker, Ricevi(w)
      PROVE  Insieme'
  BY <1>1, <1>8, RiceviInsieme
<1> QED BY <1>3, <1>4, <1>5, <1>6, <1>7, <1>8 DEF Next

\* Any number of workers, none opening a transaction: of the clients that ask for
\* one nickname or one e-mail at the same time, one at most is told it is theirs,
\* and it is, in the committed database.
THEOREM ContiConfermatiInsieme == Spec => []ContiConfermati
<1>1. CASE SenzaTransazioni
  <2>1. Init => Insieme
    BY InitInsieme
  <2>2. Insieme /\ [Next]_vars => Insieme'
    BY <1>1, NextInsieme
  <2>3. Insieme => ContiConfermati
    BY InsiemeImplica
  <2> QED BY <2>1, <2>2, <2>3, PTL DEF Spec
<1>2. CASE ~SenzaTransazioni
  <2>1. ContiConfermati
    BY <1>2 DEF ContiConfermati
  <2> QED BY <2>1, PTL
<1> QED BY <1>1, <1>2

\* Any number of workers, none opening a transaction: of the three lists
\* visualizza_lobby reads at three moments, the user's own has no lobby of the
\* others; and if no user is removed from a lobby no two have one in common, and
\* the user is in those it was told it is in until they are deleted.
THEOREM ListeSeparateInsieme == Spec => []ListeSeparate
<1>1. CASE SenzaTransazioni
  <2>1. Init => Insieme
    BY InitInsieme
  <2>2. Insieme /\ [Next]_vars => Insieme'
    BY <1>1, NextInsieme
  <2>3. Insieme => ListeSeparate
    BY InsiemeImplica
  <2> QED BY <2>1, <2>2, <2>3, PTL DEF Spec
<1>2. CASE ~SenzaTransazioni
  <2>1. ListeSeparate
    BY <1>2 DEF ListeSeparate
  <2> QED BY <2>1, PTL
<1> QED BY <1>1, <1>2
=============================================================================
