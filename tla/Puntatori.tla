------------------------------ MODULE Puntatori ------------------------------
(***************************************************************************)
(* DatabaseConfig one access at a time: the objects behind the pointers     *)
(* con and stmt, and the calls of several workers inside dbQuery, Commit,   *)
(* RollBack and ClearConnection, none of which takes a lock.                *)
(*                                                                          *)
(* A pointer is 0 (nullptr) or the number of an object.  A member function  *)
(* called through nullptr, or on an object that is deleted before the       *)
(* function has ended, is undefined behaviour: what the process does then   *)
(* is anything, and the execution of the model ends there (abuso).          *)
(*                                                                          *)
(* A handler is any sequence of calls here.  Whether a call of the          *)
(* connector throws depends on MariaDB and on the link to it: it always may.*)
(***************************************************************************)
EXTENDS Crow

CONSTANTS
  Nessuno,  \* no worker
  MaxCon,   \* bound: Connection objects something still points to
  MaxStmt   \* bound: Statement objects something still points to

ASSUME PuntatoriAssumption == Nessuno \notin Worker /\ MaxCon \in Nat /\ MaxStmt \in Nat

VARIABLES
  con,        \* dbManager.con
  stmt,       \* dbManager.stmt
  conVive,    \* Connection objects not deleted
  stmtVivi,   \* Statement objects not deleted
  padrone,    \* the Connection that created each Statement
  lucchetto,  \* who holds the mutex of each Connection and of its Statements
  risultato,  \* whose result set is in Statement::results
  metodo,     \* the function of DatabaseConfig each worker is in
  passo,      \* the access it makes next; "fuori" of DatabaseConfig
  usaCon,     \* the Connection a member function of which it is inside
  usaStmt,    \* the Statement a member function of which it is inside
  esito,      \* what the call gave, until the handler has used it
  (* history *)
  abuso,      \* undefined behaviour
  perso,      \* an object no pointer leads to any more has not been deleted
  insieme     \* two workers have been inside DatabaseConfig at once

oggetti == <<con, stmt, conVive, stmtVivi, padrone, lucchetto, risultato>>
chiamate == <<metodo, passo, usaCon, usaStmt, esito>>
storia  == <<abuso, perso, insieme>>
puntVars == <<oggetti, chiamate, storia>>

ConId  == 1..MaxCon
StmtId == 1..MaxStmt

Metodi == {"SELECT", "INSERT", "Commit", "RollBack", "ClearConnection", "ClearConnection(1)"}

\* The accesses, in the order of the code.
Passi == {"fuori",
          "if (!con)", "connect", "setSchema", "setSchema lock", "setSchema fine",
          "if (!stmt)", "createStatement",
          "executeQuery", "executeQuery lock", "executeQuery fine", "close",
          "releaseResultSet",
          "setAutoCommit", "setAutoCommit lock", "setAutoCommit fine",
          "commit", "commit lock", "commit fine",
          "rollback", "rollback lock", "rollback fine",
          "delete con", "con = nullptr", "delete stmt", "stmt = nullptr"}

Esiti == {"", "fatto", "proprio", "altrui", "nullo", "eccezione"}

PuntTypeOK ==
  /\ con \in {0} \cup ConId
  /\ stmt \in {0} \cup StmtId
  /\ conVive \subseteq ConId
  /\ stmtVivi \subseteq StmtId
  /\ padrone \in [StmtId -> {0} \cup ConId]
  /\ lucchetto \in [ConId -> Worker \cup {Nessuno}]
  /\ risultato \in [StmtId -> Worker \cup {Nessuno}]
  /\ metodo \in [Worker -> Metodi \cup {"nessuno"}]
  /\ passo \in [Worker -> Passi]
  /\ usaCon \in [Worker -> {0} \cup ConId]
  /\ usaStmt \in [Worker -> {0} \cup StmtId]
  /\ esito \in [Worker -> Esiti]
  /\ abuso \in BOOLEAN
  /\ perso \in BOOLEAN
  /\ insieme \in BOOLEAN

-----------------------------------------------------------------------------
(* Objects.                                                                 *)

\* A Statement some pointer leads to.
StmtRiferiti == {stmt} \cup {usaStmt[w] : w \in Worker}

\* A Connection some pointer leads to, that of a Statement included.
ConRiferite == {con} \cup {usaCon[w] : w \in Worker} \cup
               {padrone[s] : s \in StmtRiferiti \cap StmtId}

\* The memory of a new object: the first number nothing points to.
Nuovo(c, Id, riferiti) == c \in Id \ riferiti /\ \A d \in Id \ riferiti : c <= d

Orfano(s) == padrone[s] \notin conVive

\* The next access of the same call.
Va(w, p) == passo' = [passo EXCEPT ![w] = p] /\ UNCHANGED <<metodo, esito>>

\* The call is over.
Torna(w, e) ==
  /\ passo' = [passo EXCEPT ![w] = "fuori"]
  /\ esito' = [esito EXCEPT ![w] = e]
  /\ metodo' = [metodo EXCEPT ![w] = "nessuno"]

Lancia(w) == Torna(w, "eccezione")

Abusa(w) == abuso' = TRUE /\ UNCHANGED <<oggetti, chiamate, perso, insieme>>

-----------------------------------------------------------------------------
(* A call of one of the four functions.                                     *)

Primo(m) == IF m \in {"SELECT", "INSERT", "Commit", "RollBack"}
            THEN "if (!con)" ELSE "delete stmt"

Chiama(w, m) ==
  /\ passo[w] = "fuori"
  /\ metodo' = [metodo EXCEPT ![w] = m]
  /\ passo' = [passo EXCEPT ![w] = Primo(m)]
  /\ esito' = [esito EXCEPT ![w] = ""]
  /\ insieme' = (insieme \/ \E v \in Worker \ {w} : passo[v] # "fuori")
  /\ UNCHANGED <<oggetti, usaCon, usaStmt, abuso, perso>>

\* if (!con), and if (con) of RollBack.
ControllaCon(w) ==
  /\ passo[w] = "if (!con)"
  /\ IF metodo[w] = "RollBack"
     THEN IF con = 0 THEN Torna(w, "fatto") ELSE Va(w, "rollback")
     ELSE /\ Va(w, IF con = 0 THEN "connect"
                   ELSE IF metodo[w] = "Commit" THEN "commit" ELSE "if (!stmt)")
  /\ UNCHANGED <<oggetti, usaCon, usaStmt, storia>>

\* con = driver->connect(...): the pointer con held is overwritten.
Connette(w) ==
  /\ passo[w] = "connect"
  /\ \/ \E c \in ConId :
          /\ Nuovo(c, ConId, ConRiferite)
          /\ con' = c
          /\ conVive' = conVive \cup {c}
          /\ lucchetto' = [lucchetto EXCEPT ![c] = Nessuno]
          /\ perso' = (perso \/ con \in conVive)
          /\ Va(w, "setSchema")
     \/ Lancia(w) /\ UNCHANGED <<con, conVive, lucchetto, perso>>
  /\ UNCHANGED <<stmt, stmtVivi, padrone, risultato, usaCon, usaStmt, abuso, insieme>>

\* Another worker is about to delete con, or waits for the mutex in its
\* destructor, which has marked it as closed before.
InChiusura(w) == \E v \in Worker \ {w} : passo[v] = "delete con"

\* con->f(...): the function begins, or ends before it speaks to MariaDB: what it
\* reads of con leaves it nothing to do (Subito), or con is closed, ...
EntraCon(w, f, dopo, Subito(_)) ==
  /\ passo[w] = f
  /\ \/ con \notin conVive /\ Abusa(w)
     \/ /\ con \in conVive
        /\ \/ usaCon' = [usaCon EXCEPT ![w] = con] /\ Va(w, dopo)
           \/ Subito(w) /\ UNCHANGED usaCon
           \/ InChiusura(w) /\ Lancia(w) /\ UNCHANGED usaCon
        /\ UNCHANGED <<oggetti, usaStmt, storia>>

\* ... takes the mutex of the connection to speak to MariaDB, ...
BloccaCon(w, f, dopo) ==
  /\ passo[w] = f
  /\ lucchetto[usaCon[w]] = Nessuno
  /\ lucchetto' = [lucchetto EXCEPT ![usaCon[w]] = w]
  /\ Va(w, dopo)
  /\ UNCHANGED <<con, stmt, conVive, stmtVivi, padrone,
                 risultato, usaCon, usaStmt, storia>>

\* ... and ends, perhaps with an exception.
EsceCon(w, f, Poi(_)) ==
  /\ passo[w] = f
  /\ lucchetto' = [lucchetto EXCEPT ![usaCon[w]] = Nessuno]
  /\ usaCon' = [usaCon EXCEPT ![w] = 0]
  /\ Lancia(w) \/ Poi(w)
  /\ UNCHANGED <<con, stmt, conVive, stmtVivi, padrone, risultato, usaStmt, storia>>

\* After setSchema: the statement, or setAutoCommit in Commit.
DopoSchema(w) ==
  Va(w, IF metodo[w] = "Commit" THEN "setAutoCommit" ELSE "if (!stmt)")

DopoCommit(w)   == Torna(w, "fatto")
DopoRollback(w) == Va(w, "delete con")

\* cmdPrologue, before the mutex, may throw.
SetSchema(w) ==
  \/ EntraCon(w, "setSchema", "setSchema lock", Lancia)
  \/ BloccaCon(w, "setSchema lock", "setSchema fine")
  \/ EsceCon(w, "setSchema fine", DopoSchema)

\* Nothing to do when the value is already that.
SetAutoCommit(w) ==
  \/ EntraCon(w, "setAutoCommit", "setAutoCommit lock", DopoCommit)
  \/ BloccaCon(w, "setAutoCommit lock", "setAutoCommit fine")
  \/ EsceCon(w, "setAutoCommit fine", DopoCommit)

\* Nothing to do outside of a transaction.
CommitCon(w) ==
  \/ EntraCon(w, "commit", "commit lock", DopoCommit)
  \/ BloccaCon(w, "commit lock", "commit fine")
  \/ EsceCon(w, "commit fine", DopoCommit)

\* The same.
RollbackCon(w) ==
  \/ EntraCon(w, "rollback", "rollback lock", DopoRollback)
  \/ BloccaCon(w, "rollback lock", "rollback fine")
  \/ EsceCon(w, "rollback fine", DopoRollback)

-----------------------------------------------------------------------------
(* The statement of dbQuery.                                                *)

ControllaStmt(w) ==
  /\ passo[w] = "if (!stmt)"
  /\ Va(w, IF stmt = 0 THEN "createStatement" ELSE "executeQuery")
  /\ UNCHANGED <<oggetti, usaCon, usaStmt, storia>>

\* stmt = con->createStatement(): the pointer stmt held is overwritten, unless
\* checkConnection finds con closed.  It never connects again: there is no proxy.
CreaStatement(w) ==
  /\ passo[w] = "createStatement"
  /\ \/ con \notin conVive /\ Abusa(w)
     \/ /\ con \in conVive /\ InChiusura(w)
        /\ Lancia(w)
        /\ UNCHANGED <<oggetti, usaCon, usaStmt, storia>>
     \/ /\ con \in conVive
        /\ \E s \in StmtId :
             /\ Nuovo(s, StmtId, StmtRiferiti)
             /\ stmt' = s
             /\ stmtVivi' = stmtVivi \cup {s}
             /\ padrone' = [padrone EXCEPT ![s] = con]
             /\ risultato' = [risultato EXCEPT ![s] = Nessuno]
        /\ perso' = (perso \/ stmt \in stmtVivi)
        /\ Va(w, "executeQuery")
        /\ UNCHANGED <<con, conVive, lucchetto, usaCon, usaStmt, abuso, insieme>>

\* stmt->executeQuery(query) begins, ...
EntraStmt(w) ==
  /\ passo[w] = "executeQuery"
  /\ \/ stmt \notin stmtVivi /\ Abusa(w)
     \/ /\ stmt \in stmtVivi
        /\ usaStmt' = [usaStmt EXCEPT ![w] = stmt]
        /\ Va(w, "executeQuery lock")
        /\ UNCHANGED <<oggetti, usaCon, storia>>

\* ... waits for the mutex its connection shares with it, ...
BloccaStmt(w) == LET c == padrone[usaStmt[w]] IN
  /\ passo[w] = "executeQuery lock"
  /\ lucchetto[c] = Nessuno
  /\ lucchetto' = [lucchetto EXCEPT ![c] = w]
  /\ Va(w, "executeQuery fine")
  /\ UNCHANGED <<con, stmt, conVive, stmtVivi, padrone,
                 risultato, usaCon, usaStmt, storia>>

\* Mutated: the result set is queued for getMoreResults and never current.
RisultatoInCoda(w, s) == risultato

\* The result set becomes the one releaseResultSet takes.
RisultatoCorrente(w, s) == [risultato EXCEPT ![s] = w]

\* Mutated: the exception leaves with the mutex locked.
SbloccaSeEseguita(w, c, eseguita) == IF eseguita THEN [lucchetto EXCEPT ![c] = Nessuno] ELSE lucchetto

Sblocca(w, c, eseguita) == [lucchetto EXCEPT ![c] = Nessuno]

\* ... and gives its result set to Statement::results, or an empty one to the
\* caller, or throws: always, when its connection has been deleted.
EsegueStmt(w) == LET s == usaStmt[w]  c == padrone[s] IN
  /\ passo[w] = "executeQuery fine"
  /\ \/ /\ ~Orfano(s) /\ metodo[w] = "SELECT"
        /\ lucchetto' = Sblocca(w, c, TRUE)
        /\ risultato' = RisultatoCorrente(w, s)
        /\ Va(w, "releaseResultSet")
        /\ UNCHANGED usaStmt
     \/ /\ ~Orfano(s) /\ metodo[w] = "INSERT"
        /\ lucchetto' = Sblocca(w, c, TRUE)
        /\ risultato' = [risultato EXCEPT ![s] = Nessuno]
        /\ usaStmt' = [usaStmt EXCEPT ![w] = 0]
        /\ Torna(w, "proprio")
     \/ /\ lucchetto' = Sblocca(w, c, FALSE)
        /\ risultato' \in {risultato, [risultato EXCEPT ![s] = Nessuno]}
        /\ \/ Va(w, "close") /\ UNCHANGED usaStmt
           \/ usaStmt' = [usaStmt EXCEPT ![w] = 0] /\ Lancia(w)
  /\ UNCHANGED <<con, stmt, conVive, stmtVivi, padrone, usaCon, storia>>

\* executeExceptionEpilogue: after an error of the link the statement closes
\* itself, and takes the mutex again to do so.
ChiudeStmt(w) ==
  /\ passo[w] = "close"
  /\ lucchetto[padrone[usaStmt[w]]] = Nessuno
  /\ usaStmt' = [usaStmt EXCEPT ![w] = 0]
  /\ Lancia(w)
  /\ UNCHANGED <<oggetti, usaCon, storia>>

\* results->releaseResultSet() is outside the mutex.
Rilascia(w) == LET s == usaStmt[w] IN
  /\ passo[w] = "releaseResultSet"
  /\ risultato' = [risultato EXCEPT ![s] = Nessuno]
  /\ usaStmt' = [usaStmt EXCEPT ![w] = 0]
  /\ Torna(w, IF risultato[s] = w THEN "proprio"
              ELSE IF risultato[s] = Nessuno THEN "nullo" ELSE "altrui")
  /\ UNCHANGED <<con, stmt, conVive, stmtVivi, padrone, lucchetto, usaCon, storia>>

-----------------------------------------------------------------------------
(* The deletions of RollBack and ClearConnection.                           *)

\* delete stmt: its destructor does nothing.
CancellaStmt(w) ==
  /\ passo[w] = "delete stmt"
  /\ \/ /\ stmt # 0
        /\ stmt \notin stmtVivi \/ \E v \in Worker : usaStmt[v] = stmt
        /\ Abusa(w)
     \/ /\ stmt = 0 \/ (stmt \in stmtVivi /\ \A v \in Worker : usaStmt[v] # stmt)
        /\ stmtVivi' = stmtVivi \ {stmt}
        /\ Va(w, "stmt = nullptr")
        /\ UNCHANGED <<con, stmt, conVive, padrone, lucchetto,
                       risultato, usaCon, usaStmt, storia>>

AzzeraStmt(w) ==
  /\ passo[w] = "stmt = nullptr"
  /\ stmt' = 0
  /\ perso' = (perso \/ stmt \in stmtVivi)
  /\ IF metodo[w] = "ClearConnection"
     THEN Va(w, "delete con")
     ELSE Torna(w, "fatto")
  /\ UNCHANGED <<con, conVive, stmtVivi, padrone, lucchetto, risultato,
                 usaCon, usaStmt, abuso, insieme>>

\* Mutated: con is dropped without delete.
CancellaConMai(w) ==
  /\ passo[w] = "delete con"
  /\ Va(w, "con = nullptr")
  /\ UNCHANGED <<oggetti, usaCon, usaStmt, storia>>

\* delete con: its destructor closes the session under the mutex, and so waits
\* for the statement another worker is executing.
CancellaCon(w) ==
  /\ passo[w] = "delete con"
  /\ \/ /\ con # 0
        /\ con \notin conVive
        /\ Abusa(w)
     \/ /\ con \in conVive
        /\ lucchetto[con] = Nessuno
        /\ \E v \in Worker : usaCon[v] = con
        /\ Abusa(w)
     \/ /\ con = 0 \/ (con \in conVive /\ lucchetto[con] = Nessuno
                       /\ \A v \in Worker : usaCon[v] # con)
        /\ conVive' = conVive \ {con}
        /\ Va(w, "con = nullptr")
        /\ UNCHANGED <<con, stmt, stmtVivi, padrone, lucchetto,
                       risultato, usaCon, usaStmt, storia>>

\* Mutated: delete con, and con is left as it is.
AzzeraConMai(w) ==
  /\ passo[w] = "con = nullptr"
  /\ perso' = (perso \/ con \in conVive)
  /\ Torna(w, "fatto")
  /\ UNCHANGED <<con, stmt, conVive, stmtVivi, padrone, lucchetto,
                 risultato, usaCon, usaStmt, abuso, insieme>>

AzzeraCon(w) ==
  /\ passo[w] = "con = nullptr"
  /\ con' = 0
  /\ perso' = (perso \/ con \in conVive)
  /\ Torna(w, "fatto")
  /\ UNCHANGED <<stmt, conVive, stmtVivi, padrone, lucchetto, risultato,
                 usaCon, usaStmt, abuso, insieme>>

-----------------------------------------------------------------------------
Passo(w) ==
  \/ ControllaCon(w) \/ Connette(w) \/ SetSchema(w) \/ SetAutoCommit(w)
  \/ CommitCon(w) \/ RollbackCon(w)
  \/ ControllaStmt(w) \/ CreaStatement(w)
  \/ EntraStmt(w) \/ BloccaStmt(w) \/ EsegueStmt(w) \/ ChiudeStmt(w) \/ Rilascia(w)
  \/ CancellaStmt(w) \/ AzzeraStmt(w) \/ CancellaCon(w) \/ AzzeraCon(w)

PuntInit ==
  /\ con = 0 /\ stmt = 0
  /\ conVive = {} /\ stmtVivi = {}
  /\ padrone = [s \in StmtId |-> 0]
  /\ lucchetto = [c \in ConId |-> Nessuno]
  /\ risultato = [s \in StmtId |-> Nessuno]
  /\ metodo = [w \in Worker |-> "nessuno"]
  /\ passo = [w \in Worker |-> "fuori"]
  /\ usaCon = [w \in Worker |-> 0]
  /\ usaStmt = [w \in Worker |-> 0]
  /\ esito = [w \in Worker |-> ""]
  /\ abuso = FALSE /\ perso = FALSE /\ insieme = FALSE

\* The process goes on: undefined behaviour is the end of it, and the loss of
\* an object the end of what the bounds on the objects can follow.
Vivo == ~abuso /\ ~perso

PuntNext == Vivo /\ \E w \in Worker : Passo(w) \/ \E m \in Metodi : Chiama(w, m)

PuntSpec == PuntInit /\ [][PuntNext]_puntVars

\* The accesses that wait for the mutex of a connection.
PrendeMutex(w) ==
  /\ passo[w] \in {"setSchema lock", "setAutoCommit lock", "commit lock", "rollback lock",
                    "executeQuery lock", "close", "delete con"}
  /\ Passo(w)

\* The system schedules every thread inside a call, and gives it in the end a
\* mutex that is released again and again.  Nothing obliges handlers to call.
PuntFairness ==
  \A w \in Worker : WF_puntVars(Vivo /\ Passo(w)) /\ SF_puntVars(Vivo /\ PrendeMutex(w))

PuntFairSpec == PuntSpec /\ PuntFairness

-----------------------------------------------------------------------------
(* Properties: a mutex inside the four functions would be enough.           *)

\* No call through a null pointer or on a deleted object, and no object
\* deleted twice or under a running call, unless two workers have been inside
\* DatabaseConfig at once: whatever handlers interleave whole calls, and
\* whatever their exceptions leave in con and stmt.
AbusoSoloInsieme == abuso => insieme

\* No Connection or Statement is left behind for ever, under the same condition.
PersoSoloInsieme == perso => insieme

\* The result set dbQuery returns is that of the query it was given.
RisultatoProprio == \A w \in Worker : esito[w] \in {"altrui", "nullo"} => insieme

\* A call returns or throws, whatever the other workers do: no mutex is left
\* locked behind an exception, and none is waited for by who holds it.
ChiamataTorna ==
  \A w \in Worker : passo[w] # "fuori" ~> passo[w] = "fuori" \/ ~Vivo
=============================================================================
