------------------------------- MODULE Processo -------------------------------
(***************************************************************************)
(* The process: its worker threads, each handling one message after another,*)
(* their result sets, and the libcurl they share (CurlGlobale).             *)
(*                                                                          *)
(* LobbyServer says what the handlers do to the database and Puntatori what *)
(* a call does to the objects of the connector.  Here the database is left  *)
(* out: a call of DatabaseConfig is one step, which returns or throws, and  *)
(* a handler is the sequence of its instructions.                           *)
(***************************************************************************)
EXTENDS CurlGlobale, Sequences

CONSTANT Ops   \* the messages clients send in this instance

VARIABLES
  msg,   \* the message each worker handles; "libero" between messages
  ip,    \* the instruction of its handler
  res    \* result sets its handler has been given and not deleted

procVars == <<msg, ip, res>>
vars == <<curlVars, procVars>>

-----------------------------------------------------------------------------
(* The handlers.  "leggi": res->next() and the getters; "forse_fine": the   *)
(* branch that skips the rest.                                              *)

\* Mutated: res is not deleted.
LeggeSenzaDelete == <<"SELECT", "leggi", "ClearConnection">>

Legge   == <<"SELECT", "leggi", "ClearConnection", "delete_res">>
Scrive  == <<"INSERT", "ClearConnection", "delete_res">>
Stats   == <<"gamesreturnValue", "forse_fine",
             "SELECT", "leggi", "delete_res", "ClearConnection", "forse_fine",
             "INSERT", "delete_res", "ClearConnection">>

Programma(op) ==
  CASE op = "login" ->
         <<"SELECT", "leggi", "delete_res", "ClearConnection", "forse_fine",
           "SELECT", "leggi", "delete_res", "ClearConnection">>
    [] op \in {"visualizza_lobby_id", "visualizza_utente"} -> Legge
    [] op = "visualizza_lobby" -> <<"SELECT", "leggi", "SELECT", "leggi">> \o Legge
    [] op = "partecipa_lobby" -> <<"SELECT", "leggi", "ClearConnection">> \o Scrive
    [] op \in {"aggiungi_utente", "elimina_utente", "elimina_lobby"} -> Scrive
    [] op = "inserisci_lobby" ->
         <<"Commit", "INSERT", "ClearConnection_1", "SELECT", "leggi", "ClearConnection_1",
           "SELECT", "leggi", "ClearConnection_1", "INSERT", "Commit",
           "ClearConnection", "delete_res">>
    [] op = "grafico" -> Legge \o <<"SendPythonRequest">>
    [] op \in {"csstats", "lolstats", "tftstats"} -> Stats
    [] op = "registrazione" -> <<"INSERT", "delete_res", "ClearConnection">>
    \* the catch block of HMInserisciLobby
    [] op = "inserisci_lobby_catch" -> <<"RollBack">>

Messaggio == {"login", "visualizza_lobby_id", "visualizza_utente", "visualizza_lobby",
              "partecipa_lobby", "aggiungi_utente", "elimina_utente", "elimina_lobby",
              "inserisci_lobby", "grafico", "csstats", "lolstats", "tftstats",
              "registrazione"}

ASSUME ProcessoAssumption == Ops \subseteq Messaggio /\ Ops # {}

Istruzione(w) == Programma(msg[w])[ip[w]]

\* One step of the handler that w executes.
Al(w, istruzioni) == msg[w] # "libero" /\ Istruzione(w) \in istruzioni

Riceve(w) ==
  /\ msg[w] = "libero"
  /\ \E op \in Ops : msg' = [msg EXCEPT ![w] = op]
  /\ res' = [res EXCEPT ![w] = 0]
  /\ UNCHANGED <<curlVars, ip>>

\* Mutated: the message is not consumed, and is handled again.
FinisceRiparte(w) == ip' = [ip EXCEPT ![w] = 1] /\ UNCHANGED msg

\* The handler returns.
Finisce(w) == msg' = [msg EXCEPT ![w] = "libero"] /\ ip' = [ip EXCEPT ![w] = 1]

\* The next instruction, or the end of the handler.
Prosegue(w) ==
  IF ip[w] = Len(Programma(msg[w]))
  THEN Finisce(w)
  ELSE ip' = [ip EXCEPT ![w] = @ + 1] /\ UNCHANGED msg

\* An SQLException: no catch block deletes res, and only that of
\* HMInserisciLobby goes on; its first Commit is outside the try.
Catch(w) ==
  /\ IF msg[w] = "inserisci_lobby" /\ ip[w] > 1
     THEN msg' = [msg EXCEPT ![w] = "inserisci_lobby_catch"] /\ ip' = [ip EXCEPT ![w] = 1]
     ELSE Finisce(w)
  /\ UNCHANGED res

\* dbQuery: a new result set, which the handler gives to res.
Interroga(w) ==
  /\ Al(w, {"SELECT", "INSERT"})
  /\ Catch(w) \/ (Prosegue(w) /\ res' = [res EXCEPT ![w] = @ + 1])
  /\ UNCHANGED curlVars

\* Commit, RollBack and ClearConnection, and the getters of res, which throw when
\* the row or the value is missing; ClearConnection does not throw.
Chiama(w) ==
  /\ Al(w, {"Commit", "RollBack", "ClearConnection", "ClearConnection_1", "leggi"})
  /\ \/ Istruzione(w) \in {"Commit", "RollBack", "leggi"} /\ Catch(w)
     \/ Prosegue(w) /\ UNCHANGED res
  /\ UNCHANGED curlVars

CancellaRes(w) ==
  /\ Al(w, {"delete_res"})
  /\ res' = [res EXCEPT ![w] = @ - 1]
  /\ Prosegue(w)
  /\ UNCHANGED curlVars

\* if (count == 1) of HMLogin; "check", the answer and count of the Stats handlers.
ForseFine(w) ==
  /\ Al(w, {"forse_fine"})
  /\ Prosegue(w) \/ Finisce(w)
  /\ UNCHANGED <<curlVars, res>>

\* A request to the Python server begins, ...
IniziaHttp(w) ==
  /\ \E f \in Funzioni : Al(w, {f}) /\ Richiede(w, f)
  /\ UNCHANGED procVars

\* ... goes on, and with its last call the handler goes on.
DentroHttp(w) ==
  /\ CurlLavora(w)
  /\ IF http'[w] # "fuori" THEN UNCHANGED procVars ELSE Prosegue(w) /\ UNCHANGED res

\* The Python server answers, or refuses the connection.
PythonRisponde(w) == Risposta(w) /\ UNCHANGED procVars

Lavora(w) ==
  \/ Interroga(w) \/ Chiama(w) \/ CancellaRes(w) \/ ForseFine(w)
  \/ IniziaHttp(w) \/ DentroHttp(w)

Init ==
  /\ CurlInit
  /\ msg = [w \in Worker |-> "libero"]
  /\ ip = [w \in Worker |-> 1]
  /\ res = [w \in Worker |-> 0]

\* libcurl freed under a handle is undefined behaviour: the model ends there.
Next == ~rovinata /\ \E w \in Worker : Riceve(w) \/ Lavora(w) \/ PythonRisponde(w)

Spec == Init /\ [][Next]_vars

\* The system schedules every thread; nothing makes the Python server answer.
Fairness == \A w \in Worker : WF_vars(~rovinata /\ Lavora(w))

FairSpec == Spec /\ Fairness

-----------------------------------------------------------------------------
(* Properties.                                                              *)

\* The result sets each handler overwrites in res without deleting them.
Sovrascritti(op) == CASE op = "visualizza_lobby" -> 2
                      [] op = "inserisci_lobby"  -> 3
                      [] op = "partecipa_lobby"  -> 1
                      [] op \notin {"visualizza_lobby", "inserisci_lobby",
                                    "partecipa_lobby"} -> 0

Lancia(w) == Istruzione(w) \in {"SELECT", "INSERT", "leggi", "Commit", "RollBack"}

\* Three handlers lose result sets even when all goes well, always as many;
\* an exception loses at most one more, and nothing else loses any.
ResPersi ==
  [][\A w \in Worker : msg[w] \in Ops /\ msg'[w] # msg[w] =>
       IF Lancia(w) THEN res[w] <= Sovrascritti(msg[w]) + 1
                    ELSE res'[w] = Sovrascritti(msg[w])]_vars

\* A handler ends, or waits for the Python server: no other worker, waiting
\* for it as well or not, stands in its way.
Termina ==
  \A w \in Worker : msg[w] # "libero" ~> msg[w] = "libero" \/ http[w] = "perform" \/ rovinata
=============================================================================
