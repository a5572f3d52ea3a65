------------------------------ MODULE Risultati ------------------------------
(***************************************************************************)
(* The results of the statements of one connection: MariaDbStatement,       *)
(* Results, CmdInformationSingle and CmdInformationMultiple, and what of    *)
(* QueryProtocol reads them.                                                *)
(*                                                                          *)
(* The answer to a query is a list of outcomes (a CALL, or several          *)
(* statements where they are allowed, has more than one).  Only the first   *)
(* is read by the execution; each getMoreResults reads one more from the    *)
(* connection, whoever's it is, and every RS is owned by Results until the  *)
(* client takes it.  Fetch size 0, no batch.                                *)
(***************************************************************************)
EXTENDS Sequences, Integers, FiniteSets

CONSTANTS
  Stmt,        \* the statements of the connection
  Multi,       \* bound: those whose queries may have several outcomes, and that
               \* may be closed on completion
  Rs,          \* bound: result sets alive at once, numbered from 1
  MaxEsiti,    \* bound: outcomes of one query, and of those a Results counts
               \* and walks through
  MaxPresi     \* bound: result sets in the client's hands

ASSUME RisultatiAssumption ==
  /\ Multi \subseteq Stmt
  /\ Rs \subseteq Nat \ {0}
  /\ MaxEsiti \in Nat
  /\ MaxPresi \in Nat

VARIABLES
  \* MariaDbStatement
  closed, mustCloseOnCompletion, results,
  \* SelectResultSet
  chiusi,      \* those closed
  presi,       \* those in the client's hands
  \* the connection
  pendenti,    \* outcomes not read yet
  titolare,    \* the statement whose query left them, "nessuno" if none
  crollo,      \* cmdInformation has been dereferenced while null
  \* history
  attesa       \* of each statement: the outcomes of its query from the one its
               \* calls have reached; <<"err">> after a failure, <<"perso">>
               \* once two statements have mixed their outcomes

stmtVars == <<closed, mustCloseOnCompletion, results>>
rsVars == <<chiusi, presi>>
connVars == <<pendenti, titolare>>
vars == <<stmtVars, rsVars, connVars, crollo, attesa>>

Esiti == {"rs", "upd", "err"}

\* Outcomes of a query of s.
Massimo(s) == IF s \in Multi THEN MaxEsiti ELSE 1

\* The outcomes of a query: nothing is executed after an error.
Risposte(s) ==
  {q \in UNION {[1..k -> Esiti] : k \in 1..Massimo(s)} :
     \A i \in 1..(Len(q) - 1) : q[i] # "err"}

\* Results of a statement: "assente" before the first query, cmd "nessuna"
\* while cmdInformation is null.
Nuovi == [cmd |-> "nessuna", counts |-> <<>>, moreResultsIdx |-> 0,
          executionResults |-> <<>>, resultSet |-> 0]

Assenti == [Nuovi EXCEPT !.cmd = "assente"]

In(q) == {q[i] : i \in DOMAIN q}

Tenuti(r) == In(r.executionResults) \cup ({r.resultSet} \ {0})

\* Result sets that exist, those of s apart.
Altri(s) == presi \cup UNION {Tenuti(results[t]) : t \in Stmt \ {s}}

Vivi(s) == Altri(s) \cup Tenuti(results[s])

\* The id of a new result set while those of occupati exist: which of the
\* others is of no consequence.
Libero(occupati) == CHOOSE x \in Rs \ occupati : TRUE

-----------------------------------------------------------------------------
(* Results and its CmdInformation.                                          *)

\* addStats, addResultSet and addStatsError: the first outcome chooses the
\* kind of CmdInformation, which only a Multiple adds to afterwards.
ConConto(r, o, altri) ==
  CASE r.cmd = "nessuna"  -> [r EXCEPT !.cmd = IF altri THEN "multiple" ELSE "single", !.counts = <<o>>]
    [] r.cmd = "multiple" -> [r EXCEPT !.counts = Append(@, o)]
    [] r.cmd = "single"   -> r

\* readPacket of an outcome that is not an error.
Letto(r, o, altri, id) ==
  [ConConto(r, o, altri) EXCEPT !.executionResults = IF o = "rs" THEN Append(@, id) ELSE @]

\* An error met while moving on: moveToNextResult adds it, and getResult,
\* which does not know, adds it again.
LettoErrore(r) == ConConto(ConConto(r, "err", FALSE), "err", FALSE)

\* Mutated: the outcome looked at is the one the client leaves.
AncoraRsPrima(r) ==
  /\ r.cmd = "multiple"
  /\ r.moreResultsIdx + 1 < Len(r.counts)
  /\ r.counts[r.moreResultsIdx + 1] = "rs"

\* CmdInformation::moreResults: the answer, and the index it leaves behind.
AncoraRs(r) ==
  /\ r.cmd = "multiple"
  /\ r.moreResultsIdx + 1 < Len(r.counts)
  /\ r.counts[r.moreResultsIdx + 2] = "rs"

\* Mutated: the index is not moved when there is nothing more.
AvanzatoSeRs(r) == IF AncoraRs(r) THEN [r EXCEPT !.moreResultsIdx = @ + 1] ELSE r

\* A Single has no more counts once asked.
Esaurito(r) == [r EXCEPT !.counts = <<"rs">>]

\* A Multiple moves on whatever it answers.
Avanzato(r) ==
  IF r.cmd = "multiple" THEN [r EXCEPT !.moreResultsIdx = @ + 1] ELSE Esaurito(r)

Prossimo(r) ==
  IF r.executionResults = <<>> THEN r
  ELSE [r EXCEPT !.resultSet = Head(r.executionResults), !.executionResults = Tail(@)]

\* commandEnd, on a Results that has just read its first outcome.
CommandEnd(r) == IF r.counts[1] = "rs" THEN Prossimo(r) ELSE r

\* getUpdateCount: -1 is "rs", or "fine" beyond the last one.
UpdateCount(r) ==
  CASE r.cmd = "single"   -> IF r.counts[1] = "rs" THEN "fine" ELSE r.counts[1]
    [] r.cmd = "multiple" -> IF r.moreResultsIdx >= Len(r.counts) \/ r.counts[r.moreResultsIdx + 1] = "rs"
                               THEN "fine" ELSE r.counts[r.moreResultsIdx + 1]
    [] OTHER -> "fine"

-----------------------------------------------------------------------------
(* MariaDbStatement.                                                        *)

\* What is left of the connection's outcomes.
Restano(q, s) ==
  /\ pendenti' = q
  /\ titolare' = IF q = <<>> THEN "nessuno" ELSE s

\* execute(sql): a new Results, and the old one deleted with its result sets.
\* The library refuses the query while outcomes of another are unread.
execute(s, q) ==
  LET id == Libero(Altri(s))
      r == CommandEnd(Letto(Nuovi, q[1], Len(q) > 1, id)) IN
  /\ ~closed[s]
  /\ IF pendenti # <<>> \/ q[1] = "err"
       THEN /\ results' = [results EXCEPT ![s] = Nuovi]
            /\ chiusi' = chiusi \ Tenuti(results[s])
            /\ attesa' = [attesa EXCEPT ![s] = <<"err">>]
            /\ UNCHANGED connVars
       ELSE /\ q[1] = "rs" => Rs \ Altri(s) # {}
            /\ results' = [results EXCEPT ![s] = r]
            /\ chiusi' = chiusi \ Tenuti(results[s])
            /\ Restano(Tail(q), s)
            /\ attesa' = [attesa EXCEPT ![s] = q]
  /\ UNCHANGED <<closed, mustCloseOnCompletion, presi, crollo>>

\* Mutated: the result set stays with Results, too.
prendeSenzaRelease(s) ==
  /\ results[s].resultSet # 0
  /\ presi' = presi \cup {results[s].resultSet}
  /\ UNCHANGED results

\* releaseResultSet: the client owns the result set from now on.
prende(s) ==
  /\ results[s].resultSet # 0
  /\ presi' = presi \cup {results[s].resultSet}
  /\ results' = [results EXCEPT ![s].resultSet = 0]

getResultSet(s) ==
  /\ ~closed[s]
  /\ Cardinality(presi) < MaxPresi
  /\ prende(s)
  /\ UNCHANGED <<closed, mustCloseOnCompletion, chiusi, connVars, crollo, attesa>>

\* executeQuery(sql): the two at once.  A query that returns no rows gives the
\* client an empty result set of no statement; a failure is that of execute.
executeQuery(s, q) ==
  LET id == Libero(Altri(s)) IN
  /\ ~closed[s] /\ pendenti = <<>> /\ q[1] # "err"
  /\ Rs \ Altri(s) # {} /\ Cardinality(presi) < MaxPresi
  /\ results' = [results EXCEPT ![s] = [CommandEnd(Letto(Nuovi, q[1], Len(q) > 1, id)) EXCEPT !.resultSet = 0]]
  /\ presi' = presi \cup {id}
  /\ chiusi' = chiusi \ Tenuti(results[s])
  /\ Restano(Tail(q), s)
  /\ attesa' = [attesa EXCEPT ![s] = q]
  /\ UNCHANGED <<closed, mustCloseOnCompletion, crollo>>

\* getMoreResults once what had to be read has been: the next result set, or
\* none.  CLOSE_CURRENT_RESULT (chiude) closes the current one, if Results
\* still has it, and so the statement that is closed on completion; what is
\* replaced is deleted all the same.
Muove(s, r, chiude) ==
  LET corrente == r.resultSet
      dopo == IF AncoraRs(r) THEN Prossimo(Avanzato(r))
              ELSE [Avanzato(r) EXCEPT !.resultSet = 0]
      chiuso == IF chiude THEN {corrente} \ {0} ELSE {} IN
  /\ results' = [results EXCEPT ![s] = dopo]
  /\ chiusi' = IF dopo.resultSet = corrente THEN chiusi \cup chiuso ELSE chiusi \ {corrente}
  /\ closed' = [closed EXCEPT ![s] = @ \/ (mustCloseOnCompletion[s] /\ chiuso # {})]
  /\ UNCHANGED <<mustCloseOnCompletion, presi, crollo>>

\* The history of a step of s to its next outcome; an error is the last one.
Oltre(s) ==
  attesa' = IF pendenti # <<>> /\ titolare # s
              THEN [attesa EXCEPT ![s] = <<"perso">>, ![titolare] = <<"perso">>]
            ELSE IF attesa[s] \in {<<>>, <<"err">>, <<"perso">>} THEN attesa
            ELSE [attesa EXCEPT ![s] = Tail(@)]

\* getMoreResults is called on a statement that has been executed.
Chiede(s) ==
  /\ ~closed[s]
  /\ results[s].cmd # "assente"
  /\ results[s].moreResultsIdx <= Massimo(s)
  /\ Len(results[s].counts) <= Massimo(s)

\* The connection has no more outcomes.
getMoreResultsNiente(s, chiude) ==
  /\ Chiede(s)
  /\ pendenti = <<>> /\ results[s].cmd # "nessuna"
  /\ Muove(s, results[s], chiude)
  /\ Oltre(s)
  /\ UNCHANGED connVars

\* It has one: it is read, into the Results of the statement that asks.
getMoreResultsLegge(s, chiude) ==
  LET o == Head(pendenti) IN
  /\ Chiede(s)
  /\ pendenti # <<>> /\ o # "err"
  /\ o = "rs" => Rs \ Vivi(s) # {}
  /\ Muove(s, Letto(results[s], o, Len(pendenti) > 1, Libero(Vivi(s))), chiude)
  /\ Restano(Tail(pendenti), titolare)
  /\ Oltre(s)

\* The next one is an error, and is thrown.
getMoreResultsErrore(s) ==
  /\ Chiede(s)
  /\ pendenti # <<>> /\ Head(pendenti) = "err"
  /\ results' = [results EXCEPT ![s] = LettoErrore(@)]
  /\ Restano(<<>>, s)
  /\ Oltre(s)
  /\ UNCHANGED <<closed, mustCloseOnCompletion, rsVars, crollo>>

\* There is no CmdInformation to ask.
getMoreResultsNullo(s) ==
  /\ Chiede(s)
  /\ pendenti = <<>> /\ results[s].cmd = "nessuna"
  /\ crollo' = TRUE
  /\ UNCHANGED <<stmtVars, rsVars, connVars, attesa>>

\* Asked of a statement before its first query.
closeOnCompletion(s) ==
  /\ ~mustCloseOnCompletion[s] /\ results[s].cmd = "assente"
  /\ s \in Multi
  /\ mustCloseOnCompletion' = [mustCloseOnCompletion EXCEPT ![s] = TRUE]
  /\ UNCHANGED <<closed, results, rsVars, connVars, crollo, attesa>>

\* close(): with fetch size 0 it reads nothing of what is left unread.
close(s) ==
  /\ ~closed[s]
  /\ closed' = [closed EXCEPT ![s] = TRUE]
  /\ UNCHANGED <<mustCloseOnCompletion, results, rsVars, connVars, crollo, attesa>>

\* SelectResultSet::close of a result set of the client, and its
\* checkCloseOnCompletion: the statement whose current result set it is.
closeRs(x) ==
  /\ x \in presi \ chiusi
  /\ chiusi' = chiusi \cup {x}
  /\ closed' = [s \in Stmt |-> closed[s] \/ (mustCloseOnCompletion[s] /\ results[s].resultSet = x)]
  /\ UNCHANGED <<mustCloseOnCompletion, results, presi, connVars, crollo, attesa>>

\* The client deletes it.
deleteRs(x) ==
  /\ x \in presi
  /\ presi' = presi \ {x}
  /\ chiusi' = chiusi \ {x}
  /\ UNCHANGED <<stmtVars, connVars, crollo, attesa>>

-----------------------------------------------------------------------------

Init ==
  /\ closed = [s \in Stmt |-> FALSE]
  /\ mustCloseOnCompletion = [s \in Stmt |-> FALSE]
  /\ results = [s \in Stmt |-> Assenti]
  /\ chiusi = {} /\ presi = {}
  /\ pendenti = <<>> /\ titolare = "nessuno"
  /\ crollo = FALSE
  /\ attesa = [s \in Stmt |-> <<>>]

Next ==
  /\ ~crollo
  /\ \/ \E s \in Stmt :
          \/ \E q \in Risposte(s) : execute(s, q) \/ executeQuery(s, q)
          \/ getResultSet(s)
          \/ \E chiude \in BOOLEAN : getMoreResultsNiente(s, chiude) \/ getMoreResultsLegge(s, chiude)
          \/ getMoreResultsErrore(s) \/ getMoreResultsNullo(s)
          \/ closeOnCompletion(s) \/ close(s)
     \/ \E x \in Rs : closeRs(x) \/ deleteRs(x)

Spec == Init /\ [][Next]_vars

-----------------------------------------------------------------------------
(* Properties.                                                              *)

\* The outcome the client stands on after its calls, "fine" beyond the last.
Attuale(s) == IF attesa[s] = <<>> THEN "fine" ELSE Head(attesa[s])

\* s has executed a query and is walking through its outcomes.
Regolare(s) ==
  results[s].cmd \notin {"assente", "nessuna"} /\ Attuale(s) \notin {"err", "perso"}

\* getUpdateCount tells the count of the outcome the calls have reached; no
\* result set and no count means that there are no more; and what the calls
\* have not reached is still to be read, in order.  So it is as long as each
\* statement asks only for its own outcomes.
CamminoFedele ==
  \A s \in Stmt : Regolare(s) =>
    /\ UpdateCount(results[s]) = IF Attuale(s) = "rs" THEN "fine" ELSE Attuale(s)
    /\ results[s].resultSet # 0 => Attuale(s) = "rs"
    /\ attesa[s] # <<>> => Tail(attesa[s]) = IF titolare = s THEN pendenti ELSE <<>>

\* execute and getMoreResults answer true (they leave a current result set)
\* exactly when the outcome they reach is a result set.
RispostaFedele ==
  [][\A s \in Stmt :
       attesa'[s] # attesa[s] /\ presi' = presi /\ Regolare(s)' =>
         (results'[s].resultSet # 0 <=> Attuale(s)' = "rs")]_vars

\* A result set has one owner: the client, or one place of one Results.  Two
\* would delete it twice.
UnSoloPosto ==
  /\ \A s \in Stmt :
       /\ Tenuti(results[s]) \cap Altri(s) = {}
       /\ results[s].resultSet \notin In(results[s].executionResults)
       /\ Cardinality(In(results[s].executionResults)) = Len(results[s].executionResults)
  /\ chiusi \subseteq UNION {Vivi(s) : s \in Stmt}
=============================================================================
