----------------------------- MODULE Scorrimento -----------------------------
(***************************************************************************)
(* What a scrollable result set promises: a position among n rows, moved    *)
(* by the calls of sql::ResultSet, and reads that return the row under it.  *)
(* Positions are counted the way getRow does: 0 before the first row, n + 1 *)
(* after the last one.                                                      *)
(***************************************************************************)
EXTENDS Integers

CONSTANT MaxIntero   \* the largest int32_t

VARIABLES
  n,        \* rows of the result set
  pos,      \* getRow()
  chiuso,   \* close() has been called
  dato,     \* the row the last read returned; 0: none
  esito     \* what the last call answered

vars == <<n, pos, chiuso, dato, esito>>

Esiti == {"nessuno", "vero", "falso", "riga", "eccezione", "colonna", "indefinito"}

Risposta(vale) == IF vale THEN "vero" ELSE "falso"

\* A move: it answers whether the new position holds a row.
Va(p) ==
  /\ ~chiuso
  /\ pos' = p
  /\ esito' = Risposta(p \in 1..n)
  /\ UNCHANGED <<n, chiuso, dato>>

\* The move to p, of a result set that has no rows before the first or after
\* the last one.
Stretto(p) == IF p < 0 THEN 0 ELSE IF p > n THEN n + 1 ELSE p

Avanti == Va(Stretto(pos + 1))

Indietro == Va(Stretto(pos - 1))

\* first() and last() of an empty set land beside the rows it does not have.
Primo == Va(1)

Ultimo == Va(n)

\* beforeFirst() and afterLast() answer nothing.
Ai(p) ==
  /\ ~chiuso
  /\ pos' = p
  /\ esito' = "nessuno"
  /\ UNCHANGED <<n, chiuso, dato>>

\* absolute(k) counts from the end when k is negative.  absolute(0) goes
\* before the first row and answers true.
Assoluto(k) ==
  LET p == IF k >= 0 THEN k ELSE n + 1 + k IN
  /\ ~chiuso
  /\ pos' = Stretto(p)
  /\ esito' = Risposta(p \in 1..n \/ k = 0)
  /\ UNCHANGED <<n, chiuso, dato>>

\* relative(k).  A jump whose target does not fit an int32_t may go to the
\* wrong end.
Relativo(k) ==
  \/ Va(Stretto(pos + k))
  \/ /\ pos + k - 1 \notin (-MaxIntero - 1)..MaxIntero
     /\ Va(0) \/ Va(n + 1)

\* A call that only answers.
Dice(e) ==
  /\ esito' = e
  /\ UNCHANGED <<n, pos, chiuso, dato>>

\* A read returns the row at the position.
Legge ==
  /\ pos \in 1..n
  /\ dato' = pos
  /\ esito' = "riga"
  /\ UNCHANGED <<n, pos, chiuso>>

\* A read beside the rows, or a move of a closed result set.
Rifiuta == (pos \notin 1..n \/ chiuso) /\ Dice("eccezione")

\* A read of a column the rows do not have.
SenzaColonna == pos \in 1..n /\ Dice("colonna")

\* A read after close(), which may have freed the row: anything may follow.
Liberata == chiuso /\ pos \in 1..n /\ Dice("indefinito")

Chiude ==
  /\ chiuso' = TRUE
  /\ esito' = "nessuno"
  /\ UNCHANGED <<n, pos, dato>>

Init ==
  /\ n \in Nat
  /\ pos = 0
  /\ chiuso = FALSE
  /\ dato = 0
  /\ esito = "nessuno"

Next ==
  \/ Avanti \/ Indietro \/ Primo \/ Ultimo \/ Ai(0) \/ Ai(n + 1)
  \/ \E k \in (-MaxIntero - 1)..MaxIntero : Assoluto(k) \/ Relativo(k)
  \/ Legge \/ Rifiuta \/ SenzaColonna \/ Liberata \/ Chiude

Spec == Init /\ [][Next]_vars
=============================================================================
