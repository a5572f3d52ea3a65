------------------------------- MODULE Cursore -------------------------------
(***************************************************************************)
(* SelectResultSetCapi: the result set the connector returns.  Its rows are *)
(* buffered by the C library (or held in data, when the connector builds    *)
(* the set itself), and the rows of the library are fetched in order, so a  *)
(* read moves the library's own cursor only when it must: rowPointer is     *)
(* where the client stands, lastRowPointer the row fetched last.            *)
(*                                                                          *)
(* Streaming is left out: MariaDbStatement::setFetchSize refuses every      *)
(* fetch size but 0 and the connection sets no default one.                 *)
(***************************************************************************)
EXTENDS Integers

CONSTANTS
  MaxRighe,    \* bound: rows of the result set
  MaxIntero    \* the largest int32_t

ASSUME CursoreAssumption ==
  MaxRighe \in Nat /\ MaxIntero \in Nat /\ MaxRighe < MaxIntero

VARIABLES
  dataSize,         \* rows
  costruito,        \* data.size() > 0: the rows are in the object itself
  rowPointer,       \* the row the client stands on, from 0
  lastRowPointer,   \* the row read last, -1 if none
  nativa,           \* the row the C library's next fetch returns
  riga,             \* the row the RowProtocol shows, -1 if none
  isClosedFlag,
  esito             \* the answer to the client's last call

vars == <<dataSize, costruito, rowPointer, lastRowPointer, nativa, riga, isClosedFlag, esito>>

Interi == (-MaxIntero - 1)..MaxIntero

CursoreTypeOK ==
  /\ dataSize \in 0..MaxRighe
  /\ costruito \in BOOLEAN
  /\ rowPointer \in -1..dataSize
  /\ lastRowPointer \in -1..(dataSize - 1)
  /\ nativa \in 0..dataSize
  /\ riga \in -1..(dataSize - 1)
  /\ isClosedFlag \in BOOLEAN
  /\ esito \in {"nessuno", "vero", "falso", "riga", "eccezione", "colonna", "indefinito"}

\* 32-bit addition, of an int32_t to a rowPointer.
Intero(x) ==
  IF x > MaxIntero THEN x - 2 * (MaxIntero + 1)
  ELSE IF x < -MaxIntero - 1 THEN x + 2 * (MaxIntero + 1)
  ELSE x

-----------------------------------------------------------------------------
(* Moves.  Each is refused when the result set is closed.                   *)

Sposta(p, risposta) ==
  /\ ~isClosedFlag
  /\ rowPointer' = p
  /\ esito' = risposta
  /\ UNCHANGED <<dataSize, costruito, lastRowPointer, nativa, riga, isClosedFlag>>

Risposta(vale) == IF vale THEN "vero" ELSE "falso"

\* Mutated: next stops where it likes after the last row.
DopoNextOltre(p) == p + 1

DopoNext(p) == IF p < dataSize - 1 THEN p + 1 ELSE dataSize

next == Sposta(DopoNext(rowPointer), Risposta(rowPointer < dataSize - 1))

DopoPrevious(p) == IF p > -1 THEN p - 1 ELSE p

previous == Sposta(DopoPrevious(rowPointer), Risposta(rowPointer > 0))

first == Sposta(0, Risposta(dataSize > 0))

last == Sposta(dataSize - 1, Risposta(dataSize > 0))

beforeFirst == Sposta(-1, "nessuno")

afterLast == Sposta(dataSize, "nessuno")

absolute(rowPos) ==
  IF rowPos >= 0
    THEN IF rowPos <= dataSize
           THEN Sposta(rowPos - 1, "vero")
           ELSE Sposta(dataSize, "falso")
    ELSE IF dataSize + rowPos >= 0
           THEN Sposta(dataSize + rowPos, "vero")
           ELSE Sposta(-1, "falso")

\* Mutated: -1 is compared as a size_t, like the rows after the last one.
DopoRelativeSizeT(p, rows) ==
  LET newPos == Intero(p + rows) IN
    IF newPos < -1 THEN -1 ELSE IF newPos \notin 0..(dataSize - 1) THEN dataSize ELSE newPos

\* The row relative(rows) goes to from p.
DopoRelative(p, rows) ==
  LET newPos == Intero(p + rows) IN
    IF newPos <= -1 THEN -1 ELSE IF newPos >= dataSize THEN dataSize ELSE newPos

relative(rows) ==
  LET newPos == DopoRelative(rowPointer, rows) IN
    Sposta(newPos, Risposta(newPos \in 0..(dataSize - 1)))

\* A call that only answers.
Risponde(e) ==
  /\ esito' = e
  /\ UNCHANGED <<dataSize, costruito, rowPointer, lastRowPointer, nativa, riga, isClosedFlag>>

\* checkClose, or the first lines of next.
RifiutaChiuso == isClosedFlag /\ Risponde("eccezione")

-----------------------------------------------------------------------------
(* Reads.                                                                   *)

\* Mutated: the cursor of the library is never moved.
SenzaSeek == nativa

\* The row the C library returns: its cursor is moved only when the client is
\* not on the row after the one read last.
DaLeggere == IF rowPointer # lastRowPointer + 1 THEN rowPointer ELSE nativa

\* Mutated: the row read is not remembered.
resetRowSenzaLast ==
  /\ IF costruito
       THEN riga' = rowPointer /\ UNCHANGED nativa
       ELSE riga' = DaLeggere /\ nativa' = DaLeggere + 1
  /\ UNCHANGED lastRowPointer

resetRow ==
  /\ lastRowPointer' = rowPointer
  /\ IF costruito
       THEN riga' = rowPointer /\ UNCHANGED nativa
       ELSE riga' = DaLeggere /\ nativa' = DaLeggere + 1

SuUnaRiga == rowPointer \in 0..(dataSize - 1)

\* getString, getInt and the other readers: checkObjectRange, then the value
\* of the row shown.  No reader looks at isClosedFlag.
Legge ==
  /\ SuUnaRiga /\ ~(costruito /\ isClosedFlag)
  /\ IF lastRowPointer # rowPointer THEN resetRow ELSE UNCHANGED <<lastRowPointer, nativa, riga>>
  /\ esito' = "riga"
  /\ UNCHANGED <<dataSize, costruito, rowPointer, isClosedFlag>>

LeggeFuori == ~SuUnaRiga /\ Risponde("eccezione")

\* The columns are numbered from 1; the row is checked before the column.
LeggeColonnaAssente == SuUnaRiga /\ Risponde("colonna")

\* After close() the row of a set held in data has no columns, and the reader
\* indexes it all the same: undefined behaviour, where the model ends.
LeggeCancellata == SuUnaRiga /\ costruito /\ isClosedFlag /\ Risponde("indefinito")

\* close() clears the rows of data; those of the C library stay until the
\* result set is deleted.
close ==
  /\ isClosedFlag' = TRUE
  /\ esito' = "nessuno"
  /\ UNCHANGED <<dataSize, costruito, rowPointer, lastRowPointer, nativa, riga>>

-----------------------------------------------------------------------------
(* Questions about the position.  With no streaming isEof holds and         *)
(* dataFetchTime stays 0.                                                   *)

isBeforeFirst == rowPointer = -1

isAfterLast == ~(rowPointer < 0 \/ rowPointer < dataSize) /\ dataSize > 0

isFirst == rowPointer = 0 /\ dataSize > 0

\* Mutated: nothing left to read is taken for standing on the last row.
isLastNienteDopo == ~(rowPointer + 1 < dataSize) /\ dataSize > 0

isLast == ~(rowPointer + 1 < dataSize) /\ rowPointer = dataSize - 1 /\ dataSize > 0

getRow == rowPointer + 1

-----------------------------------------------------------------------------

Init ==
  /\ dataSize \in 0..MaxRighe
  /\ costruito \in BOOLEAN
  /\ costruito => dataSize > 0
  /\ rowPointer = -1
  /\ lastRowPointer = -1
  /\ nativa = 0
  /\ riga = -1
  /\ isClosedFlag = FALSE
  /\ esito = "nessuno"

Next ==
  /\ esito # "indefinito"
  /\ \/ next \/ previous \/ first \/ last \/ beforeFirst \/ afterLast
     \/ \E k \in Interi : absolute(k) \/ relative(k)
     \/ Legge \/ LeggeFuori \/ LeggeColonnaAssente \/ LeggeCancellata
     \/ RifiutaChiuso \/ close

Spec == Init /\ [][Next]_vars

-----------------------------------------------------------------------------
(* Properties.                                                              *)

\* The C library's cursor stands after the row read last, and that row is the
\* one shown: what lets resetRow fetch without moving the cursor.
Sincrono ==
  /\ riga = lastRowPointer
  /\ ~costruito => nativa = lastRowPointer + 1

\* relative(1) does what next() does and relative(-1) what previous() does,
\* wherever the client stands.
RelativoEquivale ==
  /\ DopoRelative(rowPointer, 1) = DopoNext(rowPointer)
  /\ DopoRelative(rowPointer, -1) = DopoPrevious(rowPointer)

\* Of a set with rows the client is told exactly one thing: that it stands
\* before the first row, on a row getRow counts, or after the last one.
UnaSolaPosizione ==
  dataSize > 0 =>
    /\ ~(isBeforeFirst /\ isAfterLast)
    /\ (getRow \in 1..dataSize) <=> ~(isBeforeFirst \/ isAfterLast)
    /\ isFirst <=> getRow = 1
    /\ isLast <=> getRow = dataSize

Scorri == INSTANCE Scorrimento WITH
  n <- dataSize,
  pos <- rowPointer + 1,
  chiuso <- isClosedFlag,
  dato <- riga + 1,
  esito <- esito

\* The lazy cursor is a scrollable result set: every read returns the row the
\* client stands on, whatever moves and reads came before, and an answer of
\* another kind moves nothing.
Implementa == Scorri!Spec
=============================================================================
