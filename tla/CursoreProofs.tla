---------------------------- MODULE CursoreProofs ----------------------------
(***************************************************************************)
(* The cursor of a result set, for any number of rows and any width of      *)
(* int32_t: its types, the agreement between the row shown and the C        *)
(* library's own cursor, and that it implements a scrollable result set.    *)
(***************************************************************************)
EXTENDS Cursore, TLAPS

\* The types alone are not inductive: that a fetch stays within the rows
\* needs to know where the C library's cursor stands.
Inv == CursoreTypeOK /\ Sincrono

LEMMA InitInv == ASSUME Init PROVE Inv
<1>1. costruito \in BOOLEAN /\ isClosedFlag \in BOOLEAN BY Zenon DEF Init
<1>2. /\ dataSize \in 0..MaxRighe /\ -1 \in -1..dataSize
      /\ -1 \in -1..(dataSize - 1) /\ 0 \in 0..dataSize
  BY CursoreAssumption, SMT DEF Init
<1>3. 0 = -1 + 1 BY SMT
<1> QED BY <1>1, <1>2, <1>3, Zenon DEF Init, Inv, CursoreTypeOK, Sincrono

\* A move keeps the invariant when it stays between the rows' two ends.
LEMMA SpostaInv ==
  ASSUME Inv, NEW p, p \in -1..dataSize, NEW r, Sposta(p, r),
         r \in {"nessuno", "vero", "falso"}
  PROVE  Inv'
BY CursoreAssumption, SMT DEF Sposta, Inv, CursoreTypeOK, Sincrono

\* The targets of relative lie between the ends, overflow or not.
LEMMA RelativoDentro ==
  ASSUME Inv, NEW k \in Interi
  PROVE  DopoRelative(rowPointer, k) \in -1..dataSize
BY CursoreAssumption, SMT DEF DopoRelative, Intero, Interi, Inv, CursoreTypeOK

LEMMA LeggeInv == ASSUME Inv, Legge PROVE Inv'
BY CursoreAssumption, SMT DEF Legge, SuUnaRiga, resetRow, DaLeggere, Inv, CursoreTypeOK, Sincrono

LEMMA NextInv == ASSUME Inv, [Next]_vars PROVE Inv'
<1> USE CursoreAssumption
<1>1. CASE next
  <2>1. DopoNext(rowPointer) \in -1..dataSize
    BY DEF DopoNext, Inv, CursoreTypeOK
  <2> QED BY <1>1, <2>1, SpostaInv DEF next, Risposta
<1>2. CASE previous
  <2>1. DopoPrevious(rowPointer) \in -1..dataSize
    BY DEF DopoPrevious, Inv, CursoreTypeOK
  <2> QED BY <1>2, <2>1, SpostaInv DEF previous, Risposta
<1>3. CASE first
  BY <1>3, SMT DEF first, Sposta, Risposta, Inv, CursoreTypeOK, Sincrono
<1>4. CASE last
  BY <1>4, SMT DEF last, Sposta, Risposta, Inv, CursoreTypeOK, Sincrono
<1>5. CASE beforeFirst \/ afterLast
  BY <1>5, SMT DEF beforeFirst, afterLast, Sposta, Inv, CursoreTypeOK, Sincrono
<1>6. ASSUME NEW k \in Interi, absolute(k) PROVE Inv'
  <2>1. k \in Int /\ dataSize \in Nat BY <1>6 DEF Interi, Inv, CursoreTypeOK
  <2>2. CASE k >= 0 /\ k <= dataSize
    <3>1. Sposta(k - 1, "vero") BY <1>6, <2>2 DEF absolute
    <3> QED BY <3>1, <2>1, <2>2, SpostaInv
  <2>3. CASE k >= 0 /\ ~(k <= dataSize)
    <3>1. Sposta(dataSize, "falso") BY <1>6, <2>3 DEF absolute
    <3> QED BY <3>1, <2>1, <2>3, SpostaInv
  <2>4. CASE ~(k >= 0) /\ dataSize + k >= 0
    <3>1. Sposta(dataSize + k, "vero") BY <1>6, <2>4 DEF absolute
    <3> QED BY <3>1, <2>1, <2>4, SpostaInv
  <2>5. CASE ~(k >= 0) /\ ~(dataSize + k >= 0)
    <3>1. Sposta(-1, "falso") BY <1>6, <2>5 DEF absolute
    <3> QED BY <3>1, <2>1, <2>5, SpostaInv
  <2> QED BY <2>2, <2>3, <2>4, <2>5
<1>7. ASSUME NEW k \in Interi, relative(k) PROVE Inv'
  <2>1. DopoRelative(rowPointer, k) \in -1..dataSize
    BY <1>7, RelativoDentro
  <2> QED BY <1>7, <2>1, SpostaInv DEF relative, Risposta
<1>8. CASE RifiutaChiuso \/ close
  BY <1>8, Zenon DEF RifiutaChiuso, Risponde, close, Inv, CursoreTypeOK, Sincrono
<1>10. CASE LeggeFuori \/ LeggeColonnaAssente \/ LeggeCancellata
  BY <1>10, Zenon DEF LeggeFuori, LeggeColonnaAssente, LeggeCancellata, Risponde,
                      Inv, CursoreTypeOK, Sincrono
<1>9. CASE UNCHANGED vars
  BY <1>9, SMT DEF vars, Inv, CursoreTypeOK, Sincrono
<1> QED BY <1>1, <1>2, <1>3, <1>4, <1>5, <1>6, <1>7, <1>8, <1>9, <1>10,
      LeggeInv DEF Next

LEMMA Invariante == Spec => []Inv
<1>1. Inv /\ [Next]_vars => Inv' BY NextInv
<1> QED BY InitInv, <1>1, PTL DEF Spec

\* However the client moves and reads, every variable keeps its type: no
\* fetch asks the C library for a row the set does not have.
THEOREM CursoreTipato == Spec => []CursoreTypeOK
<1>1. Inv => CursoreTypeOK BY DEF Inv
<1> QED BY Invariante, <1>1, PTL

\* The row shown is the one read last, and the C library's cursor stands
\* after it, which is what lets resetRow fetch without a seek.
THEOREM CursoreSincrono == Spec => []Sincrono
<1>1. Inv => Sincrono BY DEF Inv
<1> QED BY Invariante, <1>1, PTL

\* relative(1) and next(), relative(-1) and previous() never part.
THEOREM PassiUguali == Spec => []RelativoEquivale
<1>1. Inv => RelativoEquivale
  BY CursoreAssumption, SMT
    DEF Inv, CursoreTypeOK, RelativoEquivale, DopoRelative, Intero, DopoNext, DopoPrevious
<1> QED BY Invariante, <1>1, PTL

\* The client of a set with rows is told exactly one position.
THEOREM PosizioneUnica == Spec => []UnaSolaPosizione
<1>1. Inv => UnaSolaPosizione
  BY SMT DEF Inv, CursoreTypeOK, UnaSolaPosizione, isBeforeFirst, isAfterLast, isFirst,
             isLast, getRow
<1> QED BY Invariante, <1>1, PTL

-----------------------------------------------------------------------------
(* The cursor implements Scorrimento.                                       *)

LEMMA InitImplementa == Init => Scorri!Init
BY CursoreAssumption, SMT DEF Init, Scorri!Init

LEMMA NextImplementa == ASSUME Inv, Inv', [Next]_vars PROVE [Scorri!Next]_(Scorri!vars)
<1> USE CursoreAssumption DEF Inv, CursoreTypeOK
<1>1. CASE next
  <2>1. Scorri!Avanti
    BY <1>1, SMT DEF next, DopoNext, Sposta, Risposta, Scorri!Avanti, Scorri!Va,
                     Scorri!Stretto, Scorri!Risposta
  <2> QED BY <2>1 DEF Scorri!Next
<1>2. CASE previous
  <2>1. Scorri!Indietro
    BY <1>2, SMT DEF previous, DopoPrevious, Sposta, Risposta, Scorri!Indietro, Scorri!Va,
                     Scorri!Stretto, Scorri!Risposta
  <2> QED BY <2>1 DEF Scorri!Next
<1>3. CASE first
  <2>1. Scorri!Primo
    BY <1>3, SMT DEF first, Sposta, Risposta, Scorri!Primo, Scorri!Va, Scorri!Risposta
  <2> QED BY <2>1 DEF Scorri!Next
<1>4. CASE last
  <2>1. Scorri!Ultimo
    BY <1>4, SMT DEF last, Sposta, Risposta, Scorri!Ultimo, Scorri!Va, Scorri!Risposta
  <2> QED BY <2>1 DEF Scorri!Next
<1>5. CASE beforeFirst
  <2>1. Scorri!Ai(0)
    BY <1>5, SMT DEF beforeFirst, Sposta, Scorri!Ai
  <2> QED BY <2>1 DEF Scorri!Next
<1>6. CASE afterLast
  <2>1. Scorri!Ai(dataSize + 1)
    BY <1>6, SMT DEF afterLast, Sposta, Scorri!Ai
  <2> QED BY <2>1 DEF Scorri!Next
<1>7. ASSUME NEW k \in Interi, absolute(k) PROVE Scorri!Next
  <2>1. Scorri!Assoluto(k)
    <3>1. k \in Int /\ dataSize \in Nat BY <1>7 DEF Interi
    <3> USE DEF Sposta, Scorri!Assoluto, Scorri!Stretto, Scorri!Risposta
    <3>2. CASE k >= 0 /\ k <= dataSize
      <4>1. Sposta(k - 1, "vero") BY <1>7, <3>2 DEF absolute
      <4> QED BY <4>1, <3>1, <3>2, SMT
    <3>3. CASE k >= 0 /\ ~(k <= dataSize)
      <4>1. Sposta(dataSize, "falso") BY <1>7, <3>3 DEF absolute
      <4> QED BY <4>1, <3>1, <3>3, SMT
    <3>4. CASE ~(k >= 0) /\ dataSize + k >= 0
      <4>1. Sposta(dataSize + k, "vero") BY <1>7, <3>4 DEF absolute
      <4> QED BY <4>1, <3>1, <3>4, SMT
    <3>5. CASE ~(k >= 0) /\ ~(dataSize + k >= 0)
      <4>1. Sposta(-1, "falso") BY <1>7, <3>5 DEF absolute
      <4> QED BY <4>1, <3>1, <3>5, SMT
    <3> QED BY <3>2, <3>3, <3>4, <3>5
  <2> QED BY <1>7, <2>1 DEF Scorri!Next, Interi
<1>8. ASSUME NEW k \in Interi, relative(k) PROVE Scorri!Next
  <2>1. Scorri!Relativo(k)
    BY <1>8, SMT DEF relative, DopoRelative, Intero, Interi, Sposta, Risposta, Scorri!Relativo,
                     Scorri!Va, Scorri!Stretto, Scorri!Risposta
  <2> QED BY <1>8, <2>1 DEF Scorri!Next, Interi
<1>9. CASE Legge
  <2>1. riga' = rowPointer BY <1>9, SMT DEF Legge, SuUnaRiga, resetRow, DaLeggere, Sincrono
  <2>2. rowPointer + 1 \in 1..dataSize BY <1>9, SMT DEF Legge, SuUnaRiga
  <2>3. Scorri!Legge BY <1>9, <2>1, <2>2, Zenon DEF Legge, Scorri!Legge
  <2> QED BY <2>3 DEF Scorri!Next
<1>10. CASE LeggeFuori \/ RifiutaChiuso
  <2>1. rowPointer + 1 \notin 1..dataSize \/ isClosedFlag
    <3>1. CASE LeggeFuori BY <3>1, SMT DEF LeggeFuori, SuUnaRiga
    <3>2. CASE RifiutaChiuso BY <3>2 DEF RifiutaChiuso
    <3> QED BY <1>10, <3>1, <3>2
  <2>2. Scorri!Rifiuta
    BY <1>10, <2>1, Zenon DEF LeggeFuori, Risponde, RifiutaChiuso, Scorri!Rifiuta, Scorri!Dice
  <2> QED BY <2>2 DEF Scorri!Next
<1>13. CASE LeggeColonnaAssente \/ LeggeCancellata
  <2>1. rowPointer + 1 \in 1..dataSize
    BY <1>13, SMT DEF LeggeColonnaAssente, LeggeCancellata, SuUnaRiga
  <2>2. Scorri!SenzaColonna \/ Scorri!Liberata
    BY <1>13, <2>1, Zenon DEF LeggeColonnaAssente, LeggeCancellata, Risponde,
                              Scorri!SenzaColonna, Scorri!Liberata, Scorri!Dice
  <2> QED BY <2>2 DEF Scorri!Next
<1>11. CASE close
  <2>1. Scorri!Chiude
    BY <1>11, SMT DEF close, Scorri!Chiude
  <2> QED BY <2>1 DEF Scorri!Next
<1>12. CASE UNCHANGED vars
  BY <1>12 DEF vars, Scorri!vars
<1> QED BY <1>1, <1>2, <1>3, <1>4, <1>5, <1>6, <1>7, <1>8, <1>9, <1>10, <1>11, <1>12,
      <1>13 DEF Next

\* Every read returns the row the client stands on, whatever moves and reads
\* came before, for any number of rows.
THEOREM CursoreImplementa == Spec => Implementa
<1>1. Inv /\ Inv' /\ [Next]_vars => [Scorri!Next]_(Scorri!vars) BY NextImplementa
<1> QED BY InitImplementa, Invariante, <1>1, PTL DEF Spec, Implementa, Scorri!Spec
=============================================================================
