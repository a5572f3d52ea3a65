--------------------------- MODULE RisultatiProofs ---------------------------
(***************************************************************************)
(* The results of the statements of a connection, for any number of         *)
(* statements, of outcomes and of result sets.                              *)
(*                                                                          *)
(* A result set has one owner, so nobody but the client closes those it     *)
(* has; and getMoreResults and getUpdateCount tell the truth as long as     *)
(* each statement asks only for its own outcomes.                           *)
(***************************************************************************)
EXTENDS Risultati, FiniteSetTheorems, SequenceTheorems, TLAPS

Ris == [cmd : {"assente", "nessuna", "single", "multiple"}, counts : Seq(Esiti),
        moreResultsIdx : Nat, executionResults : Seq(Rs), resultSet : Rs \cup {0}]

PostiTipi ==
  /\ closed \in [Stmt -> BOOLEAN]
  /\ results \in [Stmt -> Ris]
  /\ presi \subseteq Rs

StoriaTipi ==
  /\ pendenti \in Seq(Esiti)
  /\ pendenti # <<>> => titolare \in Stmt
  /\ attesa \in [Stmt -> Seq(Esiti \cup {"perso"})]

\* Within one Results, no result set is in two places.
Distinti(r) ==
  /\ \A i, j \in 1..Len(r.executionResults) :
       r.executionResults[i] = r.executionResults[j] => i = j
  /\ r.resultSet \notin In(r.executionResults)

Posti ==
  /\ \A s \in Stmt : Distinti(results[s]) /\ Tenuti(results[s]) \cap presi = {}
  /\ \A s, t \in Stmt : s # t => Tenuti(results[s]) \cap Tenuti(results[t]) = {}
  /\ \A x \in chiusi : x \in presi \/ \E s \in Stmt : x \in Tenuti(results[s])

\* An error, or the mixing of two statements, is the last thing a history tells.
Ultimo ==
  \A s \in Stmt : \A i \in 1..Len(attesa[s]) :
    attesa[s][i] \in {"err", "perso"} => i = Len(attesa[s])

\* Where a regular walk stands: the counts read are those up to the outcome the
\* client is on, no result set waits behind it, and the rest is to be read.
Passo(s) ==
  LET r == results[s] IN
  /\ r.executionResults = <<>>
  /\ r.resultSet # 0 => Attuale(s) = "rs"
  /\ attesa[s] # <<>> => Tail(attesa[s]) = IF titolare = s THEN pendenti ELSE <<>>
  /\ attesa[s] = <<>> => pendenti = <<>> \/ titolare # s
  /\ r.cmd = "single" =>
       /\ attesa[s] # <<>> => r.counts = <<Attuale(s)>> /\ Tail(attesa[s]) = <<>>
       /\ attesa[s] = <<>> => r.counts = <<"rs">>
  /\ r.cmd = "multiple" =>
       /\ attesa[s] # <<>> =>
            Len(r.counts) = r.moreResultsIdx + 1 /\ r.counts[r.moreResultsIdx + 1] = Attuale(s)
       /\ attesa[s] = <<>> => r.moreResultsIdx >= Len(r.counts)

Cammino(s) ==
  /\ results[s].cmd = "nessuna" => Attuale(s) \in {"err", "perso"}
  /\ Regolare(s) => Passo(s)

\* The client's result sets came from a statement.
Provenienza == presi # {} => Stmt # {}

RisInv ==
  /\ PostiTipi /\ StoriaTipi /\ Posti /\ Provenienza /\ Ultimo
  /\ \A s \in Stmt : Cammino(s)

-----------------------------------------------------------------------------
(* Results and its CmdInformation: what each operation leaves.              *)

\* The counts go on; the result sets do not move.
LEMMA ConContoRis ==
  ASSUME NEW r \in Ris, r.cmd # "assente", NEW o \in Esiti, NEW altri
  PROVE  /\ ConConto(r, o, altri) \in Ris
         /\ ConConto(r, o, altri).cmd \in {"single", "multiple"}
         /\ ConConto(r, o, altri).executionResults = r.executionResults
         /\ ConConto(r, o, altri).resultSet = r.resultSet
         /\ ConConto(r, o, altri).moreResultsIdx = r.moreResultsIdx
<1>1. \A k \in {"single", "multiple"}, cs \in Seq(Esiti) :
        LET c == [r EXCEPT !.cmd = k, !.counts = cs] IN
        /\ c \in Ris /\ c.cmd = k
        /\ c.executionResults = r.executionResults
        /\ c.resultSet = r.resultSet /\ c.moreResultsIdx = r.moreResultsIdx
  BY DEF Ris
<1>2. \A cs \in Seq(Esiti) :
        LET c == [r EXCEPT !.counts = cs] IN
        /\ c \in Ris /\ c.cmd = r.cmd
        /\ c.executionResults = r.executionResults
        /\ c.resultSet = r.resultSet /\ c.moreResultsIdx = r.moreResultsIdx
  BY DEF Ris
<1>3. <<o>> \in Seq(Esiti) /\ Append(r.counts, o) \in Seq(Esiti)
  BY DEF Ris
<1>4. CASE r.cmd = "nessuna"
  <2>1. PICK k \in {"single", "multiple"} :
          ConConto(r, o, altri) = [r EXCEPT !.cmd = k, !.counts = <<o>>]
    <3>1. (IF altri THEN "multiple" ELSE "single") \in {"single", "multiple"} BY Zenon
    <3> QED BY <1>4, <3>1, Zenon DEF ConConto
  <2>2. k \in {"single", "multiple"} OBVIOUS
  <2>3. /\ [r EXCEPT !.cmd = k, !.counts = <<o>>] \in Ris
        /\ [r EXCEPT !.cmd = k, !.counts = <<o>>].cmd = k
        /\ [r EXCEPT !.cmd = k, !.counts = <<o>>].executionResults = r.executionResults
        /\ [r EXCEPT !.cmd = k, !.counts = <<o>>].resultSet = r.resultSet
        /\ [r EXCEPT !.cmd = k, !.counts = <<o>>].moreResultsIdx = r.moreResultsIdx
    BY <1>1, <1>3, <2>2, Zenon
  <2> QED BY <2>1, <2>2, <2>3
<1>5. CASE r.cmd = "multiple"
  <2>1. ConConto(r, o, altri) = [r EXCEPT !.counts = Append(r.counts, o)]
    BY <1>5, Zenon DEF ConConto
  <2> QED BY <1>2, <1>3, <1>5, <2>1, Zenon
<1>6. CASE r.cmd = "single"
  <2>1. ConConto(r, o, altri) = r BY <1>6, Zenon DEF ConConto
  <2> QED BY <1>6, <2>1
<1> QED BY <1>4, <1>5, <1>6 DEF Ris

LEMMA LettoRis ==
  ASSUME NEW r \in Ris, r.cmd # "assente", NEW o \in {"rs", "upd"}, NEW altri, NEW id,
         o = "rs" => id \in Rs
  PROVE  /\ Letto(r, o, altri, id) \in Ris
         /\ Letto(r, o, altri, id).cmd = ConConto(r, o, altri).cmd
         /\ Letto(r, o, altri, id).counts = ConConto(r, o, altri).counts
         /\ Letto(r, o, altri, id).moreResultsIdx = r.moreResultsIdx
         /\ Letto(r, o, altri, id).resultSet = r.resultSet
         /\ o = "rs" => Letto(r, o, altri, id).executionResults = Append(r.executionResults, id)
         /\ o # "rs" => Letto(r, o, altri, id).executionResults = r.executionResults
<1> DEFINE c == ConConto(r, o, altri)
<1>1. /\ c \in Ris /\ c.executionResults = r.executionResults
      /\ c.resultSet = r.resultSet /\ c.moreResultsIdx = r.moreResultsIdx
  BY ConContoRis DEF Esiti
<1> HIDE DEF c
<1>2. o = "rs" => Letto(r, o, altri, id) = [c EXCEPT !.executionResults = Append(@, id)]
  BY Zenon DEF Letto, c
<1>3. o # "rs" => Letto(r, o, altri, id) = [c EXCEPT !.executionResults = @]
  BY Zenon DEF Letto, c
<1>4. CASE o = "rs"
  <2>1. Append(c.executionResults, id) \in Seq(Rs) BY <1>1, <1>4 DEF Ris
  <2> QED BY <1>1, <1>2, <1>4, <2>1 DEF Ris, c
<1>5. CASE o # "rs" BY <1>1, <1>3, <1>5 DEF Ris, c
<1> QED BY <1>4, <1>5

LEMMA LettoErroreRis ==
  ASSUME NEW r \in Ris, r.cmd # "assente"
  PROVE  /\ LettoErrore(r) \in Ris
         /\ LettoErrore(r).cmd \in {"single", "multiple"}
         /\ LettoErrore(r).executionResults = r.executionResults
         /\ LettoErrore(r).resultSet = r.resultSet
<1> DEFINE c == ConConto(r, "err", FALSE)
<1>1. /\ c \in Ris /\ c.executionResults = r.executionResults /\ c.resultSet = r.resultSet
      /\ c.cmd # "assente"
  BY ConContoRis DEF Esiti
<1> HIDE DEF c
<1>2. LettoErrore(r) = ConConto(c, "err", FALSE) BY DEF LettoErrore, c
<1>3. "err" \in Esiti BY DEF Esiti
<1>4. /\ ConConto(c, "err", FALSE) \in Ris
      /\ ConConto(c, "err", FALSE).cmd \in {"single", "multiple"}
      /\ ConConto(c, "err", FALSE).executionResults = c.executionResults
      /\ ConConto(c, "err", FALSE).resultSet = c.resultSet
  BY <1>1, <1>3, ConContoRis, Zenon
<1> QED BY <1>1, <1>2, <1>4, Zenon

LEMMA AvanzatoRis ==
  ASSUME NEW r \in Ris
  PROVE  /\ Avanzato(r) \in Ris
         /\ Avanzato(r).cmd = r.cmd
         /\ Avanzato(r).executionResults = r.executionResults
         /\ Avanzato(r).resultSet = r.resultSet
         /\ r.cmd = "multiple" =>
              Avanzato(r).counts = r.counts /\ Avanzato(r).moreResultsIdx = r.moreResultsIdx + 1
         /\ r.cmd # "multiple" => Avanzato(r).counts = <<"rs">>
<1>1. CASE r.cmd = "multiple" BY <1>1 DEF Avanzato, Esaurito, Ris
<1>2. CASE r.cmd # "multiple"
  <2>1. <<"rs">> \in Seq(Esiti) BY DEF Esiti
  <2> QED BY <1>2, <2>1 DEF Avanzato, Esaurito, Ris
<1> QED BY <1>1, <1>2

LEMMA ProssimoRis ==
  ASSUME NEW r \in Ris
  PROVE  /\ Prossimo(r) \in Ris
         /\ Prossimo(r).cmd = r.cmd /\ Prossimo(r).counts = r.counts
         /\ Prossimo(r).moreResultsIdx = r.moreResultsIdx
         /\ r.executionResults = <<>> => Prossimo(r) = r
         /\ r.executionResults # <<>> =>
              /\ Prossimo(r).resultSet = Head(r.executionResults)
              /\ Prossimo(r).executionResults = Tail(r.executionResults)
<1>1. CASE r.executionResults = <<>> BY <1>1 DEF Prossimo
<1>2. CASE r.executionResults # <<>>
  <2>1. Head(r.executionResults) \in Rs /\ Tail(r.executionResults) \in Seq(Rs)
    BY <1>2, HeadTailProperties DEF Ris
  <2> QED BY <1>2, <2>1 DEF Prossimo, Ris
<1> QED BY <1>1, <1>2

-----------------------------------------------------------------------------
(* The places of the result sets.                                           *)

Diversi(q) == \A i, j \in 1..Len(q) : q[i] = q[j] => i = j

LEMMA InDi == ASSUME NEW S, NEW q \in Seq(S), NEW x
              PROVE  x \in In(q) <=> \E i \in 1..Len(q) : q[i] = x
BY DEF In

LEMMA AggiungeIn ==
  ASSUME NEW S, NEW q \in Seq(S), NEW x \in S
  PROVE  /\ In(Append(q, x)) = In(q) \cup {x}
         /\ Diversi(q) /\ x \notin In(q) => Diversi(Append(q, x))
<1> DEFINE p == Append(q, x)
<1>1. /\ p \in Seq(S) /\ Len(p) = Len(q) + 1 /\ Len(q) \in Nat
      /\ \A i \in 1..Len(q) : p[i] = q[i]
      /\ p[Len(q) + 1] = x
  BY AppendProperties
<1> HIDE DEF p
<1>2. ASSUME NEW y PROVE y \in In(p) <=> y \in In(q) \cup {x}
  <2>1. y \in In(p) <=> \E i \in 1..(Len(q) + 1) : p[i] = y BY <1>1, InDi
  <2>2. y \in In(q) <=> \E i \in 1..Len(q) : q[i] = y BY InDi
  <2>3. (\E i \in 1..(Len(q) + 1) : p[i] = y) <=> (\E i \in 1..Len(q) : q[i] = y) \/ x = y
    BY <1>1
  <2> QED BY <2>1, <2>2, <2>3
<1>3. ASSUME Diversi(q), x \notin In(q) PROVE Diversi(p)
  <2>1. \A i \in 1..Len(q) : q[i] # x BY <1>3, InDi
  <2> QED BY <1>1, <1>3, <2>1 DEF Diversi
<1> QED BY <1>2, <1>3 DEF p

LEMMA ToglieIn ==
  ASSUME NEW S, NEW q \in Seq(S), q # <<>>
  PROVE  /\ In(q) = In(Tail(q)) \cup {Head(q)}
         /\ Diversi(q) => Diversi(Tail(q)) /\ Head(q) \notin In(Tail(q))
<1> DEFINE p == Tail(q)
<1>1. /\ p \in Seq(S) /\ Len(p) = Len(q) - 1 /\ Len(q) \in Nat \ {0}
      /\ \A i \in 1..Len(p) : p[i] = q[i + 1]
      /\ Head(q) = q[1]
  BY HeadTailProperties, EmptySeq, LenProperties
<1> HIDE DEF p
<1>2. ASSUME NEW y PROVE y \in In(q) <=> y \in In(p) \cup {Head(q)}
  <2>1. y \in In(p) <=> \E i \in 1..(Len(q) - 1) : q[i + 1] = y
    <3>1. y \in In(p) <=> \E i \in 1..Len(p) : p[i] = y BY <1>1, InDi
    <3> QED BY <1>1, <3>1
  <2>2. y \in In(q) <=> \E i \in 1..Len(q) : q[i] = y BY InDi
  <2>3. (\E i \in 1..Len(q) : q[i] = y) => (\E i \in 1..(Len(q) - 1) : q[i + 1] = y) \/ q[1] = y
    <3> SUFFICES ASSUME NEW i \in 1..Len(q), q[i] = y, q[1] # y
                 PROVE  \E j \in 1..(Len(q) - 1) : q[j + 1] = y
      OBVIOUS
    <3>1. i - 1 \in 1..(Len(q) - 1) /\ (i - 1) + 1 = i BY <1>1
    <3> QED BY <3>1
  <2>4. (\E i \in 1..(Len(q) - 1) : q[i + 1] = y) \/ q[1] = y => \E i \in 1..Len(q) : q[i] = y
    BY <1>1
  <2> QED BY <1>1, <2>1, <2>2, <2>3, <2>4
<1>3. ASSUME Diversi(q) PROVE Diversi(p) /\ Head(q) \notin In(p)
  <2>1. Diversi(p) BY <1>1, <1>3 DEF Diversi
  <2>2. ASSUME NEW i \in 1..Len(p) PROVE p[i] # q[1]
    <3>1. i + 1 \in 1..Len(q) /\ 1 \in 1..Len(q) /\ i + 1 # 1 /\ p[i] = q[i + 1] BY <1>1
    <3> QED BY <1>3, <3>1 DEF Diversi
  <2> QED BY <1>1, <2>1, <2>2, InDi
<1> QED BY <1>2, <1>3 DEF p

LEMMA DiversiDistinti ==
  ASSUME NEW r
  PROVE  Distinti(r) <=> Diversi(r.executionResults) /\ r.resultSet \notin In(r.executionResults)
BY DEF Distinti, Diversi

LEMMA ZeroNonRs == 0 \notin Rs BY RisultatiAssumption

LEMMA TenutiRs == ASSUME NEW r \in Ris PROVE Tenuti(r) \subseteq Rs /\ In(r.executionResults) \subseteq Rs
<1>1. r.executionResults \in Seq(Rs) /\ r.resultSet \in Rs \cup {0} BY DEF Ris
<1>2. In(r.executionResults) \subseteq Rs BY <1>1, InDi, ElementOfSeq
<1> QED BY <1>1, <1>2 DEF Tenuti

\* A new result set waits behind the others.
LEMMA LettoPosti ==
  ASSUME NEW r \in Ris, r.cmd # "assente", NEW o \in {"rs", "upd"}, NEW altri, NEW id,
         o = "rs" => id \in Rs \ Tenuti(r), Distinti(r)
  PROVE  /\ Distinti(Letto(r, o, altri, id))
         /\ Tenuti(Letto(r, o, altri, id)) \subseteq Tenuti(r) \cup (IF o = "rs" THEN {id} ELSE {})
         /\ Tenuti(r) \subseteq Tenuti(Letto(r, o, altri, id))
<1> DEFINE l == Letto(r, o, altri, id)
<1>1. /\ l.resultSet = r.resultSet
      /\ o = "rs" => l.executionResults = Append(r.executionResults, id)
      /\ o # "rs" => l.executionResults = r.executionResults
  <2>1. o = "rs" => id \in Rs OBVIOUS
  <2> QED BY <2>1, LettoRis, SMT
<1> HIDE DEF l
<1>2. r.executionResults \in Seq(Rs) BY DEF Ris
<1>3. Diversi(r.executionResults) /\ r.resultSet \notin In(r.executionResults) BY DiversiDistinti
<1>4. CASE o = "rs"
  <2>1. id # r.resultSet /\ id \notin In(r.executionResults)
    BY <1>4, ZeroNonRs DEF Tenuti
  <2>2. /\ In(l.executionResults) = In(r.executionResults) \cup {id}
        /\ Diversi(l.executionResults)
    <3>1. id \in Rs /\ l.executionResults = Append(r.executionResults, id) BY <1>1, <1>4
    <3>2. /\ In(Append(r.executionResults, id)) = In(r.executionResults) \cup {id}
          /\ Diversi(r.executionResults) /\ id \notin In(r.executionResults) =>
               Diversi(Append(r.executionResults, id))
      BY <1>2, <3>1, AggiungeIn, Zenon
    <3> QED BY <1>3, <2>1, <3>1, <3>2, Zenon
  <2>3. Distinti(l) BY <1>1, <1>3, <2>1, <2>2, DiversiDistinti
  <2>4. Tenuti(l) = Tenuti(r) \cup {id} BY <1>1, <2>2 DEF Tenuti
  <2> QED BY <1>4, <2>3, <2>4 DEF l
<1>5. CASE o # "rs"
  <2>1. Distinti(l) BY <1>1, <1>3, <1>5, DiversiDistinti
  <2>2. Tenuti(l) = Tenuti(r) BY <1>1, <1>5 DEF Tenuti
  <2> QED BY <1>5, <2>1, <2>2 DEF l
<1> QED BY <1>4, <1>5

\* Moving on, the first of those that wait takes the place of the current one.
Dopo(r) == IF AncoraRs(r) THEN Prossimo(Avanzato(r)) ELSE [Avanzato(r) EXCEPT !.resultSet = 0]

LEMMA DopoPosti ==
  ASSUME NEW r \in Ris, Distinti(r)
  PROVE  /\ Dopo(r) \in Ris /\ Dopo(r).cmd = r.cmd
         /\ Distinti(Dopo(r))
         /\ Dopo(r).resultSet = r.resultSet => Tenuti(Dopo(r)) = Tenuti(r)
         /\ Dopo(r).resultSet # r.resultSet => Tenuti(Dopo(r)) = Tenuti(r) \ {r.resultSet}
<1> DEFINE a == Avanzato(r)
           d == Dopo(r)
<1>1. /\ a \in Ris /\ a.cmd = r.cmd /\ a.executionResults = r.executionResults
      /\ a.resultSet = r.resultSet
  BY AvanzatoRis
<1>2. AncoraRs(r) => d = Prossimo(a) BY Zenon DEF Dopo
<1>3. ~AncoraRs(r) => d = [a EXCEPT !.resultSet = 0] BY Zenon DEF Dopo
<1> HIDE DEF a, d
<1>4. Diversi(r.executionResults) /\ r.resultSet \notin In(r.executionResults) BY DiversiDistinti
<1>5. r.executionResults \in Seq(Rs) /\ r.resultSet \in Rs \cup {0} BY DEF Ris
<1>6. 0 \notin In(r.executionResults) BY TenutiRs, ZeroNonRs
<1>7. CASE AncoraRs(r) /\ r.executionResults = <<>>
  <2>1. d = a BY <1>1, <1>2, <1>7, ProssimoRis
  <2>2. Distinti(a) BY <1>1, <1>4, DiversiDistinti
  <2>3. Tenuti(a) = Tenuti(r) BY <1>1 DEF Tenuti
  <2> QED BY <1>1, <2>1, <2>2, <2>3 DEF d
<1>8. CASE AncoraRs(r) /\ r.executionResults # <<>>
  <2>1. /\ d \in Ris /\ d.cmd = r.cmd
        /\ d.resultSet = Head(r.executionResults)
        /\ d.executionResults = Tail(r.executionResults)
    BY <1>1, <1>2, <1>8, ProssimoRis
  <2>2. /\ In(r.executionResults) = In(d.executionResults) \cup {d.resultSet}
        /\ Diversi(d.executionResults) /\ d.resultSet \notin In(d.executionResults)
    BY <1>4, <1>5, <1>8, <2>1, ToglieIn
  <2>3. Distinti(d) BY <2>2, DiversiDistinti
  <2>4. d.resultSet # 0 /\ d.resultSet # r.resultSet BY <1>4, <1>6, <2>2
  <2>5. Tenuti(d) = In(r.executionResults) BY <2>2, <2>4 DEF Tenuti
  <2>6. Tenuti(r) \ {r.resultSet} = In(r.executionResults) BY <1>4 DEF Tenuti
  <2> QED BY <2>1, <2>3, <2>4, <2>5, <2>6 DEF d
<1>9. CASE ~AncoraRs(r)
  <2>1. /\ d \in Ris /\ d.cmd = r.cmd /\ d.resultSet = 0
        /\ d.executionResults = r.executionResults
    BY <1>1, <1>3, <1>9 DEF Ris
  <2>2. Distinti(d) BY <1>4, <1>6, <2>1, DiversiDistinti
  <2>3. Tenuti(d) = In(r.executionResults) BY <2>1 DEF Tenuti
  <2>4. /\ r.resultSet # 0 => Tenuti(r) \ {r.resultSet} = In(r.executionResults)
        /\ r.resultSet = 0 => Tenuti(r) = In(r.executionResults)
    BY <1>4 DEF Tenuti
  <2> QED BY <2>1, <2>2, <2>3, <2>4 DEF d
<1> QED BY <1>7, <1>8, <1>9

\* What is read counts, and so does whether more is to be read.
LEMMA ContoLetto ==
  ASSUME NEW r \in Ris, NEW o \in {"rs", "upd"}, NEW n \in Nat, NEW id, o = "rs" => id \in Rs
  PROVE  /\ r.cmd = "nessuna" =>
              /\ Letto(r, o, n > 1, id).counts = <<o>>
              /\ Letto(r, o, n > 1, id).cmd = "single" => n <= 1
         /\ r.cmd = "multiple" =>
              /\ Letto(r, o, n > 1, id).counts = Append(r.counts, o)
              /\ Letto(r, o, n > 1, id).cmd = "multiple"
         /\ r.cmd = "single" =>
              /\ Letto(r, o, n > 1, id).counts = r.counts
              /\ Letto(r, o, n > 1, id).cmd = "single"
<1> DEFINE c == ConConto(r, o, n > 1)
<1>1. r.cmd # "assente" => Letto(r, o, n > 1, id).counts = c.counts /\ Letto(r, o, n > 1, id).cmd = c.cmd
  BY LettoRis
<1>2. CASE r.cmd = "nessuna"
  <2>1. n > 1 => c = [r EXCEPT !.cmd = "multiple", !.counts = <<o>>]
    BY <1>2, Zenon DEF ConConto
  <2>2. ~(n > 1) => c = [r EXCEPT !.cmd = "single", !.counts = <<o>>]
    BY <1>2, Zenon DEF ConConto
  <2> HIDE DEF c
  <2>3. CASE n > 1
    <3>1. c.counts = <<o>> /\ c.cmd = "multiple" BY <2>1, <2>3 DEF Ris
    <3> QED BY <1>1, <1>2, <3>1
  <2>4. CASE ~(n > 1)
    <3>1. c.counts = <<o>> BY <2>2, <2>4 DEF Ris
    <3> QED BY <1>1, <1>2, <2>4, <3>1
  <2> QED BY <2>3, <2>4
<1>3. CASE r.cmd = "multiple"
  <2>1. c = [r EXCEPT !.counts = Append(r.counts, o)] BY <1>3, Zenon DEF ConConto
  <2> HIDE DEF c
  <2>2. c.counts = Append(r.counts, o) /\ c.cmd = "multiple" BY <1>3, <2>1 DEF Ris
  <2> QED BY <1>1, <1>3, <2>2
<1>4. CASE r.cmd = "single"
  <2>1. c = r BY <1>4, Zenon DEF ConConto
  <2> HIDE DEF c
  <2> QED BY <1>1, <1>4, <2>1
<1> QED BY <1>1, <1>2, <1>3, <1>4 DEF Ris

\* A Results that has just been given its first outcome.
Primo(q, id) == CommandEnd(Letto(Nuovi, q[1], Len(q) > 1, id))

LEMMA NuoviRis ==
  /\ Nuovi \in Ris /\ Nuovi.cmd = "nessuna" /\ Nuovi.executionResults = <<>>
  /\ Nuovi.resultSet = 0 /\ Nuovi.moreResultsIdx = 0
  /\ Distinti(Nuovi) /\ Tenuti(Nuovi) = {}
<1>1. <<>> \in Seq(Esiti) /\ <<>> \in Seq(Rs) /\ Len(<<>>) = 0 OBVIOUS
<1>2. /\ Nuovi \in Ris /\ Nuovi.cmd = "nessuna" /\ Nuovi.executionResults = <<>>
      /\ Nuovi.resultSet = 0 /\ Nuovi.moreResultsIdx = 0
  BY <1>1 DEF Nuovi, Ris
<1>3. In(<<>>) = {} BY DEF In
<1> QED BY <1>1, <1>2, <1>3 DEF Distinti, Tenuti

LEMMA PrimoRis ==
  ASSUME NEW q \in Seq(Esiti), q # <<>>, q[1] # "err", NEW id, q[1] = "rs" => id \in Rs
  PROVE  /\ Primo(q, id) \in Ris /\ Primo(q, id).executionResults = <<>>
         /\ Primo(q, id).cmd \in {"single", "multiple"}
         /\ Primo(q, id).cmd = "single" => Len(q) = 1
         /\ Primo(q, id).counts = <<q[1]>> /\ Primo(q, id).moreResultsIdx = 0
         /\ q[1] = "rs" => Primo(q, id).resultSet = id
         /\ q[1] # "rs" => Primo(q, id).resultSet = 0
         /\ Distinti(Primo(q, id))
         /\ Tenuti(Primo(q, id)) = IF q[1] = "rs" THEN {id} ELSE {}
<1> DEFINE l == Letto(Nuovi, q[1], Len(q) > 1, id)
           p == Primo(q, id)
<1>0. Len(q) \in Nat \ {0} /\ q[1] \in {"rs", "upd"}
  BY EmptySeq, LenProperties, ElementOfSeq DEF Esiti
<1>7. Len(q) <= 1 => Len(q) = 1 BY <1>0
<1>1. /\ l \in Ris /\ l.counts = <<q[1]>> /\ l.moreResultsIdx = 0 /\ l.resultSet = 0
      /\ l.cmd = "single" => Len(q) <= 1
      /\ q[1] = "rs" => l.executionResults = Append(<<>>, id)
      /\ q[1] # "rs" => l.executionResults = <<>>
      /\ l.cmd \in {"single", "multiple"}
  <2>1. Nuovi.cmd # "assente" BY NuoviRis
  <2>2. /\ l \in Ris /\ l.moreResultsIdx = 0 /\ l.resultSet = 0
        /\ l.cmd = ConConto(Nuovi, q[1], Len(q) > 1).cmd
        /\ q[1] = "rs" => l.executionResults = Append(<<>>, id)
        /\ q[1] # "rs" => l.executionResults = <<>>
    BY <1>0, <2>1, NuoviRis, LettoRis
  <2>3. l.counts = <<q[1]>> /\ (l.cmd = "single" => Len(q) <= 1)
    BY <1>0, NuoviRis, ContoLetto
  <2>4. ConConto(Nuovi, q[1], Len(q) > 1).cmd \in {"single", "multiple"}
    BY <1>0, <2>1, NuoviRis, ConContoRis DEF Esiti
  <2> QED BY <2>2, <2>3, <2>4
<1>2. p = IF l.counts[1] = "rs" THEN Prossimo(l) ELSE l BY DEF Primo, CommandEnd
<1> HIDE DEF l, p
<1>3. l.counts[1] = q[1] BY <1>1
<1>4. In(<<>>) = {} /\ Len(<<>>) = 0 BY DEF In
<1>5. CASE q[1] = "rs"
  <2>1. /\ Append(<<>>, id) # <<>> /\ Head(Append(<<>>, id)) = id
        /\ Tail(Append(<<>>, id)) = <<>>
    OBVIOUS
  <2>2. p = Prossimo(l) BY <1>2, <1>3, <1>5
  <2>3. /\ p \in Ris /\ p.resultSet = id /\ p.executionResults = <<>>
        /\ p.cmd = l.cmd /\ p.counts = l.counts /\ p.moreResultsIdx = l.moreResultsIdx
    BY <1>1, <1>5, <2>1, <2>2, ProssimoRis
  <2>4. Distinti(p) /\ Tenuti(p) = {id}
    BY <1>4, <1>5, <2>3, ZeroNonRs DEF Distinti, Tenuti
  <2>5. (IF q[1] = "rs" THEN {id} ELSE {}) = {id} BY <1>5
  <2>6. p.cmd = "single" => Len(q) = 1 BY <1>1, <1>7, <2>3, Zenon
  <2> QED BY <1>1, <1>5, <2>3, <2>4, <2>5, <2>6, Zenon DEF p
<1>6. CASE q[1] # "rs"
  <2>1. p = l BY <1>2, <1>3, <1>6
  <2>2. Distinti(p) /\ Tenuti(p) = {} BY <1>1, <1>4, <1>6, <2>1 DEF Distinti, Tenuti
  <2>3. (IF q[1] = "rs" THEN {id} ELSE {}) = {} BY <1>6
  <2>4. p.cmd = "single" => Len(q) = 1 BY <1>1, <1>7, <2>1, Zenon
  <2> QED BY <1>1, <1>6, <2>1, <2>2, <2>3, <2>4, Zenon DEF p
<1> QED BY <1>5, <1>6

LEMMA RisposteSeq ==
  ASSUME NEW s, NEW q \in Risposte(s)
  PROVE  /\ q \in Seq(Esiti) /\ q # <<>> /\ Len(q) \in Nat \ {0}
         /\ \A i \in 1..(Len(q) - 1) : q[i] # "err"
<1>1. PICK k \in 1..Massimo(s) : q \in [1..k -> Esiti] BY DEF Risposte
<1>2. k \in Nat \ {0} BY <1>1, RisultatiAssumption DEF Massimo
<1>3. q \in Seq(Esiti) /\ Len(q) = k BY <1>1, <1>2
<1>4. \A i \in 1..(Len(q) - 1) : q[i] # "err" BY DEF Risposte
<1> QED BY <1>2, <1>3, <1>4

-----------------------------------------------------------------------------
(* Every step leaves each result set one place, and closes none of those    *)
(* the client has.                                                          *)

LEMMA LiberoNuovo == ASSUME NEW O, Rs \ O # {} PROVE Libero(O) \in Rs \ O
BY DEF Libero

LEMMA AltriDi ==
  ASSUME NEW s, NEW x
  PROVE  /\ x \in Altri(s) <=> x \in presi \/ \E t \in Stmt \ {s} : x \in Tenuti(results[t])
         /\ x \in Vivi(s) <=> x \in Altri(s) \/ x \in Tenuti(results[s])
BY DEF Altri, Vivi

\* The Results of s becomes r; the places of the other statements are theirs.
LEMMA Cambia ==
  ASSUME PostiTipi, Posti, NEW s \in Stmt, NEW r \in Ris, Distinti(r),
         results' = [results EXCEPT ![s] = r], presi' \subseteq Rs,
         closed' \in [Stmt -> BOOLEAN],
         Tenuti(r) \cap presi' = {},
         \A t \in Stmt \ {s} : Tenuti(r) \cap Tenuti(results[t]) = {}
                               /\ Tenuti(results[t]) \cap presi' = {},
         \A x \in chiusi' : \/ x \in presi' \/ x \in Tenuti(r)
                            \/ \E t \in Stmt \ {s} : x \in Tenuti(results[t])
  PROVE  PostiTipi' /\ Posti'
<1>1. results'[s] = r /\ \A t \in Stmt \ {s} : results'[t] = results[t] BY DEF PostiTipi
<1>2. PostiTipi' BY DEF PostiTipi
<1>3. ASSUME NEW t \in Stmt PROVE Distinti(results'[t]) /\ Tenuti(results'[t]) \cap presi' = {}
  BY <1>1 DEF Posti
<1>4. ASSUME NEW t \in Stmt, NEW u \in Stmt, t # u
      PROVE  Tenuti(results'[t]) \cap Tenuti(results'[u]) = {}
  <2>1. CASE t = s BY <1>1, <1>4, <2>1
  <2>2. CASE u = s BY <1>1, <1>4, <2>2
  <2>3. CASE t # s /\ u # s BY <1>1, <1>4, <2>3 DEF Posti
  <2> QED BY <2>1, <2>2, <2>3
<1>5. ASSUME NEW x \in chiusi' PROVE x \in presi' \/ \E t \in Stmt : x \in Tenuti(results'[t])
  BY <1>1
<1>6. \A t \in Stmt : Distinti(results[t])' /\ (Tenuti(results[t]) \cap presi = {})'
  BY <1>3 DEF Distinti, Tenuti
<1> QED BY <1>2, <1>3, <1>4, <1>5, <1>6 DEF Posti, Distinti, Tenuti

LEMMA executePosti ==
  ASSUME PostiTipi, Posti, NEW s \in Stmt, NEW q \in Seq(Esiti), q # <<>>, execute(s, q)
  PROVE  PostiTipi' /\ Posti'
<1>1. closed' \in [Stmt -> BOOLEAN] /\ presi' = presi /\ presi' \subseteq Rs
  BY DEF execute, PostiTipi
<1>2. chiusi' = chiusi \ Tenuti(results[s]) BY DEF execute
<1>3. \A x \in chiusi' : x \in presi' \/ \E t \in Stmt \ {s} : x \in Tenuti(results[t])
  BY <1>1, <1>2 DEF Posti
<1>4. CASE pendenti # <<>> \/ q[1] = "err"
  <2>1. results' = [results EXCEPT ![s] = Nuovi] BY <1>4 DEF execute
  <2>2. \A t \in Stmt \ {s} : Tenuti(Nuovi) \cap Tenuti(results[t]) = {}
                              /\ Tenuti(results[t]) \cap presi' = {}
    BY <1>1, NuoviRis DEF Posti
  <2>3. Nuovi \in Ris /\ Distinti(Nuovi) /\ Tenuti(Nuovi) \cap presi' = {} BY NuoviRis
  <2>4. PostiTipi' /\ Posti' BY <1>1, <1>3, <2>1, <2>2, <2>3, Cambia
  <2> QED BY <2>4
<1>5. CASE ~(pendenti # <<>> \/ q[1] = "err")
  <2> DEFINE id == Libero(Altri(s))
             p == Primo(q, id)
  <2>1. /\ results' = [results EXCEPT ![s] = p] /\ q[1] # "err"
        /\ q[1] = "rs" => Rs \ Altri(s) # {}
    BY <1>5, SMT DEF execute, Primo
  <2>2. q[1] = "rs" => id \in Rs \ Altri(s) BY <2>1, LiberoNuovo
  <2> HIDE DEF id
  <2>3. /\ p \in Ris /\ Distinti(p) /\ Tenuti(p) = IF q[1] = "rs" THEN {id} ELSE {}
    BY <2>1, <2>2, PrimoRis
  <2> HIDE DEF p
  <2>4. \A x \in Tenuti(p) : x \notin Altri(s) BY <2>2, <2>3
  <2>5. Tenuti(p) \cap presi' = {} BY <1>1, <2>4, AltriDi
  <2>6. \A t \in Stmt \ {s} : Tenuti(p) \cap Tenuti(results[t]) = {}
                              /\ Tenuti(results[t]) \cap presi' = {}
    BY <1>1, <2>4, AltriDi DEF Posti
  <2> QED BY <1>1, <1>3, <2>1, <2>3, <2>5, <2>6, Cambia
<1> QED BY <1>4, <1>5

LEMMA SenzaCorrente ==
  ASSUME NEW r \in Ris, Distinti(r)
  PROVE  /\ [r EXCEPT !.resultSet = 0] \in Ris /\ Distinti([r EXCEPT !.resultSet = 0])
         /\ Tenuti([r EXCEPT !.resultSet = 0]) = Tenuti(r) \ {r.resultSet}
<1> DEFINE d == [r EXCEPT !.resultSet = 0]
<1>1. d \in Ris /\ d.resultSet = 0 /\ d.executionResults = r.executionResults BY DEF Ris
<1> HIDE DEF d
<1>2. 0 \notin In(r.executionResults) BY TenutiRs, ZeroNonRs
<1>3. Distinti(d) BY <1>1, <1>2 DEF Distinti
<1>4. Tenuti(d) = In(r.executionResults) BY <1>1 DEF Tenuti
<1>5. Tenuti(r) \ {r.resultSet} = In(r.executionResults) BY DEF Tenuti, Distinti
<1> QED BY <1>1, <1>3, <1>4, <1>5 DEF d

LEMMA getResultSetPosti ==
  ASSUME PostiTipi, Posti, NEW s \in Stmt, getResultSet(s)
  PROVE  PostiTipi' /\ Posti'
<1> DEFINE r == results[s]
           d == [r EXCEPT !.resultSet = 0]
<1>1. /\ results' = [results EXCEPT ![s].resultSet = 0]
      /\ presi' = presi \cup {r.resultSet} /\ r.resultSet # 0
      /\ chiusi' = chiusi /\ closed' = closed
  BY DEF getResultSet, prende
<1>2. results' = [results EXCEPT ![s] = d] BY <1>1
<1>3. r \in Ris /\ Distinti(r) BY DEF PostiTipi, Posti
<1>4. r.resultSet \in Rs /\ r.resultSet \in Tenuti(r) BY <1>1, <1>3 DEF Ris, Tenuti
<1>5. d \in Ris /\ Distinti(d) /\ Tenuti(d) = Tenuti(r) \ {r.resultSet} BY <1>3, SenzaCorrente
<1> HIDE DEF d
<1>6. Tenuti(d) \cap presi' = {} BY <1>1, <1>5 DEF Posti
<1>7. \A t \in Stmt \ {s} : Tenuti(d) \cap Tenuti(results[t]) = {}
                            /\ Tenuti(results[t]) \cap presi' = {}
  BY <1>1, <1>4, <1>5 DEF Posti
<1>8. \A x \in chiusi' : \/ x \in presi' \/ x \in Tenuti(d)
                         \/ \E t \in Stmt \ {s} : x \in Tenuti(results[t])
  BY <1>1, <1>5 DEF Posti
<1>9. presi' \subseteq Rs /\ closed' \in [Stmt -> BOOLEAN] BY <1>1, <1>4 DEF PostiTipi
<1> QED BY <1>1, <1>2, <1>5, <1>6, <1>7, <1>8, <1>9, Cambia

LEMMA executeQueryPosti ==
  ASSUME PostiTipi, Posti, NEW s \in Stmt, NEW q \in Seq(Esiti), q # <<>>, executeQuery(s, q)
  PROVE  PostiTipi' /\ Posti'
<1> DEFINE id == Libero(Altri(s))
           p == Primo(q, id)
           d == [p EXCEPT !.resultSet = 0]
<1>1. /\ results' = [results EXCEPT ![s] = d] /\ presi' = presi \cup {id}
      /\ q[1] # "err" /\ Rs \ Altri(s) # {}
      /\ chiusi' = chiusi \ Tenuti(results[s]) /\ closed' = closed
  BY DEF executeQuery, Primo
<1>2. id \in Rs \ Altri(s) BY <1>1, LiberoNuovo
<1> HIDE DEF id
<1>3. /\ p \in Ris /\ Distinti(p)
      /\ Tenuti(p) = IF q[1] = "rs" THEN {id} ELSE {}
      /\ p.resultSet = IF q[1] = "rs" THEN id ELSE 0
  BY <1>1, <1>2, PrimoRis
<1> HIDE DEF p
<1>4. d \in Ris /\ Distinti(d) /\ Tenuti(d) = {} BY <1>3, SenzaCorrente
<1> HIDE DEF d
<1>5. \A t \in Stmt \ {s} : Tenuti(d) \cap Tenuti(results[t]) = {}
                            /\ Tenuti(results[t]) \cap presi' = {}
  BY <1>1, <1>2, <1>4, AltriDi DEF Posti
<1>6. \A x \in chiusi' : x \in presi' \/ \E t \in Stmt \ {s} : x \in Tenuti(results[t])
  BY <1>1 DEF Posti
<1>7. presi' \subseteq Rs /\ closed' \in [Stmt -> BOOLEAN] BY <1>1, <1>2 DEF PostiTipi
<1>8. Tenuti(d) \cap presi' = {} BY <1>4
<1>9. PostiTipi' /\ Posti' BY <1>1, <1>4, <1>5, <1>6, <1>7, <1>8, Cambia
<1> QED BY <1>1, <1>9

\* getMoreResults, on the Results that has read what it had to.
LEMMA MuovePosti ==
  ASSUME PostiTipi, Posti, NEW s \in Stmt, NEW r \in Ris, NEW chiude \in BOOLEAN,
         Distinti(r), r.resultSet = results[s].resultSet,
         Tenuti(results[s]) \subseteq Tenuti(r),
         Tenuti(r) \cap Altri(s) = {}, Muove(s, r, chiude)
  PROVE  PostiTipi' /\ Posti' /\ results'[s] = Dopo(r)
<1> DEFINE d == Dopo(r)
           chiuso == IF chiude THEN {r.resultSet} \ {0} ELSE {}
<1>1. /\ results' = [results EXCEPT ![s] = d] /\ presi' = presi
      /\ chiusi' = IF d.resultSet = r.resultSet THEN chiusi \cup chiuso
                                                ELSE chiusi \ {r.resultSet}
  BY DEF Muove, Dopo
<1>2. closed' \in [Stmt -> BOOLEAN] BY Zenon DEF Muove, PostiTipi
<1>3. chiuso \subseteq {r.resultSet} \ {0} OBVIOUS
<1> HIDE DEF chiuso
<1>4. /\ d \in Ris /\ Distinti(d)
      /\ d.resultSet = r.resultSet => Tenuti(d) = Tenuti(r)
      /\ d.resultSet # r.resultSet => Tenuti(d) = Tenuti(r) \ {r.resultSet}
  BY DopoPosti
<1> HIDE DEF d
<1>5. \A x \in Tenuti(d) : x \notin Altri(s) BY <1>4
<1>6. Tenuti(d) \cap presi' = {} BY <1>1, <1>5, AltriDi
<1>7. \A t \in Stmt \ {s} : Tenuti(d) \cap Tenuti(results[t]) = {}
                            /\ Tenuti(results[t]) \cap presi' = {}
  BY <1>1, <1>5, AltriDi DEF Posti
<1>8. r.resultSet # 0 => r.resultSet \in Tenuti(r) BY DEF Tenuti
<1>9. ASSUME NEW x \in chiusi'
      PROVE  \/ x \in presi' \/ x \in Tenuti(d)
             \/ \E t \in Stmt \ {s} : x \in Tenuti(results[t])
  <2>1. CASE x \in chiusi
    <3>1. x \in presi \/ x \in Tenuti(r) \/ \E t \in Stmt \ {s} : x \in Tenuti(results[t])
      BY <2>1 DEF Posti
    <3>2. x \in Tenuti(r) => x \in Tenuti(d) BY <1>1, <1>4, <1>9, <2>1
    <3> QED BY <1>1, <3>1, <3>2
  <2>2. CASE x \notin chiusi
    <3>1. d.resultSet = r.resultSet /\ x \in chiuso BY <1>1, <1>9, <2>2
    <3> QED BY <1>3, <1>4, <1>8, <3>1
  <2> QED BY <2>1, <2>2
<1>11. presi' \subseteq Rs BY <1>1 DEF PostiTipi
<1>12. PostiTipi' /\ Posti' BY <1>1, <1>2, <1>4, <1>6, <1>7, <1>9, <1>11, Cambia
<1>13. results'[s] = d BY <1>1 DEF PostiTipi
<1> QED BY <1>12, <1>13 DEF d

LEMMA getMoreResultsPosti ==
  ASSUME PostiTipi, StoriaTipi, Posti, NEW s \in Stmt, NEW chiude \in BOOLEAN,
         getMoreResultsNiente(s, chiude) \/ getMoreResultsLegge(s, chiude)
  PROVE  PostiTipi' /\ Posti'
<1> DEFINE r == results[s]
<1>1. r \in Ris /\ Distinti(r) BY DEF PostiTipi, Posti
<1>2. Tenuti(r) \cap Altri(s) = {} BY AltriDi DEF Posti
<1>3. CASE getMoreResultsNiente(s, chiude)
  BY <1>1, <1>2, <1>3, MuovePosti DEF getMoreResultsNiente
<1>4. CASE getMoreResultsLegge(s, chiude)
  <2> DEFINE o == Head(pendenti)
             id == Libero(Vivi(s))
             l == Letto(r, o, Len(pendenti) > 1, id)
  <2>1. /\ r.cmd # "assente" /\ pendenti # <<>> /\ o # "err"
        /\ o = "rs" => Rs \ Vivi(s) # {}
        /\ Muove(s, l, chiude)
    BY <1>4 DEF getMoreResultsLegge, Chiede
  <2>2. o \in {"rs", "upd"} BY <2>1, HeadTailProperties DEF StoriaTipi, Esiti
  <2>3. o = "rs" => id \in Rs /\ id \notin Tenuti(r) /\ id \notin Altri(s)
    BY <2>1, LiberoNuovo, AltriDi
  <2> HIDE DEF o, id, r
  <2>4. /\ l \in Ris /\ l.resultSet = r.resultSet /\ Distinti(l)
        /\ Tenuti(l) \subseteq Tenuti(r) \cup (IF o = "rs" THEN {id} ELSE {})
        /\ Tenuti(r) \subseteq Tenuti(l)
    <3>1. o = "rs" => id \in Rs \ Tenuti(r) BY <2>3
    <3>2. l \in Ris /\ l.resultSet = r.resultSet BY <1>1, <2>1, <2>2, <2>3, LettoRis
    <3> QED BY <1>1, <2>1, <2>2, <3>1, <3>2, LettoPosti
  <2> HIDE DEF l
  <2>5. Tenuti(l) \cap Altri(s) = {} BY <1>2, <2>3, <2>4
  <2>6. l.resultSet = results[s].resultSet /\ Tenuti(results[s]) \subseteq Tenuti(l)
    BY <2>4 DEF r
  <2> QED BY <2>1, <2>4, <2>5, <2>6, MuovePosti
<1> QED BY <1>3, <1>4

LEMMA getMoreResultsErrorePosti ==
  ASSUME PostiTipi, Posti, NEW s \in Stmt, getMoreResultsErrore(s)
  PROVE  PostiTipi' /\ Posti'
<1> DEFINE r == results[s]
           e == LettoErrore(r)
<1>1. /\ results' = [results EXCEPT ![s] = e] /\ r.cmd # "assente"
      /\ closed' = closed /\ chiusi' = chiusi /\ presi' = presi
  BY DEF getMoreResultsErrore, Chiede, rsVars
<1>2. r \in Ris /\ Distinti(r) BY DEF PostiTipi, Posti
<1>3. e \in Ris /\ e.executionResults = r.executionResults /\ e.resultSet = r.resultSet
  BY <1>1, <1>2, LettoErroreRis
<1> HIDE DEF e
<1>4. Distinti(e) /\ Tenuti(e) = Tenuti(r) BY <1>2, <1>3 DEF Distinti, Tenuti
<1>5. /\ Tenuti(e) \cap presi' = {}
      /\ \A t \in Stmt \ {s} : Tenuti(e) \cap Tenuti(results[t]) = {}
                               /\ Tenuti(results[t]) \cap presi' = {}
  BY <1>1, <1>4 DEF Posti
<1>6. \A x \in chiusi' : \/ x \in presi' \/ x \in Tenuti(e)
                         \/ \E t \in Stmt \ {s} : x \in Tenuti(results[t])
  BY <1>1, <1>4 DEF Posti
<1>7. presi' \subseteq Rs /\ closed' \in [Stmt -> BOOLEAN] BY <1>1 DEF PostiTipi
<1>8. PostiTipi' /\ Posti' BY <1>1, <1>3, <1>4, <1>5, <1>6, <1>7, Cambia
<1> QED BY <1>1, <1>8

\* The client's own calls: a result set it has is current in no statement.
LEMMA closeRsPosti ==
  ASSUME PostiTipi, Posti, NEW x \in Rs, closeRs(x)
  PROVE  PostiTipi' /\ Posti'
<1>1. /\ x \in presi /\ chiusi' = chiusi \cup {x}
      /\ UNCHANGED <<mustCloseOnCompletion, results, presi>>
      /\ closed' = [s \in Stmt |-> closed[s] \/ (mustCloseOnCompletion[s] /\ results[s].resultSet = x)]
  BY DEF closeRs
<1>2. ASSUME NEW s \in Stmt PROVE results[s].resultSet # x
  <2>1. x # 0 BY ZeroNonRs
  <2> QED BY <1>1, <2>1 DEF Posti, Tenuti
<1>3. closed' = closed
  <2>1. ASSUME NEW s \in Stmt PROVE closed'[s] = closed[s]
    <3>1. closed[s] \in BOOLEAN BY DEF PostiTipi
    <3>2. closed'[s] = (closed[s] \/ (mustCloseOnCompletion[s] /\ results[s].resultSet = x))
      BY <1>1, Zenon
    <3> QED BY <1>2, <3>1, <3>2, Zenon
  <2>2. closed' = [s \in Stmt |-> closed'[s]] BY <1>1, Zenon
  <2>3. closed = [s \in Stmt |-> closed[s]] BY Zenon DEF PostiTipi
  <2> QED BY <2>1, <2>2, <2>3, Zenon
<1>4. PostiTipi' BY <1>1, <1>3, Zenon DEF PostiTipi
<1>5. Posti' BY <1>1 DEF Posti, Distinti, Tenuti
<1> QED BY <1>1, <1>3, <1>4, <1>5

LEMMA FermoPosti ==
  ASSUME PostiTipi, Posti, results' = results, presi' \subseteq presi,
         chiusi' \subseteq chiusi, chiusi' \cap presi \subseteq presi', closed' \in [Stmt -> BOOLEAN]
  PROVE  PostiTipi' /\ Posti'
<1>1. PostiTipi' BY DEF PostiTipi
<1>2. ASSUME NEW x \in chiusi' PROVE x \in presi' \/ \E s \in Stmt : x \in Tenuti(results[s])
  BY DEF Posti
<1>3. Posti' BY <1>2 DEF Posti, Distinti, Tenuti
<1> QED BY <1>1, <1>3

LEMMA NextPosti ==
  ASSUME PostiTipi, StoriaTipi, Posti, [Next]_vars
  PROVE  PostiTipi' /\ Posti'
<1>1. CASE UNCHANGED vars
  <2>1. /\ results' = results /\ presi' = presi /\ chiusi' = chiusi /\ closed' = closed
    BY <1>1 DEF vars, stmtVars, rsVars
  <2> QED BY <2>1, FermoPosti DEF PostiTipi
<1>2. ASSUME NEW s \in Stmt, NEW q \in Risposte(s), execute(s, q) \/ executeQuery(s, q)
      PROVE  PostiTipi' /\ Posti'
  BY <1>2, RisposteSeq, executePosti, executeQueryPosti
<1>3. ASSUME NEW s \in Stmt, getMoreResultsNullo(s) \/ closeOnCompletion(s) \/ close(s)
      PROVE  PostiTipi' /\ Posti'
  <2>1. /\ results' = results /\ presi' = presi /\ chiusi' = chiusi
    BY <1>3 DEF getMoreResultsNullo, closeOnCompletion, close, stmtVars, rsVars
  <2>2. closed' = closed \/ closed' = [closed EXCEPT ![s] = TRUE]
    BY <1>3 DEF getMoreResultsNullo, closeOnCompletion, close, stmtVars
  <2>3. closed' \in [Stmt -> BOOLEAN]
    <3>1. [closed EXCEPT ![s] = TRUE] \in [Stmt -> BOOLEAN] BY Zenon DEF PostiTipi
    <3> QED BY <2>2, <3>1, Zenon DEF PostiTipi
  <2> QED BY <2>1, <2>3, FermoPosti
<1>4. ASSUME NEW x \in Rs, deleteRs(x) PROVE PostiTipi' /\ Posti'
  <2>1. /\ results' = results /\ presi' = presi \ {x} /\ chiusi' = chiusi \ {x}
        /\ closed' = closed
    BY <1>4 DEF deleteRs, stmtVars
  <2> QED BY <2>1, FermoPosti DEF PostiTipi
<1> QED BY <1>1, <1>2, <1>3, <1>4, getResultSetPosti, getMoreResultsPosti,
           getMoreResultsErrorePosti, closeRsPosti DEF Next

-----------------------------------------------------------------------------
(* The walk through the outcomes.                                           *)

LEMMA CodaSeq ==
  ASSUME NEW S, NEW q \in Seq(S), q # <<>>
  PROVE  /\ Len(q) \in Nat \ {0} /\ Head(q) = q[1] /\ Head(q) \in S
         /\ Tail(q) \in Seq(S) /\ Len(Tail(q)) = Len(q) - 1
         /\ \A i \in 1..(Len(q) - 1) : Tail(q)[i] = q[i + 1]
         /\ Tail(q) = <<>> <=> Len(q) = 1
<1>1. /\ Len(q) \in Nat \ {0} /\ Head(q) \in S
      /\ Tail(q) \in Seq(S) /\ Len(Tail(q)) = Len(q) - 1
  BY HeadTailProperties, EmptySeq, LenProperties
<1>2. Head(q) = q[1] /\ \A i \in 1..(Len(q) - 1) : Tail(q)[i] = q[i + 1] OBVIOUS
<1>3. Tail(q) = <<>> <=> Len(Tail(q)) = 0 BY <1>1, EmptySeq
<1> QED BY <1>1, <1>2, <1>3

LEMMA DiUno == ASSUME NEW S, NEW q \in Seq(S), Len(q) = 1 PROVE q = <<q[1]>>
<1>1. <<q[1]>> \in Seq(S) /\ Len(<<q[1]>>) = 1 /\ <<q[1]>>[1] = q[1] BY ElementOfSeq
<1> QED BY <1>1, SeqEqual

\* A failed walk, and one that is not known any more, has nothing left to tell.
LEMMA Fermato ==
  ASSUME StoriaTipi, Ultimo, NEW s \in Stmt, Attuale(s) \in {"err", "perso"}
  PROVE  attesa[s] \in {<<>>, <<"err">>, <<"perso">>}
<1> DEFINE a == attesa[s]
<1>1. a \in Seq(Esiti \cup {"perso"}) BY DEF StoriaTipi
<1>2. a # <<>> /\ Head(a) \in {"err", "perso"} BY DEF Attuale
<1>3. /\ \A i \in 1..Len(a) : a[i] \in {"err", "perso"} => i = Len(a) BY DEF Ultimo
<1> HIDE DEF a
<1>4. Len(a) \in Nat \ {0} /\ Head(a) = a[1] BY <1>1, <1>2, CodaSeq
<1>5. Len(a) = 1 BY <1>2, <1>3, <1>4
<1>6. a = <<a[1]>> BY <1>1, <1>5, DiUno
<1> QED BY <1>2, <1>4, <1>6 DEF a

LEMMA NonFermato ==
  ASSUME NEW s \in Stmt, Attuale(s) \notin {"err", "perso"}, attesa[s] # <<>>
  PROVE  attesa[s] \notin {<<>>, <<"err">>, <<"perso">>}
<1>1. Head(attesa[s]) \notin {"err", "perso"} BY DEF Attuale
<1>2. Head(<<"err">>) = "err" /\ Head(<<"perso">>) = "perso" OBVIOUS
<1> QED BY <1>1, <1>2

\* The histories, and what is left on the connection.
LEMMA UltimoDopo ==
  ASSUME StoriaTipi, Ultimo, NEW s \in Stmt,
         \A t \in Stmt \ {s} : attesa'[t] \in {attesa[t], <<"perso">>},
         NEW q \in Seq(Esiti \cup {"perso"}), attesa'[s] = q,
         \A i \in 1..Len(q) : q[i] \in {"err", "perso"} => i = Len(q)
  PROVE  Ultimo'
<1>1. ASSUME NEW t \in Stmt, NEW i \in 1..Len(attesa'[t]), attesa'[t][i] \in {"err", "perso"}
      PROVE  i = Len(attesa'[t])
  <2>1. CASE t = s BY <1>1, <2>1
  <2>2. CASE t # s /\ attesa'[t] = attesa[t] BY <1>1, <2>2 DEF Ultimo
  <2>3. CASE t # s /\ attesa'[t] = <<"perso">>
    <3>1. Len(attesa'[t]) = 1 BY <2>3
    <3> QED BY <1>1, <3>1
  <2> QED BY <2>1, <2>2, <2>3
<1> QED BY <1>1 DEF Ultimo

LEMMA RestanoTipi ==
  ASSUME NEW s \in Stmt, NEW q \in Seq(Esiti), Restano(q, s)
  PROVE  /\ pendenti' \in Seq(Esiti) /\ pendenti' # <<>> => titolare' \in Stmt
         /\ pendenti' = q /\ (pendenti' = <<>> \/ titolare' = s)
BY DEF Restano

LEMMA EsitiVoci == Seq(Esiti) \subseteq Seq(Esiti \cup {"perso"})
BY SeqMonotonic

LEMMA EsecuzioneStoria ==
  ASSUME StoriaTipi, Ultimo, NEW s \in Stmt, NEW q \in Risposte(s),
         execute(s, q) \/ executeQuery(s, q)
  PROVE  StoriaTipi' /\ Ultimo'
<1>1. /\ q \in Seq(Esiti) /\ q # <<>> /\ Len(q) \in Nat \ {0}
      /\ \A i \in 1..(Len(q) - 1) : q[i] # "err"
      /\ q \in Seq(Esiti \cup {"perso"}) /\ Tail(q) \in Seq(Esiti)
  BY RisposteSeq, EsitiVoci, CodaSeq
<1>2. CASE attesa' = [attesa EXCEPT ![s] = <<"err">>] /\ UNCHANGED connVars
  <2>1. <<"err">> \in Seq(Esiti \cup {"perso"}) /\ Len(<<"err">>) = 1 BY DEF Esiti
  <2>2. StoriaTipi' BY <1>2, <2>1 DEF StoriaTipi, connVars
  <2>3. /\ \A t \in Stmt \ {s} : attesa'[t] \in {attesa[t], <<"perso">>}
        /\ attesa'[s] = <<"err">>
    BY <1>2 DEF StoriaTipi
  <2>4. \A i \in 1..Len(<<"err">>) : i = Len(<<"err">>) BY <2>1
  <2>5. Ultimo' BY <2>1, <2>3, <2>4, UltimoDopo
  <2> QED BY <2>2, <2>5
<1>3. CASE attesa' = [attesa EXCEPT ![s] = q] /\ Restano(Tail(q), s)
  <2>1. StoriaTipi' BY <1>1, <1>3, RestanoTipi DEF StoriaTipi
  <2>2. /\ \A t \in Stmt \ {s} : attesa'[t] \in {attesa[t], <<"perso">>}
        /\ attesa'[s] = q
    BY <1>3 DEF StoriaTipi
  <2>3. ASSUME NEW i \in 1..Len(q), q[i] \in {"err", "perso"} PROVE i = Len(q)
    <3>1. q[i] # "perso" BY <1>1, ElementOfSeq DEF Esiti
    <3> QED BY <1>1, <2>3, <3>1
  <2>4. Ultimo' BY <1>1, <2>2, <2>3, UltimoDopo
  <2> QED BY <2>1, <2>4
<1> QED BY <1>2, <1>3 DEF execute, executeQuery

LEMMA OltreStoria ==
  ASSUME StoriaTipi, Ultimo, NEW s \in Stmt, Oltre(s)
  PROVE  /\ attesa' \in [Stmt -> Seq(Esiti \cup {"perso"})] /\ Ultimo'
         /\ pendenti # <<>> /\ titolare # s =>
              /\ attesa'[s] = <<"perso">> /\ attesa'[titolare] = <<"perso">>
              /\ \A t \in Stmt \ {s, titolare} : attesa'[t] = attesa[t]
         /\ pendenti = <<>> \/ titolare = s =>
              /\ attesa[s] \in {<<>>, <<"err">>, <<"perso">>} => attesa'[s] = attesa[s]
              /\ attesa[s] \notin {<<>>, <<"err">>, <<"perso">>} => attesa'[s] = Tail(attesa[s])
              /\ \A t \in Stmt \ {s} : attesa'[t] = attesa[t]
<1>1. attesa \in [Stmt -> Seq(Esiti \cup {"perso"})] BY DEF StoriaTipi
<1>2. <<"perso">> \in Seq(Esiti \cup {"perso"}) /\ Len(<<"perso">>) = 1 OBVIOUS
<1>3. CASE pendenti # <<>> /\ titolare # s
  <2>1. attesa' = [attesa EXCEPT ![s] = <<"perso">>, ![titolare] = <<"perso">>]
    BY <1>3, Zenon DEF Oltre
  <2>2. titolare \in Stmt BY <1>3 DEF StoriaTipi
  <2>3. /\ attesa' \in [Stmt -> Seq(Esiti \cup {"perso"})]
        /\ attesa'[s] = <<"perso">> /\ attesa'[titolare] = <<"perso">>
        /\ \A t \in Stmt \ {s, titolare} : attesa'[t] = attesa[t]
    BY <1>1, <1>2, <1>3, <2>1, <2>2
  <2>4. \A t \in Stmt \ {s} : attesa'[t] \in {attesa[t], <<"perso">>} BY <2>3
  <2>5. \A i \in 1..Len(<<"perso">>) : i = Len(<<"perso">>) BY <1>2
  <2>6. Ultimo' BY <1>2, <2>3, <2>4, <2>5, UltimoDopo
  <2> QED BY <1>3, <2>3, <2>6
<1>4. CASE (pendenti = <<>> \/ titolare = s) /\ attesa[s] \in {<<>>, <<"err">>, <<"perso">>}
  <2>1. attesa' = attesa BY <1>4, Zenon DEF Oltre
  <2> QED BY <1>1, <1>4, <2>1 DEF Ultimo
<1>5. CASE (pendenti = <<>> \/ titolare = s) /\ attesa[s] \notin {<<>>, <<"err">>, <<"perso">>}
  <2> DEFINE a == attesa[s]
  <2>1. attesa' = [attesa EXCEPT ![s] = Tail(a)] BY <1>5, Zenon DEF Oltre
  <2>2. a \in Seq(Esiti \cup {"perso"}) /\ a # <<>> BY <1>1, <1>5
  <2>3. \A i \in 1..Len(a) : a[i] \in {"err", "perso"} => i = Len(a) BY DEF Ultimo
  <2> HIDE DEF a
  <2>4. /\ Tail(a) \in Seq(Esiti \cup {"perso"}) /\ Len(Tail(a)) = Len(a) - 1
        /\ Len(a) \in Nat \ {0} /\ \A i \in 1..(Len(a) - 1) : Tail(a)[i] = a[i + 1]
    BY <2>2, CodaSeq
  <2>5. /\ attesa' \in [Stmt -> Seq(Esiti \cup {"perso"})]
        /\ attesa'[s] = Tail(a)
        /\ \A t \in Stmt \ {s} : attesa'[t] = attesa[t]
    BY <1>1, <2>1, <2>4
  <2>6. ASSUME NEW i \in 1..Len(Tail(a)), Tail(a)[i] \in {"err", "perso"}
        PROVE  i = Len(Tail(a))
    <3>1. i + 1 \in 1..Len(a) /\ Tail(a)[i] = a[i + 1] BY <2>4
    <3>2. i + 1 = Len(a) BY <2>3, <2>6, <3>1
    <3>3. i \in Int /\ Len(a) \in Int BY <2>4
    <3>4. i = Len(a) - 1 BY <3>2, <3>3
    <3> QED BY <2>4, <3>4, Zenon
  <2>7. Ultimo' BY <2>4, <2>5, <2>6, UltimoDopo
  <2> QED BY <1>5, <2>5, <2>7 DEF a
<1> QED BY <1>3, <1>4, <1>5

\* RispostaFedele, of one statement.
RispostaDi(s) ==
  attesa'[s] # attesa[s] /\ presi' = presi /\ Regolare(s)' =>
    (results'[s].resultSet # 0 <=> Attuale(s)' = "rs")

\* A statement that asks for nothing stays where it is, whoever reads.
LEMMA Estraneo ==
  ASSUME NEW s \in Stmt, Cammino(s), results'[s] = results[s], attesa'[s] = attesa[s],
         \/ UNCHANGED <<pendenti, titolare>>
         \/ (pendenti = <<>> \/ titolare # s) /\ (pendenti' = <<>> \/ titolare' # s)
  PROVE  Cammino(s)' /\ RispostaDi(s)
<1>1. Regolare(s)' <=> Regolare(s) BY DEF Regolare, Attuale
<1>2. Attuale(s)' = Attuale(s) BY DEF Attuale
<1>3. Regolare(s) => Passo(s)' BY <1>2 DEF Cammino, Passo
<1> QED BY <1>1, <1>2, <1>3 DEF Cammino, RispostaDi

\* A walk that has failed, or that is not known any more, is not regular.
LEMMA Interrotto ==
  ASSUME NEW s \in Stmt, attesa'[s] \in {<<"err">>, <<"perso">>}
  PROVE  Cammino(s)' /\ RispostaDi(s)
<1>1. /\ Head(<<"err">>) = "err" /\ Head(<<"perso">>) = "perso"
      /\ <<"err">> # <<>> /\ <<"perso">> # <<>>
  OBVIOUS
<1>2. Attuale(s)' \in {"err", "perso"} BY <1>1 DEF Attuale
<1> QED BY <1>2 DEF Cammino, Regolare, RispostaDi

\* A query starts a walk.
LEMMA Comincia ==
  ASSUME NEW s \in Stmt, NEW q \in Seq(Esiti), q # <<>>, q[1] # "err", NEW id,
         q[1] = "rs" => id \in Rs, NEW n \in {0, Primo(q, id).resultSet},
         results'[s] = [Primo(q, id) EXCEPT !.resultSet = n],
         attesa'[s] = q, pendenti' = Tail(q), pendenti' = <<>> \/ titolare' = s,
         n = 0 /\ q[1] = "rs" => presi' # presi
  PROVE  Cammino(s)' /\ RispostaDi(s)
<1> DEFINE p == Primo(q, id)
           r == results'[s]
<1>1. /\ p \in Ris /\ p.executionResults = <<>> /\ p.cmd \in {"single", "multiple"}
      /\ p.cmd = "single" => Len(q) = 1
      /\ p.counts = <<q[1]>> /\ p.moreResultsIdx = 0
      /\ q[1] = "rs" => p.resultSet = id
      /\ q[1] # "rs" => p.resultSet = 0
  BY PrimoRis
<1> HIDE DEF p
<1>2. /\ r.executionResults = <<>> /\ r.cmd = p.cmd
      /\ r.counts = <<q[1]>> /\ r.moreResultsIdx = 0 /\ r.resultSet = n
  BY <1>1 DEF Ris, p
<1>3. /\ Head(q) = q[1] /\ (Tail(q) = <<>> <=> Len(q) = 1) BY CodaSeq
<1>4. Attuale(s)' = q[1] BY <1>3 DEF Attuale
<1>5. /\ Len(<<q[1]>>) = 0 + 1 /\ <<q[1]>>[0 + 1] = q[1] OBVIOUS
<1>6. Tail(q) = IF titolare' = s THEN pendenti' ELSE <<>>
  BY Zenon
<1>7. r.resultSet # 0 => q[1] = "rs" BY <1>1, <1>2 DEF p
<1>8. q[1] = "rs" /\ presi' = presi => r.resultSet # 0 BY <1>1, <1>2, ZeroNonRs DEF p
<1>9. Passo(s)' 
  <2>1. r.cmd = "single" => r.counts = <<q[1]>> /\ Tail(q) = <<>> BY <1>1, <1>2, <1>3
  <2>2. r.cmd = "multiple" => Len(r.counts) = r.moreResultsIdx + 1 /\ r.counts[r.moreResultsIdx + 1] = q[1]
    BY <1>2, <1>5
  <2> QED BY <1>2, <1>4, <1>6, <1>7, <2>1, <2>2, Zenon DEF Passo
<1> QED BY <1>1, <1>2, <1>4, <1>7, <1>8, <1>9, Zenon DEF Cammino, RispostaDi

LEMMA executeCammino ==
  ASSUME RisInv, NEW s \in Stmt, NEW q \in Risposte(s), execute(s, q)
  PROVE  \A t \in Stmt : Cammino(t)' /\ RispostaDi(t)
<1>1. q \in Seq(Esiti) /\ q # <<>> /\ Tail(q) \in Seq(Esiti) BY RisposteSeq, CodaSeq
<1>2. CASE pendenti # <<>> \/ q[1] = "err"
  <2>1. /\ results' = [results EXCEPT ![s] = Nuovi]
        /\ attesa' = [attesa EXCEPT ![s] = <<"err">>]
        /\ UNCHANGED <<pendenti, titolare>>
    BY <1>2, Zenon DEF execute, connVars
  <2>2. attesa'[s] = <<"err">> BY <2>1 DEF RisInv, StoriaTipi
  <2>3. \A t \in Stmt \ {s} : results'[t] = results[t] /\ attesa'[t] = attesa[t]
    BY <2>1 DEF RisInv, StoriaTipi, PostiTipi
  <2> QED BY <2>1, <2>2, <2>3, Estraneo, Interrotto DEF RisInv
<1>3. CASE ~(pendenti # <<>> \/ q[1] = "err")
  <2> DEFINE id == Libero(Altri(s))
             p == Primo(q, id)
  <2>1. /\ results' = [results EXCEPT ![s] = p] /\ q[1] # "err"
        /\ q[1] = "rs" => Rs \ Altri(s) # {}
        /\ Restano(Tail(q), s) /\ attesa' = [attesa EXCEPT ![s] = q]
        /\ pendenti = <<>>
    BY <1>3, SMT DEF execute, Primo
  <2>2. q[1] = "rs" => id \in Rs BY <2>1, LiberoNuovo
  <2> HIDE DEF id
  <2>3. p \in Ris /\ (q[1] = "rs" => p.resultSet = id) BY <1>1, <2>1, <2>2, PrimoRis
  <2>4. pendenti' = Tail(q) /\ (pendenti' = <<>> \/ titolare' = s) BY <1>1, <2>1, RestanoTipi
  <2>5. /\ results'[s] = p /\ attesa'[s] = q
        /\ \A t \in Stmt \ {s} : results'[t] = results[t] /\ attesa'[t] = attesa[t]
    BY <2>1 DEF RisInv, StoriaTipi, PostiTipi
  <2> HIDE DEF p
  <2>6. p = [p EXCEPT !.resultSet = p.resultSet] BY <2>3 DEF Ris
  <2>7. q[1] = "rs" => p.resultSet # 0 BY <2>2, <2>3, ZeroNonRs
  <2>8. Cammino(s)' /\ RispostaDi(s)
    BY <1>1, <2>1, <2>2, <2>4, <2>5, <2>6, <2>7, Comincia DEF p
  <2>9. \A t \in Stmt \ {s} : Cammino(t)' /\ RispostaDi(t)
    BY <2>1, <2>4, <2>5, Estraneo DEF RisInv
  <2> QED BY <2>8, <2>9
<1> QED BY <1>2, <1>3

LEMMA executeQueryCammino ==
  ASSUME RisInv, NEW s \in Stmt, NEW q \in Risposte(s), executeQuery(s, q)
  PROVE  \A t \in Stmt : Cammino(t)' /\ RispostaDi(t)
<1> DEFINE id == Libero(Altri(s))
           p == Primo(q, id)
<1>1. q \in Seq(Esiti) /\ q # <<>> /\ Tail(q) \in Seq(Esiti) BY RisposteSeq, CodaSeq
<1>2. /\ results' = [results EXCEPT ![s] = [p EXCEPT !.resultSet = 0]]
      /\ presi' = presi \cup {id} /\ q[1] # "err" /\ Rs \ Altri(s) # {}
      /\ Restano(Tail(q), s) /\ attesa' = [attesa EXCEPT ![s] = q]
      /\ pendenti = <<>>
  BY DEF executeQuery, Primo
<1>3. id \in Rs /\ id \notin presi BY <1>2, LiberoNuovo, AltriDi
<1> HIDE DEF id
<1>4. pendenti' = Tail(q) /\ (pendenti' = <<>> \/ titolare' = s) BY <1>1, <1>2, RestanoTipi
<1>5. /\ results'[s] = [p EXCEPT !.resultSet = 0] /\ attesa'[s] = q
      /\ \A t \in Stmt \ {s} : results'[t] = results[t] /\ attesa'[t] = attesa[t]
  BY <1>2 DEF RisInv, StoriaTipi, PostiTipi
<1>6. presi' # presi BY <1>2, <1>3
<1>7. Cammino(s)' /\ RispostaDi(s) BY <1>1, <1>2, <1>3, <1>4, <1>5, <1>6, Comincia
<1>8. \A t \in Stmt \ {s} : Cammino(t)' /\ RispostaDi(t)
  BY <1>2, <1>4, <1>5, Estraneo DEF RisInv
<1> QED BY <1>7, <1>8

\* The answer and the result set of getMoreResults, of a regular walk.
LEMMA DopoCammino ==
  ASSUME NEW r \in Ris, r.executionResults = <<>>,
         r.cmd = "multiple" => r.moreResultsIdx + 1 >= Len(r.counts)
  PROVE  /\ Dopo(r).resultSet = 0 /\ Dopo(r).executionResults = <<>> /\ Dopo(r).cmd = r.cmd
         /\ r.cmd = "multiple" =>
              Dopo(r).counts = r.counts /\ Dopo(r).moreResultsIdx = r.moreResultsIdx + 1
         /\ r.cmd = "single" => Dopo(r).counts = <<"rs">>
<1>1. ~AncoraRs(r)
  <2>1. Len(r.counts) \in Nat /\ r.moreResultsIdx \in Nat BY DEF Ris
  <2> QED BY <2>1 DEF AncoraRs
<1> DEFINE a == Avanzato(r)
<1>2. Dopo(r) = [a EXCEPT !.resultSet = 0] BY <1>1 DEF Dopo
<1>3. /\ a \in Ris /\ a.cmd = r.cmd /\ a.executionResults = <<>>
      /\ r.cmd = "multiple" =>
           a.counts = r.counts /\ a.moreResultsIdx = r.moreResultsIdx + 1
      /\ r.cmd # "multiple" => a.counts = <<"rs">>
  BY AvanzatoRis
<1> HIDE DEF a
<1> QED BY <1>2, <1>3 DEF Ris

LEMMA DopoLetto ==
  ASSUME NEW r \in Ris, r.executionResults = <<>>, r.cmd = "multiple",
         Len(r.counts) = r.moreResultsIdx + 1, NEW o \in {"rs", "upd"}, NEW altri,
         NEW id, o = "rs" => id \in Rs, NEW d, d = Dopo(Letto(r, o, altri, id))
  PROVE  /\ d.cmd = "multiple" /\ d.executionResults = <<>>
         /\ d.resultSet # 0 <=> o = "rs"
         /\ Len(d.counts) = d.moreResultsIdx + 1 /\ d.counts[d.moreResultsIdx + 1] = o
<1> DEFINE l == Letto(r, o, altri, id)
           a == Avanzato(l)
<1>1. r.counts \in Seq(Esiti) /\ Len(r.counts) \in Nat /\ r.moreResultsIdx \in Nat BY DEF Ris
<1>2. /\ l \in Ris /\ l.cmd = "multiple" /\ l.counts = Append(r.counts, o)
      /\ l.moreResultsIdx = r.moreResultsIdx
      /\ o = "rs" => l.executionResults = Append(<<>>, id)
      /\ o # "rs" => l.executionResults = <<>>
  <2>1. r.cmd # "assente" OBVIOUS
  <2>2. l.counts = Append(r.counts, o) /\ l.cmd = "multiple"
    <3>1. ConConto(r, o, altri) = [r EXCEPT !.counts = Append(r.counts, o)]
      BY Zenon DEF ConConto
    <3>2. /\ [r EXCEPT !.counts = Append(r.counts, o)].counts = Append(r.counts, o)
          /\ [r EXCEPT !.counts = Append(r.counts, o)].cmd = "multiple"
      BY DEF Ris
    <3>3. l.counts = ConConto(r, o, altri).counts /\ l.cmd = ConConto(r, o, altri).cmd
      BY <2>1, LettoRis
    <3> QED BY <3>1, <3>2, <3>3, Zenon
  <2>3. /\ l \in Ris /\ l.moreResultsIdx = r.moreResultsIdx
        /\ o = "rs" => l.executionResults = Append(<<>>, id)
        /\ o # "rs" => l.executionResults = <<>>
    BY <2>1, LettoRis
  <2> QED BY <2>2, <2>3
<1>d. d = Dopo(l) OBVIOUS
<1> HIDE DEF l
<1>3. Len(l.counts) = r.moreResultsIdx + 2 /\ l.counts[r.moreResultsIdx + 2] = o
  <2>1. /\ Len(Append(r.counts, o)) = Len(r.counts) + 1
        /\ Append(r.counts, o)[Len(r.counts) + 1] = o
    BY <1>1, AppendProperties DEF Esiti
  <2>2. Len(r.counts) + 1 = r.moreResultsIdx + 2 BY <1>1
  <2> QED BY <1>2, <2>1, <2>2
<1>4. AncoraRs(l) <=> o = "rs"
  <2>1. r.moreResultsIdx + 1 < r.moreResultsIdx + 2 BY <1>1
  <2> QED BY <1>2, <1>3, <2>1 DEF AncoraRs
<1>5. /\ a \in Ris /\ a.cmd = "multiple" /\ a.executionResults = l.executionResults
      /\ a.counts = l.counts /\ a.moreResultsIdx = r.moreResultsIdx + 1
  BY <1>2, AvanzatoRis
<1> HIDE DEF a
<1>6. (r.moreResultsIdx + 1) + 1 = r.moreResultsIdx + 2 BY <1>1
<1>7. CASE o = "rs"
  <2>1. d = Prossimo(a) BY <1>4, <1>7, <1>d DEF Dopo, a
  <2>2. /\ Append(<<>>, id) # <<>> /\ Head(Append(<<>>, id)) = id
        /\ Tail(Append(<<>>, id)) = <<>>
    OBVIOUS
  <2>3. a.executionResults = Append(<<>>, id) BY <1>2, <1>5, <1>7
  <2>4. /\ d.cmd = a.cmd /\ d.counts = a.counts /\ d.moreResultsIdx = a.moreResultsIdx
        /\ d.resultSet = id /\ d.executionResults = <<>>
    BY <1>5, <2>1, <2>2, <2>3, ProssimoRis
  <2>5. id # 0 BY <1>7, ZeroNonRs
  <2>6. d.counts = l.counts /\ d.moreResultsIdx = r.moreResultsIdx + 1 /\ d.cmd = "multiple"
    BY <1>5, <2>4
  <2> QED BY <1>3, <1>6, <1>7, <2>4, <2>5, <2>6, Zenon
<1>8. CASE o # "rs"
  <2>1. d = [a EXCEPT !.resultSet = 0] BY <1>4, <1>8, <1>d DEF Dopo, a
  <2>2. /\ d.cmd = "multiple" /\ d.counts = l.counts /\ d.resultSet = 0
        /\ d.moreResultsIdx = r.moreResultsIdx + 1 /\ d.executionResults = <<>>
    BY <1>2, <1>5, <1>8, <2>1 DEF Ris
  <2> QED BY <1>3, <1>6, <1>8, <2>2, Zenon
<1> QED BY <1>7, <1>8

LEMMA MuoveRis ==
  ASSUME results \in [Stmt -> Ris], NEW s \in Stmt, NEW r, NEW chiude, Muove(s, r, chiude)
  PROVE  results'[s] = Dopo(r) /\ \A t \in Stmt \ {s} : results'[t] = results[t]
<1>1. results' = [results EXCEPT ![s] = Dopo(r)] BY DEF Muove, Dopo
<1> QED BY <1>1

\* Whoever reads loses only the walk of the statement whose outcomes they were.
LEMMA AltriOltre ==
  ASSUME RisInv, NEW s \in Stmt, Oltre(s),
         \A t \in Stmt \ {s} : results'[t] = results[t],
         \/ UNCHANGED <<pendenti, titolare>>
         \/ pendenti # <<>> /\ (pendenti' = <<>> \/ titolare' \in {titolare, s})
  PROVE  \A t \in Stmt \ {s} : Cammino(t)' /\ RispostaDi(t)
<1> SUFFICES ASSUME NEW t \in Stmt \ {s} PROVE Cammino(t)' /\ RispostaDi(t) OBVIOUS
<1>1. CASE pendenti # <<>> /\ titolare # s /\ titolare = t
  <2>1. attesa'[t] = <<"perso">> BY <1>1, OltreStoria DEF RisInv
  <2> QED BY <2>1, Interrotto
<1>2. CASE ~(pendenti # <<>> /\ titolare # s /\ titolare = t)
  <2>1. attesa'[t] = attesa[t] BY <1>2, OltreStoria DEF RisInv
  <2>2. CASE UNCHANGED <<pendenti, titolare>> BY <2>1, <2>2, Estraneo DEF RisInv
  <2>3. CASE pendenti # <<>> /\ (pendenti' = <<>> \/ titolare' \in {titolare, s})
    <3>1. titolare # t BY <1>2, <2>3
    <3>2. pendenti' = <<>> \/ titolare' # t BY <2>3, <3>1
    <3> QED BY <2>1, <3>1, <3>2, Estraneo DEF RisInv
  <2> QED BY <2>2, <2>3
<1> QED BY <1>1, <1>2

\* A statement that had failed, or was lost, stays so.
LEMMA RestaFermo ==
  ASSUME RisInv, NEW s \in Stmt, Oltre(s), results[s].cmd # "assente",
         ~Regolare(s) \/ (pendenti # <<>> /\ titolare # s)
  PROVE  Cammino(s)' /\ RispostaDi(s)
<1>1. CASE pendenti # <<>> /\ titolare # s
  <2>1. attesa'[s] = <<"perso">> BY <1>1, OltreStoria DEF RisInv
  <2> QED BY <2>1, Interrotto
<1>2. CASE ~(pendenti # <<>> /\ titolare # s)
  <2>1. Attuale(s) \in {"err", "perso"} BY <1>2 DEF RisInv, Cammino, Regolare
  <2>2. attesa[s] # <<>> BY <2>1 DEF Attuale
  <2>3. attesa[s] \in {<<>>, <<"err">>, <<"perso">>} BY <2>1, Fermato DEF RisInv
  <2>4. attesa'[s] = attesa[s] BY <1>2, <2>3, OltreStoria DEF RisInv
  <2> QED BY <2>2, <2>3, <2>4, Interrotto
<1> QED BY <1>1, <1>2

LEMMA getMoreResultsNienteCammino ==
  ASSUME RisInv, NEW s \in Stmt, NEW chiude, getMoreResultsNiente(s, chiude)
  PROVE  \A t \in Stmt : Cammino(t)' /\ RispostaDi(t)
<1> DEFINE r == results[s]
           d == Dopo(r)
<1>1. /\ r.cmd # "assente" /\ r.cmd # "nessuna" /\ pendenti = <<>>
      /\ Muove(s, r, chiude) /\ Oltre(s) /\ UNCHANGED <<pendenti, titolare>>
  BY DEF getMoreResultsNiente, Chiede, connVars
<1>2. r \in Ris BY DEF RisInv, PostiTipi
<1>3. results'[s] = d /\ \A t \in Stmt \ {s} : results'[t] = results[t]
  BY <1>1, MuoveRis DEF RisInv, PostiTipi
<1>4. \A t \in Stmt \ {s} : Cammino(t)' /\ RispostaDi(t) BY <1>1, <1>3, AltriOltre
<1>5. CASE ~Regolare(s) BY <1>1, <1>4, <1>5, RestaFermo
<1>6. CASE Regolare(s)
  <2>1. Passo(s) BY <1>6 DEF RisInv, Cammino
  <2>2. attesa'[s] = <<>>
    <3>1. CASE attesa[s] = <<>>
      BY <1>1, <3>1, OltreStoria DEF RisInv
    <3>2. CASE attesa[s] # <<>>
      <4>1. Tail(attesa[s]) = <<>> BY <1>1, <2>1, <3>2 DEF Passo
      <4>2. attesa[s] \notin {<<>>, <<"err">>, <<"perso">>}
        BY <1>6, <3>2, NonFermato DEF Regolare
      <4> QED BY <1>1, <4>1, <4>2, OltreStoria DEF RisInv
    <3> QED BY <3>1, <3>2
  <2>3. Attuale(s)' = "fine" BY <2>2 DEF Attuale
  <2>4. r.executionResults = <<>> BY <2>1 DEF Passo
  <2>5. r.moreResultsIdx \in Nat /\ Len(r.counts) \in Nat BY <1>2 DEF Ris
  <2>6. r.cmd = "multiple" => r.moreResultsIdx + 1 >= Len(r.counts)
    <3>1. CASE attesa[s] = <<>>
      <4>1. r.cmd = "multiple" => r.moreResultsIdx >= Len(r.counts) BY <2>1, <3>1 DEF Passo
      <4> QED BY <2>5, <4>1
    <3>2. CASE attesa[s] # <<>>
      <4>1. r.cmd = "multiple" => Len(r.counts) = r.moreResultsIdx + 1 BY <2>1, <3>2 DEF Passo
      <4> QED BY <2>5, <4>1
    <3> QED BY <3>1, <3>2
  <2> HIDE DEF r
  <2>7. /\ d.resultSet = 0 /\ d.executionResults = <<>> /\ d.cmd = r.cmd
        /\ r.cmd = "multiple" => d.counts = r.counts /\ d.moreResultsIdx = r.moreResultsIdx + 1
        /\ r.cmd = "single" => d.counts = <<"rs">>
    BY <1>2, <2>4, <2>6, DopoCammino
  <2> HIDE DEF d
  <2>8. r.cmd = "multiple" => d.moreResultsIdx >= Len(d.counts) BY <2>6, <2>7
  <2>9. Passo(s)' BY <1>1, <1>3, <2>2, <2>7, <2>8, Zenon DEF Passo
  <2>10. r.cmd # "nessuna" BY <1>1
  <2>11. Cammino(s)' /\ RispostaDi(s)
    <3>1. Cammino(s)' BY <1>3, <2>7, <2>9, <2>10 DEF Cammino
    <3>2. "fine" # "rs" OBVIOUS
    <3> QED BY <1>3, <2>3, <2>7, <3>1, <3>2 DEF RispostaDi
  <2> QED BY <1>4, <2>11
<1> QED BY <1>5, <1>6

LEMMA getMoreResultsLeggeCammino ==
  ASSUME RisInv, NEW s \in Stmt, NEW chiude, getMoreResultsLegge(s, chiude)
  PROVE  \A t \in Stmt : Cammino(t)' /\ RispostaDi(t)
<1> DEFINE r == results[s]
           o == Head(pendenti)
           id == Libero(Vivi(s))
           l == Letto(r, o, Len(pendenti) > 1, id)
           d == Dopo(l)
<1>1. /\ r.cmd # "assente" /\ pendenti # <<>> /\ o # "err"
      /\ o = "rs" => Rs \ Vivi(s) # {}
      /\ Muove(s, l, chiude) /\ Oltre(s) /\ Restano(Tail(pendenti), titolare)
  BY DEF getMoreResultsLegge, Chiede
<1>2. r \in Ris BY DEF RisInv, PostiTipi
<1>3. results'[s] = d /\ \A t \in Stmt \ {s} : results'[t] = results[t]
  BY <1>1, MuoveRis DEF RisInv, PostiTipi
<1>4. /\ pendenti \in Seq(Esiti) /\ o \in Esiti /\ Len(pendenti) \in Nat
      /\ Tail(pendenti) \in Seq(Esiti) /\ titolare \in Stmt
  BY <1>1, CodaSeq DEF RisInv, StoriaTipi
<1>5. pendenti' = Tail(pendenti) /\ (pendenti' = <<>> \/ titolare' = titolare)
  BY <1>1, <1>4, RestanoTipi
<1>6. \A t \in Stmt \ {s} : Cammino(t)' /\ RispostaDi(t) BY <1>1, <1>3, <1>5, AltriOltre
<1>7. CASE ~Regolare(s) \/ titolare # s
  <2>1. Cammino(s)' /\ RispostaDi(s) BY <1>1, <1>7, RestaFermo
  <2> QED BY <1>6, <2>1
<1>8. CASE Regolare(s) /\ titolare = s
  <2>1. Passo(s) BY <1>8 DEF RisInv, Cammino
  <2>2. attesa[s] # <<>> /\ Tail(attesa[s]) = pendenti BY <1>1, <1>8, <2>1 DEF Passo
  <2>3. attesa'[s] = pendenti
    <3>1. attesa[s] \notin {<<>>, <<"err">>, <<"perso">>}
      BY <1>8, <2>2, NonFermato DEF Regolare
    <3> QED BY <1>1, <1>8, <2>2, <3>1, OltreStoria DEF RisInv
  <2>4. Attuale(s)' = o BY <1>1, <2>3 DEF Attuale
  <2>5. r.cmd = "multiple"
    <3>1. r.cmd \in {"single", "multiple"} BY <1>2, <1>8 DEF Regolare, Ris
    <3>2. r.cmd = "single" => Tail(attesa[s]) = <<>> BY <2>1, <2>2 DEF Passo
    <3> QED BY <1>1, <2>2, <3>1, <3>2
  <2>6. r.executionResults = <<>> /\ Len(r.counts) = r.moreResultsIdx + 1
    BY <2>1, <2>2, <2>5 DEF Passo
  <2>7. o \in {"rs", "upd"} BY <1>1, <1>4 DEF Esiti
  <2>8. o = "rs" => id \in Rs BY <1>1, LiberoNuovo
  <2>9. Tail(pendenti) = IF titolare' = s THEN pendenti' ELSE <<>>
    BY <1>5, <1>8, Zenon
  <2> HIDE DEF r, o, id
  <2>d. d = Dopo(Letto(r, o, Len(pendenti) > 1, id)) OBVIOUS
  <2> HIDE DEF d
  <2>10. /\ d.cmd = "multiple" /\ d.executionResults = <<>>
         /\ d.resultSet # 0 <=> o = "rs"
         /\ Len(d.counts) = d.moreResultsIdx + 1 /\ d.counts[d.moreResultsIdx + 1] = o
    BY <1>2, <2>d, <2>5, <2>6, <2>7, <2>8, DopoLetto
  <2>11. "multiple" \notin {"nessuna", "single"} OBVIOUS
  <2>12. Passo(s)' BY <1>1, <1>3, <2>3, <2>4, <2>9, <2>10, <2>11, Zenon DEF Passo
  <2>13. Cammino(s)' BY <1>3, <2>10, <2>11, <2>12, Zenon DEF Cammino
  <2>14. RispostaDi(s) BY <1>3, <2>4, <2>10 DEF RispostaDi
  <2> QED BY <1>6, <2>13, <2>14
<1> QED BY <1>7, <1>8

LEMMA getMoreResultsErroreCammino ==
  ASSUME RisInv, NEW s \in Stmt, getMoreResultsErrore(s)
  PROVE  \A t \in Stmt : Cammino(t)' /\ RispostaDi(t)
<1> DEFINE r == results[s]
           e == LettoErrore(r)
<1>1. /\ r.cmd # "assente" /\ pendenti # <<>> /\ Head(pendenti) = "err"
      /\ results' = [results EXCEPT ![s] = e]
      /\ Oltre(s) /\ pendenti' = <<>>
  BY DEF getMoreResultsErrore, Chiede, Restano
<1>2. r \in Ris BY DEF RisInv, PostiTipi
<1>3. results'[s] = e /\ \A t \in Stmt \ {s} : results'[t] = results[t]
  BY <1>1 DEF RisInv, PostiTipi
<1>4. \A t \in Stmt \ {s} : Cammino(t)' /\ RispostaDi(t) BY <1>1, <1>3, AltriOltre
<1>5. CASE ~Regolare(s) \/ titolare # s
  <2>1. Cammino(s)' /\ RispostaDi(s) BY <1>1, <1>5, RestaFermo
  <2> QED BY <1>4, <2>1
<1>6. CASE Regolare(s) /\ titolare = s
  <2>1. Passo(s) BY <1>6 DEF RisInv, Cammino
  <2>2. attesa[s] # <<>> /\ Tail(attesa[s]) = pendenti BY <1>1, <1>6, <2>1 DEF Passo
  <2>3. attesa'[s] = pendenti
    <3>1. attesa[s] \notin {<<>>, <<"err">>, <<"perso">>}
      BY <1>6, <2>2, NonFermato DEF Regolare
    <3> QED BY <1>1, <1>6, <2>2, <3>1, OltreStoria DEF RisInv
  <2>4. Attuale(s)' = "err" BY <1>1, <2>3 DEF Attuale
  <2>5. e.cmd \in {"single", "multiple"} BY <1>1, <1>2, LettoErroreRis
  <2>6. Cammino(s)' /\ RispostaDi(s) BY <2>4 DEF Cammino, Regolare, RispostaDi
  <2> QED BY <1>4, <2>6
<1> QED BY <1>5, <1>6

LEMMA getResultSetCammino ==
  ASSUME RisInv, NEW s \in Stmt, getResultSet(s)
  PROVE  \A t \in Stmt : Cammino(t)' /\ RispostaDi(t)
<1> DEFINE r == results[s]
           d == [r EXCEPT !.resultSet = 0]
<1>1. /\ results' = [results EXCEPT ![s].resultSet = 0]
      /\ UNCHANGED <<pendenti, titolare>> /\ attesa' = attesa
  BY DEF getResultSet, prende, connVars
<1>2. results' = [results EXCEPT ![s] = d] BY <1>1
<1>3. r \in Ris BY DEF RisInv, PostiTipi
<1>4. /\ d.cmd = r.cmd /\ d.counts = r.counts /\ d.moreResultsIdx = r.moreResultsIdx
      /\ d.executionResults = r.executionResults /\ d.resultSet = 0
  BY <1>3 DEF Ris
<1>5. results'[s] = d /\ \A t \in Stmt \ {s} : results'[t] = results[t]
  BY <1>2 DEF RisInv, PostiTipi
<1> HIDE DEF d
<1>6. \A t \in Stmt \ {s} : Cammino(t)' /\ RispostaDi(t)
  BY <1>1, <1>5, Estraneo DEF RisInv
<1>7. Attuale(s)' = Attuale(s) /\ attesa'[s] = attesa[s] BY <1>1 DEF Attuale
<1>8. Regolare(s)' <=> Regolare(s) BY <1>4, <1>5, <1>7 DEF Regolare
<1>9. Passo(s) => Passo(s)' BY <1>1, <1>4, <1>5, <1>7 DEF Passo
<1>10. Cammino(s)' BY <1>4, <1>5, <1>7, <1>8, <1>9 DEF RisInv, Cammino
<1>11. RispostaDi(s) BY <1>7 DEF RispostaDi
<1> QED BY <1>6, <1>10, <1>11

\* The calls that touch no outcome.
LEMMA FermoCammino ==
  ASSUME RisInv, results' = results, attesa' = attesa, UNCHANGED <<pendenti, titolare>>
  PROVE  \A t \in Stmt : Cammino(t)' /\ RispostaDi(t)
BY Estraneo DEF RisInv

LEMMA NextCammino ==
  ASSUME RisInv, [Next]_vars
  PROVE  \A t \in Stmt : Cammino(t)' /\ RispostaDi(t)
<1> DEFINE G == \A t \in Stmt : Cammino(t)' /\ RispostaDi(t)
<1>1. CASE UNCHANGED vars
  BY <1>1, FermoCammino DEF vars, stmtVars, connVars
<1>2. ASSUME NEW s \in Stmt, getMoreResultsNullo(s) \/ closeOnCompletion(s) \/ close(s)
      PROVE  G
  BY <1>2, FermoCammino DEF getMoreResultsNullo, closeOnCompletion, close, stmtVars, connVars
<1>3. ASSUME NEW x \in Rs, closeRs(x) \/ deleteRs(x) PROVE G
  BY <1>3, FermoCammino DEF closeRs, deleteRs, stmtVars, connVars
<1> QED BY <1>1, <1>2, <1>3, executeCammino, executeQueryCammino, getResultSetCammino,
           getMoreResultsNienteCammino, getMoreResultsLeggeCammino,
           getMoreResultsErroreCammino DEF Next

\* The histories and what is left on the connection, at every step.
LEMMA NextStoria ==
  ASSUME StoriaTipi, Ultimo, [Next]_vars
  PROVE  StoriaTipi' /\ Ultimo'
<1>1. ASSUME attesa' = attesa, UNCHANGED <<pendenti, titolare>> PROVE StoriaTipi' /\ Ultimo'
  BY <1>1 DEF StoriaTipi, Ultimo
<1>2. CASE UNCHANGED vars BY <1>1, <1>2 DEF vars, connVars
<1>3. ASSUME NEW s \in Stmt,
             getResultSet(s) \/ getMoreResultsNullo(s) \/ closeOnCompletion(s) \/ close(s)
      PROVE  StoriaTipi' /\ Ultimo'
  BY <1>1, <1>3 DEF getResultSet, getMoreResultsNullo, closeOnCompletion, close, connVars
<1>4. ASSUME NEW x \in Rs, closeRs(x) \/ deleteRs(x) PROVE StoriaTipi' /\ Ultimo'
  BY <1>1, <1>4 DEF closeRs, deleteRs, connVars
<1>5. ASSUME NEW s \in Stmt, NEW chiude, getMoreResultsNiente(s, chiude)
      PROVE  StoriaTipi' /\ Ultimo'
  <2>1. Oltre(s) /\ UNCHANGED <<pendenti, titolare>> BY <1>5 DEF getMoreResultsNiente, connVars
  <2> QED BY <2>1, OltreStoria DEF StoriaTipi
<1>6. ASSUME NEW s \in Stmt, NEW chiude, getMoreResultsLegge(s, chiude)
      PROVE  StoriaTipi' /\ Ultimo'
  <2>1. Oltre(s) /\ pendenti # <<>> /\ Restano(Tail(pendenti), titolare)
    BY <1>6 DEF getMoreResultsLegge
  <2>2. Tail(pendenti) \in Seq(Esiti) /\ titolare \in Stmt BY <2>1, CodaSeq DEF StoriaTipi
  <2>3. pendenti' \in Seq(Esiti) /\ (pendenti' # <<>> => titolare' \in Stmt)
    BY <2>1, <2>2, RestanoTipi
  <2> QED BY <2>1, <2>3, OltreStoria DEF StoriaTipi
<1>7. ASSUME NEW s \in Stmt, getMoreResultsErrore(s) PROVE StoriaTipi' /\ Ultimo'
  <2>1. Oltre(s) /\ Restano(<<>>, s) BY <1>7 DEF getMoreResultsErrore
  <2>2. <<>> \in Seq(Esiti) OBVIOUS
  <2>3. pendenti' \in Seq(Esiti) /\ (pendenti' # <<>> => titolare' \in Stmt)
    BY <2>1, <2>2, RestanoTipi
  <2> QED BY <2>1, <2>3, OltreStoria DEF StoriaTipi
<1> QED BY <1>2, <1>3, <1>4, <1>5, <1>6, <1>7, EsecuzioneStoria DEF Next

-----------------------------------------------------------------------------
(* The theorems.                                                            *)

LEMMA InitRis == Init => RisInv
<1> SUFFICES ASSUME Init PROVE RisInv OBVIOUS
<1> USE DEF Init
<1>1. /\ Assenti \in Ris /\ Assenti.cmd = "assente" /\ Assenti.executionResults = <<>>
      /\ Assenti.resultSet = 0
  BY NuoviRis DEF Assenti, Ris
<1>2. In(<<>>) = {} /\ Len(<<>>) = 0 BY DEF In
<1>3. Distinti(Assenti) /\ Tenuti(Assenti) = {} BY <1>1, <1>2 DEF Distinti, Tenuti
<1>4. PostiTipi BY <1>1 DEF PostiTipi
<1>5. StoriaTipi BY DEF StoriaTipi
<1>6. Posti BY <1>3 DEF Posti
<1>7. Ultimo BY <1>2 DEF Ultimo
<1>8. \A s \in Stmt : Cammino(s) BY <1>1 DEF Cammino, Regolare
<1> QED BY <1>4, <1>5, <1>6, <1>7, <1>8 DEF RisInv, Provenienza

LEMMA NextRis ==
  ASSUME RisInv, [Next]_vars
  PROVE  RisInv' /\ \A s \in Stmt : RispostaDi(s)
<1>1. PostiTipi /\ StoriaTipi /\ Posti /\ Ultimo /\ Provenienza BY DEF RisInv
<1>2. PostiTipi' /\ Posti' BY <1>1, NextPosti
<1>3. StoriaTipi' /\ Ultimo' BY <1>1, NextStoria
<1>4. \A s \in Stmt : Cammino(s)' /\ RispostaDi(s) BY NextCammino
<1>5. Provenienza'
  <2> SUFFICES ASSUME Stmt = {} PROVE presi' = {} BY DEF Provenienza
  <2>1. presi = {} BY <1>1 DEF Provenienza
  <2>2. UNCHANGED vars \/ \E x \in Rs : closeRs(x) \/ deleteRs(x) BY DEF Next
  <2> QED BY <2>1, <2>2 DEF vars, rsVars, closeRs, deleteRs
<1>6. RisInv' BY <1>2, <1>3, <1>4, <1>5, Zenon DEF RisInv
<1> QED BY <1>2, <1>4, <1>6

LEMMA QuanteDiverse ==
  ASSUME NEW S, NEW q \in Seq(S), Diversi(q)
  PROVE  Cardinality(In(q)) = Len(q)
<1> DEFINE n == Len(q)
<1>1. n \in Nat /\ DOMAIN q = 1..n BY LenProperties
<1>2. q \in [1..n -> In(q)] BY <1>1 DEF In
<1>3. \A i, j \in 1..n : q[i] = q[j] => i = j BY DEF Diversi
<1>4. \A x \in In(q) : \E i \in 1..n : q[i] = x BY <1>1 DEF In
<1>5. q \in Bijection(1..n, In(q)) BY <1>2, <1>3, <1>4 DEF Bijection, Injection, Surjection, IsInjective
<1>6. ExistsBijection(1..n, In(q)) BY <1>5 DEF ExistsBijection
<1> QED BY <1>1, <1>6, FS_CountingElements

LEMMA UnSoloPostoDaPosti == RisInv => UnSoloPosto
<1> SUFFICES ASSUME RisInv PROVE UnSoloPosto OBVIOUS
<1> USE DEF RisInv
<1>1. ASSUME NEW s \in Stmt
      PROVE  /\ Tenuti(results[s]) \cap Altri(s) = {}
             /\ results[s].resultSet \notin In(results[s].executionResults)
             /\ Cardinality(In(results[s].executionResults)) = Len(results[s].executionResults)
  <2>1. Distinti(results[s]) BY DEF Posti
  <2>2. Tenuti(results[s]) \cap Altri(s) = {} BY AltriDi DEF Posti
  <2>3. results[s].executionResults \in Seq(Rs) BY DEF PostiTipi, Ris
  <2> QED BY <2>1, <2>2, <2>3, DiversiDistinti, QuanteDiverse
<1>2. ASSUME NEW x \in chiusi PROVE \E s \in Stmt : x \in Vivi(s)
  <2>1. CASE x \in presi
    <3>1. PICK s \in Stmt : TRUE BY <2>1 DEF Provenienza
    <3> QED BY <2>1, <3>1, AltriDi
  <2>2. CASE \E s \in Stmt : x \in Tenuti(results[s]) BY <2>2, AltriDi
  <2> QED BY <2>1, <2>2 DEF Posti
<1> QED BY <1>1, <1>2 DEF UnSoloPosto

LEMMA CamminoFedeleDaPasso == RisInv => CamminoFedele
<1> SUFFICES ASSUME RisInv, NEW s \in Stmt, Regolare(s)
             PROVE  /\ UpdateCount(results[s]) = IF Attuale(s) = "rs" THEN "fine" ELSE Attuale(s)
                    /\ results[s].resultSet # 0 => Attuale(s) = "rs"
                    /\ attesa[s] # <<>> => Tail(attesa[s]) = IF titolare = s THEN pendenti ELSE <<>>
  BY Zenon DEF CamminoFedele
<1> DEFINE r == results[s]
<1>1. Passo(s) BY DEF RisInv, Cammino
<1>2. r \in Ris BY DEF RisInv, PostiTipi
<1>3. r.cmd \in {"single", "multiple"} BY <1>2 DEF Regolare, Ris
<1>4. r.moreResultsIdx \in Nat /\ Len(r.counts) \in Nat BY <1>2 DEF Ris
<1>5. attesa[s] = <<>> => Attuale(s) = "fine" BY DEF Attuale
<1>6. UpdateCount(r) = IF Attuale(s) = "rs" THEN "fine" ELSE Attuale(s)
  <2>1. CASE r.cmd = "single"
    <3>1. UpdateCount(r) = IF r.counts[1] = "rs" THEN "fine" ELSE r.counts[1]
      BY <2>1, Zenon DEF UpdateCount
    <3>2. CASE attesa[s] = <<>>
      <4>1. r.counts[1] = "rs" BY <1>1, <2>1, <3>2 DEF Passo
      <4> QED BY <1>5, <3>1, <3>2, <4>1
    <3>3. CASE attesa[s] # <<>>
      <4>1. r.counts[1] = Attuale(s) BY <1>1, <2>1, <3>3 DEF Passo
      <4> QED BY <3>1, <4>1
    <3> QED BY <3>2, <3>3
  <2>2. CASE r.cmd = "multiple"
    <3>1. UpdateCount(r) =
            IF r.moreResultsIdx >= Len(r.counts) \/ r.counts[r.moreResultsIdx + 1] = "rs"
              THEN "fine" ELSE r.counts[r.moreResultsIdx + 1]
      BY <2>2, Zenon DEF UpdateCount
    <3>2. CASE attesa[s] = <<>>
      <4>1. r.moreResultsIdx >= Len(r.counts) BY <1>1, <2>2, <3>2 DEF Passo
      <4>2. UpdateCount(r) = "fine" BY <3>1, <4>1, Zenon
      <4> QED BY <1>5, <3>2, <4>2
    <3>3. CASE attesa[s] # <<>>
      <4>1. Len(r.counts) = r.moreResultsIdx + 1 /\ r.counts[r.moreResultsIdx + 1] = Attuale(s)
        BY <1>1, <2>2, <3>3 DEF Passo
      <4>2. ~(r.moreResultsIdx >= Len(r.counts)) BY <1>4, <4>1
      <4> QED BY <3>1, <4>1, <4>2, Zenon
    <3> QED BY <3>2, <3>3
  <2> QED BY <1>3, <2>1, <2>2
<1> QED BY <1>1, <1>6, Zenon DEF Passo

LEMMA RisSempre == Spec => []RisInv
<1>1. Init => RisInv BY InitRis
<1>2. RisInv /\ [Next]_vars => RisInv' BY NextRis
<1> QED BY <1>1, <1>2, PTL DEF Spec

\* Whatever is executed, asked for, taken, closed and deleted, on any number of
\* statements, a result set has one owner, one place of one Results or the
\* client: none is ever deleted twice.
THEOREM UnSoloPostoSempre == Spec => []UnSoloPosto
BY RisSempre, UnSoloPostoDaPosti, PTL

\* getUpdateCount tells the count of the outcome the calls have reached, and
\* what they have not reached is still to be read, in order, for any number of
\* outcomes, as long as each statement asks only for its own.
THEOREM CamminoFedeleSempre == Spec => []CamminoFedele
BY RisSempre, CamminoFedeleDaPasso, PTL

\* execute and getMoreResults leave a current result set exactly when the
\* outcome they reach is one.
THEOREM RispostaFedeleSempre == Spec => RispostaFedele
<1>1. RisInv /\ [Next]_vars =>
        [\A s \in Stmt :
           attesa'[s] # attesa[s] /\ presi' = presi /\ Regolare(s)' =>
             (results'[s].resultSet # 0 <=> Attuale(s)' = "rs")]_vars
  BY NextRis DEF RispostaDi
<1> QED BY <1>1, RisSempre, PTL DEF Spec, RispostaFedele
=============================================================================
