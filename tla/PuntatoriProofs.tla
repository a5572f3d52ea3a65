--------------------------- MODULE PuntatoriProofs ---------------------------
(***************************************************************************)
(* DatabaseConfig with any number of workers and of objects: as long as no  *)
(* two workers have been inside its functions at once, no call goes through *)
(* a bad pointer, nothing is left behind and every query gets its own       *)
(* result set.  A mutex held by each of the four functions would be enough. *)
(***************************************************************************)
EXTENDS Puntatori, TLAPS

DentroCon  == {"setSchema lock", "setSchema fine", "setAutoCommit lock", "setAutoCommit fine",
               "commit lock", "commit fine", "rollback lock", "rollback fine"}
DentroStmt == {"executeQuery lock", "executeQuery fine", "close", "releaseResultSet"}

\* What the call of w knows of the two pointers at each of its accesses.
Lecito(w) ==
  /\ esito[w] \notin {"altrui", "nullo"}
  /\ usaCon[w] = IF passo[w] \in DentroCon THEN con ELSE 0
  /\ usaStmt[w] = IF passo[w] \in DentroStmt THEN stmt ELSE 0
  /\ passo[w] = "connect" => con = 0
  /\ passo[w] \in DentroCon \cup {"setSchema", "setAutoCommit", "commit", "rollback",
                                  "if (!stmt)", "createStatement"} => con # 0
  /\ passo[w] = "createStatement" => stmt = 0
  /\ passo[w] \in DentroStmt \cup {"executeQuery"} => stmt # 0
  /\ passo[w] = "releaseResultSet" => risultato[stmt] = w
  /\ IF passo[w] = "con = nullptr" THEN con \notin conVive ELSE con \in conVive \cup {0}
  /\ IF passo[w] = "stmt = nullptr" THEN stmt \notin stmtVivi ELSE stmt \in stmtVivi \cup {0}

\* Every other worker is outside.
Fermi(w) ==
  \A v \in Worker \ {w} :
    passo[v] = "fuori" /\ esito[v] \notin {"altrui", "nullo"} /\ usaCon[v] = 0 /\ usaStmt[v] = 0

\* w alone is inside, if anyone is, and its call is in order.
Ordine(w) == ~abuso /\ ~perso /\ Fermi(w) /\ Lecito(w)

Sano == \E w \in Worker : Ordine(w)

PuntInv == PuntTypeOK /\ (insieme \/ Sano)

-----------------------------------------------------------------------------
(* Types.                                                                   *)

LEMMA PuntInitTipi == ASSUME PuntInit PROVE PuntTypeOK
BY PuntatoriAssumption DEF PuntInit, PuntTypeOK, Passi, Esiti, Metodi, ConId, StmtId

LEMMA ChiamaTipi ==
  ASSUME PuntTypeOK, NEW w \in Worker, NEW m \in Metodi, Chiama(w, m) PROVE PuntTypeOK'
<1>1. insieme' \in BOOLEAN BY Zenon DEF Chiama
<1> QED BY <1>1 DEF Chiama, Primo, PuntTypeOK, Passi, Esiti, Metodi, oggetti

LEMMA AbusaTipi == ASSUME PuntTypeOK, NEW w \in Worker, Abusa(w) PROVE PuntTypeOK'
BY DEF Abusa, PuntTypeOK, oggetti, chiamate

LEMMA EntraConTipi ==
  ASSUME PuntTypeOK, NEW w \in Worker,
         \/ EntraCon(w, "setSchema", "setSchema lock", Lancia)
         \/ EntraCon(w, "setAutoCommit", "setAutoCommit lock", DopoCommit)
         \/ EntraCon(w, "commit", "commit lock", DopoCommit)
         \/ EntraCon(w, "rollback", "rollback lock", DopoRollback)
  PROVE  PuntTypeOK'
<1>1. CASE Abusa(w) BY <1>1, AbusaTipi
<1>2. CASE ~Abusa(w)
  <2>1. /\ passo' \in [Worker -> Passi] /\ esito' \in [Worker -> Esiti]
        /\ metodo' \in [Worker -> Metodi \cup {"nessuno"}]
    BY <1>2 DEF EntraCon, Lancia, DopoCommit, DopoRollback, Va, Torna, PuntTypeOK, Passi, Esiti
  <2>2. /\ usaCon' \in {usaCon, [usaCon EXCEPT ![w] = con]} /\ con \in conVive
        /\ UNCHANGED <<oggetti, usaStmt, storia>>
    BY <1>2 DEF EntraCon
  <2> QED BY <2>1, <2>2 DEF PuntTypeOK, oggetti, storia
<1> QED BY <1>1, <1>2

LEMMA BloccaConTipi ==
  ASSUME PuntTypeOK, NEW w \in Worker, NEW f, NEW dopo \in Passi, BloccaCon(w, f, dopo)
  PROVE  PuntTypeOK'
BY DEF BloccaCon, Va, PuntTypeOK, storia

\* Whatever follows, the return of a call of con keeps the types.
LEMMA EsceConTipi ==
  ASSUME PuntTypeOK, NEW w \in Worker,
         \/ EsceCon(w, "setSchema fine", DopoSchema)
         \/ EsceCon(w, "setAutoCommit fine", DopoCommit)
         \/ EsceCon(w, "commit fine", DopoCommit)
         \/ EsceCon(w, "rollback fine", DopoRollback)
  PROVE  PuntTypeOK'
<1>1. /\ passo' \in [Worker -> Passi] /\ esito' \in [Worker -> Esiti]
      /\ metodo' \in [Worker -> Metodi \cup {"nessuno"}]
  BY DEF EsceCon, DopoSchema, DopoCommit, DopoRollback, Va, Lancia, Torna, PuntTypeOK, Passi, Esiti
<1>2. /\ lucchetto' \in [ConId -> Worker \cup {Nessuno}]
      /\ usaCon' \in [Worker -> {0} \cup ConId]
      /\ UNCHANGED <<con, stmt, conVive, stmtVivi, padrone, risultato, usaStmt, storia>>
  BY DEF EsceCon, PuntTypeOK
<1> QED BY <1>1, <1>2 DEF PuntTypeOK, storia

LEMMA ConTipi ==
  ASSUME PuntTypeOK, NEW w \in Worker,
         SetSchema(w) \/ SetAutoCommit(w) \/ CommitCon(w) \/ RollbackCon(w)
  PROVE  PuntTypeOK'
<1>1. /\ {"setSchema lock", "setAutoCommit lock", "commit lock", "rollback lock"} \subseteq Passi
      /\ {"setSchema fine", "setAutoCommit fine", "commit fine", "rollback fine"} \subseteq Passi
  BY DEF Passi
<1> QED BY <1>1, EntraConTipi, BloccaConTipi, EsceConTipi
      DEF SetSchema, SetAutoCommit, CommitCon, RollbackCon

LEMMA ConnetteTipi ==
  ASSUME PuntTypeOK, NEW w \in Worker, ControllaCon(w) \/ Connette(w) PROVE PuntTypeOK'
<1>1. CASE ControllaCon(w)
  BY <1>1 DEF ControllaCon, Va, Torna, PuntTypeOK, Passi, Esiti, oggetti, storia
<1>2. CASE Connette(w)
  <2>1. perso' \in BOOLEAN BY <1>2, Zenon DEF Connette, PuntTypeOK
  <2> QED BY <1>2, <2>1 DEF Connette, Va, Lancia, Torna, PuntTypeOK, Passi, Esiti
<1> QED BY <1>1, <1>2

LEMMA StmtTipi ==
  ASSUME PuntTypeOK, NEW w \in Worker,
         ControllaStmt(w) \/ CreaStatement(w) \/ EntraStmt(w) \/ BloccaStmt(w)
  PROVE  PuntTypeOK'
<1>1. CASE ControllaStmt(w)
  BY <1>1 DEF ControllaStmt, Va, PuntTypeOK, Passi, oggetti, storia
<1>2. CASE CreaStatement(w)
  <2>1. CASE Abusa(w) BY <2>1, AbusaTipi
  <2>2. CASE Lancia(w) /\ UNCHANGED <<oggetti, usaCon, usaStmt, storia>>
    BY <2>2 DEF Lancia, Torna, PuntTypeOK, Passi, Esiti, oggetti, storia
  <2>3. ASSUME NEW s \in StmtId, stmt' = s, stmtVivi' = stmtVivi \cup {s},
               padrone' = [padrone EXCEPT ![s] = con],
               risultato' = [risultato EXCEPT ![s] = Nessuno],
               perso' = (perso \/ stmt \in stmtVivi), Va(w, "executeQuery"),
               UNCHANGED <<con, conVive, lucchetto, usaCon, usaStmt, abuso, insieme>>
        PROVE  PuntTypeOK'
    <3>1. perso' \in BOOLEAN BY <2>3, Zenon
    <3>2. /\ stmt' \in StmtId /\ stmtVivi' \subseteq StmtId
          /\ padrone' \in [StmtId -> {0} \cup ConId]
          /\ risultato' \in [StmtId -> Worker \cup {Nessuno}]
      BY <2>3 DEF PuntTypeOK
    <3>3. passo' \in [Worker -> Passi] /\ UNCHANGED <<metodo, esito>>
      BY <2>3 DEF Va, PuntTypeOK, Passi
    <3> QED BY <2>3, <3>1, <3>2, <3>3 DEF PuntTypeOK
  <2> QED BY <1>2, <2>1, <2>2, <2>3 DEF CreaStatement
<1>3. CASE EntraStmt(w)
  <2>1. CASE Abusa(w) BY <2>1, AbusaTipi
  <2>2. CASE ~Abusa(w)
    BY <1>3, <2>2 DEF EntraStmt, Va, PuntTypeOK, Passi, oggetti, storia
  <2> QED BY <2>1, <2>2
<1>4. CASE BloccaStmt(w)
  BY <1>4 DEF BloccaStmt, Va, PuntTypeOK, Passi, storia
<1> QED BY <1>1, <1>2, <1>3, <1>4

LEMMA EsegueTipi ==
  ASSUME PuntTypeOK, NEW w \in Worker, EsegueStmt(w) \/ ChiudeStmt(w) \/ Rilascia(w)
  PROVE  PuntTypeOK'
<1>1. CASE EsegueStmt(w)
  <2>1. lucchetto' \in [ConId -> Worker \cup {Nessuno}]
    <3>1. lucchetto' = [lucchetto EXCEPT ![padrone[usaStmt[w]]] = Nessuno]
      BY <1>1, Zenon DEF EsegueStmt, Sblocca
    <3> QED BY <3>1 DEF PuntTypeOK
  <2>4. risultato' \in [StmtId -> Worker \cup {Nessuno}]
    <3>1. \E v \in Worker \cup {Nessuno} :
            risultato' \in {risultato, [risultato EXCEPT ![usaStmt[w]] = v]}
      BY <1>1 DEF EsegueStmt, RisultatoCorrente
    <3> QED BY <3>1 DEF PuntTypeOK
  <2>5. usaStmt' \in [Worker -> {0} \cup StmtId]
    <3>1. usaStmt' \in {usaStmt, [usaStmt EXCEPT ![w] = 0]} BY <1>1 DEF EsegueStmt
    <3> QED BY <3>1 DEF PuntTypeOK
  <2>2. /\ passo' \in [Worker -> Passi] /\ esito' \in [Worker -> Esiti]
        /\ metodo' \in [Worker -> Metodi \cup {"nessuno"}]
    BY <1>1 DEF EsegueStmt, Va, Lancia, Torna, PuntTypeOK, Passi, Esiti
  <2>3. UNCHANGED <<con, stmt, conVive, stmtVivi, padrone, usaCon, storia>>
    BY <1>1 DEF EsegueStmt
  <2> QED BY <2>1, <2>2, <2>3, <2>4, <2>5 DEF PuntTypeOK, storia
<1>2. CASE ChiudeStmt(w)
  BY <1>2 DEF ChiudeStmt, Lancia, Torna, PuntTypeOK, Passi, Esiti, oggetti, storia
<1>3. CASE Rilascia(w)
  BY <1>3 DEF Rilascia, Torna, PuntTypeOK, Passi, Esiti, storia
<1> QED BY <1>1, <1>2, <1>3

LEMMA CancellaTipi ==
  ASSUME PuntTypeOK, NEW w \in Worker,
         CancellaStmt(w) \/ AzzeraStmt(w) \/ CancellaCon(w) \/ AzzeraCon(w)
  PROVE  PuntTypeOK'
<1>1. CASE Abusa(w) BY <1>1, AbusaTipi
<1>2. CASE CancellaStmt(w) /\ ~Abusa(w)
  BY <1>2 DEF CancellaStmt, Va, PuntTypeOK, Passi, storia
<1>3. CASE CancellaCon(w) /\ ~Abusa(w)
  BY <1>3 DEF CancellaCon, Va, PuntTypeOK, Passi, storia
<1>4. CASE AzzeraStmt(w)
  <2>1. perso' \in BOOLEAN BY <1>4, Zenon DEF AzzeraStmt
  <2> QED BY <1>4, <2>1 DEF AzzeraStmt, Va, Torna, PuntTypeOK, Passi, Esiti
<1>5. CASE AzzeraCon(w)
  <2>1. perso' \in BOOLEAN BY <1>5, Zenon DEF AzzeraCon
  <2> QED BY <1>5, <2>1 DEF AzzeraCon, Torna, PuntTypeOK, Passi, Esiti
<1> QED BY <1>1, <1>2, <1>3, <1>4, <1>5

LEMMA PassoTipi == ASSUME PuntTypeOK, NEW w \in Worker, Passo(w) PROVE PuntTypeOK'
BY ConTipi, ConnetteTipi, StmtTipi, EsegueTipi, CancellaTipi DEF Passo

-----------------------------------------------------------------------------
(* Order.                                                                   *)

\* No object has the number of nullptr.
LEMMA NonNullo == 0 \notin ConId /\ 0 \notin StmtId
BY PuntatoriAssumption, SMT DEF ConId, StmtId

LEMMA Nulli == ASSUME PuntTypeOK PROVE 0 \notin conVive /\ 0 \notin stmtVivi
BY NonNullo DEF PuntTypeOK

LEMMA ConnetteOrdine ==
  ASSUME PuntTypeOK, NEW w \in Worker, Ordine(w), ControllaCon(w) \/ Connette(w)
  PROVE  Ordine(w)'
<1> USE Nulli DEF Ordine, Lecito, DentroCon, DentroStmt
<1>1. CASE ControllaCon(w)
  <2>1. Fermi(w)' BY <1>1 DEF ControllaCon, Va, Torna, Fermi, PuntTypeOK
  <2>3. /\ UNCHANGED <<con, stmt, conVive, stmtVivi, risultato, usaCon, usaStmt>>
        /\ passo[w] = "if (!con)"
        /\ \E e \in {esito[w], "fatto"} : esito' = [esito EXCEPT ![w] = e]
    BY <1>1 DEF ControllaCon, Va, Torna, oggetti, PuntTypeOK
  <2>4. ASSUME con = 0 PROVE Lecito(w)'
    <3>1. \E f \in {"fuori", "connect"} : passo' = [passo EXCEPT ![w] = f]
      BY <1>1, <2>4 DEF ControllaCon, Va, Torna
    <3> QED BY <2>3, <2>4, <3>1 DEF PuntTypeOK
  <2>5. ASSUME con # 0 PROVE Lecito(w)'
    <3>1. \E f \in {"rollback", "commit", "if (!stmt)"} : passo' = [passo EXCEPT ![w] = f]
      BY <1>1, <2>5 DEF ControllaCon, Va
    <3> QED BY <2>3, <2>5, <3>1 DEF PuntTypeOK
  <2>2. Lecito(w)' BY <2>4, <2>5
  <2> QED BY <1>1, <2>1, <2>2 DEF ControllaCon, storia
<1>2. CASE Connette(w)
  <2>1. Fermi(w)' BY <1>2 DEF Connette, Va, Lancia, Torna, Fermi, PuntTypeOK
  <2>0. con \notin conVive BY <1>2 DEF Connette
  <2>2. ~abuso' /\ ~perso'
    <3>1. ~abuso' BY <1>2 DEF Connette
    <3>2. CASE perso' = perso BY <3>1, <3>2, Zenon
    <3>3. CASE perso' = (perso \/ con \in conVive) BY <2>0, <3>1, <3>3, Zenon
    <3> QED BY <1>2, <3>2, <3>3 DEF Connette
  <2>3. ASSUME Lancia(w), UNCHANGED <<con, conVive, lucchetto, perso>>
        PROVE  Lecito(w)'
    BY <1>2, <2>3 DEF Connette, Lancia, Torna, PuntTypeOK
  <2>4. ASSUME NEW c \in ConId, con' = c, conVive' = conVive \cup {c}, Va(w, "setSchema")
        PROVE  Lecito(w)'
    <3>1. c # 0 BY <2>4, NonNullo
    <3> QED BY <1>2, <2>4, <3>1 DEF Connette, Va, PuntTypeOK
  <2>5. Lecito(w)' BY <1>2, <2>3, <2>4 DEF Connette
  <2> QED BY <2>1, <2>2, <2>5
<1> QED BY <1>1, <1>2

LEMMA EntraConOrdine ==
  ASSUME PuntTypeOK, NEW w \in Worker, Ordine(w),
         \/ EntraCon(w, "setSchema", "setSchema lock", Lancia)
         \/ EntraCon(w, "setAutoCommit", "setAutoCommit lock", DopoCommit)
         \/ EntraCon(w, "commit", "commit lock", DopoCommit)
         \/ EntraCon(w, "rollback", "rollback lock", DopoRollback)
  PROVE  Ordine(w)'
<1> USE Nulli DEF Ordine, DentroCon, DentroStmt
<1>1. con \in conVive BY DEF EntraCon, Lecito
<1>2. UNCHANGED <<oggetti, usaStmt, storia>> BY <1>1 DEF EntraCon
<1>3. /\ passo[w] \notin DentroCon \cup DentroStmt \cup {"con = nullptr", "stmt = nullptr"}
      /\ con # 0
  BY <1>1 DEF EntraCon
<1>4. CASE /\ usaCon' = [usaCon EXCEPT ![w] = con] /\ UNCHANGED esito
           /\ \E f \in {"setSchema lock", "setAutoCommit lock", "commit lock", "rollback lock"} :
                passo' = [passo EXCEPT ![w] = f]
  <2>1. Fermi(w)' BY <1>2, <1>4 DEF Fermi, PuntTypeOK
  <2>2. Lecito(w)' BY <1>1, <1>2, <1>3, <1>4 DEF Lecito, PuntTypeOK, oggetti
  <2> QED BY <1>2, <2>1, <2>2 DEF storia
<1>5. CASE /\ UNCHANGED usaCon
           /\ \E e \in {esito[w], "fatto", "eccezione"} : esito' = [esito EXCEPT ![w] = e]
           /\ \E f \in {"fuori", "delete con"} : passo' = [passo EXCEPT ![w] = f]
  <2>1. Fermi(w)' BY <1>2, <1>5 DEF Fermi, PuntTypeOK
  <2>2. Lecito(w)' BY <1>1, <1>2, <1>3, <1>5 DEF Lecito, PuntTypeOK, oggetti
  <2> QED BY <1>2, <2>1, <2>2 DEF storia
<1> QED BY <1>1, <1>4, <1>5
      DEF EntraCon, Lancia, DopoCommit, DopoRollback, Va, Torna, PuntTypeOK

LEMMA BloccaConOrdine ==
  ASSUME PuntTypeOK, NEW w \in Worker, Ordine(w),
         \/ BloccaCon(w, "setSchema lock", "setSchema fine")
         \/ BloccaCon(w, "setAutoCommit lock", "setAutoCommit fine")
         \/ BloccaCon(w, "commit lock", "commit fine")
         \/ BloccaCon(w, "rollback lock", "rollback fine")
  PROVE  Ordine(w)'
<1> USE DEF Ordine, DentroCon, DentroStmt
<1>1. /\ UNCHANGED <<con, stmt, conVive, stmtVivi, risultato, usaCon, usaStmt, storia, esito>>
      /\ passo[w] \in DentroCon
  BY DEF BloccaCon, Va
<1>2. \E f \in {"setSchema fine", "setAutoCommit fine", "commit fine", "rollback fine"} :
        passo' = [passo EXCEPT ![w] = f]
  BY DEF BloccaCon, Va
<1>3. Fermi(w)' BY <1>1, <1>2 DEF Fermi, PuntTypeOK
<1>4. Lecito(w)' BY <1>1, <1>2 DEF Lecito, PuntTypeOK
<1> QED BY <1>1, <1>3, <1>4 DEF storia

LEMMA EsceConOrdine ==
  ASSUME PuntTypeOK, NEW w \in Worker, Ordine(w),
         \/ EsceCon(w, "setSchema fine", DopoSchema)
         \/ EsceCon(w, "setAutoCommit fine", DopoCommit)
         \/ EsceCon(w, "commit fine", DopoCommit)
         \/ EsceCon(w, "rollback fine", DopoRollback)
  PROVE  Ordine(w)'
<1> USE DEF Ordine, DentroCon, DentroStmt
<1>1. /\ UNCHANGED <<con, stmt, conVive, stmtVivi, risultato, usaStmt, storia>>
      /\ passo[w] \in DentroCon
      /\ usaCon' = [usaCon EXCEPT ![w] = 0]
  BY DEF EsceCon
<1>2. \E f \in {"fuori", "setAutoCommit", "if (!stmt)", "delete con"} :
        passo' = [passo EXCEPT ![w] = f]
  BY DEF EsceCon, DopoSchema, DopoCommit, DopoRollback, Va, Lancia, Torna
<1>3. \E e \in {esito[w], "fatto", "eccezione"} : esito' = [esito EXCEPT ![w] = e]
  BY DEF EsceCon, DopoSchema, DopoCommit, DopoRollback, Va, Lancia, Torna, PuntTypeOK
<1>4. Fermi(w)' BY <1>1, <1>2, <1>3 DEF Fermi, PuntTypeOK
<1>5. Lecito(w)' BY <1>1, <1>2, <1>3 DEF Lecito, PuntTypeOK
<1> QED BY <1>1, <1>4, <1>5 DEF storia

LEMMA StmtOrdine ==
  ASSUME PuntTypeOK, NEW w \in Worker, Ordine(w), ControllaStmt(w) \/ CreaStatement(w)
  PROVE  Ordine(w)'
<1> USE Nulli DEF Ordine, DentroCon, DentroStmt
<1>1. CASE ControllaStmt(w)
  <2>1. Fermi(w)' BY <1>1 DEF ControllaStmt, Va, Fermi, PuntTypeOK
  <2>2. Lecito(w)' BY <1>1 DEF ControllaStmt, Va, Lecito, PuntTypeOK, oggetti
  <2> QED BY <1>1, <2>1, <2>2 DEF ControllaStmt, storia
<1>2. CASE CreaStatement(w)
  <2>1. con \in conVive /\ con # 0 /\ stmt = 0 BY <1>2 DEF CreaStatement, Lecito
  <2>2. CASE Lancia(w) /\ UNCHANGED <<oggetti, usaCon, usaStmt, storia>>
    <3>1. Fermi(w)' BY <2>2 DEF Lancia, Torna, Fermi, PuntTypeOK
    <3>2. Lecito(w)'
      BY <1>2, <2>1, <2>2 DEF CreaStatement, Lancia, Torna, Lecito, PuntTypeOK, oggetti
    <3> QED BY <2>2, <3>1, <3>2 DEF storia
  <2>3. ASSUME NEW s \in StmtId, stmt' = s, stmtVivi' = stmtVivi \cup {s}, Va(w, "executeQuery"),
               perso' = (perso \/ stmt \in stmtVivi),
               UNCHANGED <<con, conVive, usaCon, usaStmt, abuso, insieme>>
        PROVE  Ordine(w)'
    <3>1. s # 0 BY <2>3, NonNullo
    <3>2. Fermi(w)' BY <2>3 DEF Va, Fermi, PuntTypeOK
    <3>3. Lecito(w)' BY <1>2, <2>1, <2>3, <3>1 DEF CreaStatement, Va, Lecito, PuntTypeOK
    <3> QED BY <2>1, <2>3, <3>2, <3>3
  <2> QED BY <1>2, <2>1, <2>2, <2>3 DEF CreaStatement
<1> QED BY <1>1, <1>2

LEMMA EntraStmtOrdine ==
  ASSUME PuntTypeOK, NEW w \in Worker, Ordine(w), EntraStmt(w) \/ BloccaStmt(w)
  PROVE  Ordine(w)'
<1> USE Nulli DEF Ordine, DentroCon, DentroStmt
<1>1. CASE EntraStmt(w)
  <2>1. stmt \in stmtVivi /\ stmt # 0 BY <1>1 DEF EntraStmt, Lecito
  <2>2. /\ usaStmt' = [usaStmt EXCEPT ![w] = stmt] /\ Va(w, "executeQuery lock")
        /\ UNCHANGED <<oggetti, usaCon, storia>>
    BY <1>1, <2>1 DEF EntraStmt
  <2>3. Fermi(w)' BY <2>2 DEF Va, Fermi, PuntTypeOK
  <2>4. Lecito(w)' BY <1>1, <2>1, <2>2 DEF EntraStmt, Va, Lecito, PuntTypeOK, oggetti
  <2> QED BY <2>2, <2>3, <2>4 DEF storia
<1>2. CASE BloccaStmt(w)
  <2>1. Fermi(w)' BY <1>2 DEF BloccaStmt, Va, Fermi, PuntTypeOK
  <2>2. Lecito(w)' BY <1>2 DEF BloccaStmt, Va, Lecito, PuntTypeOK
  <2> QED BY <1>2, <2>1, <2>2 DEF BloccaStmt, storia
<1> QED BY <1>1, <1>2

LEMMA EsegueOrdine ==
  ASSUME PuntTypeOK, NEW w \in Worker, Ordine(w), EsegueStmt(w) PROVE Ordine(w)'
<1> USE DEF Ordine, DentroCon, DentroStmt
<1>1. /\ UNCHANGED <<con, stmt, conVive, stmtVivi, usaCon, storia>>
      /\ passo[w] = "executeQuery fine" /\ usaStmt[w] = stmt /\ stmt # 0
  BY DEF EsegueStmt, Lecito
<1>2. CASE /\ risultato' = RisultatoCorrente(w, usaStmt[w])
           /\ Va(w, "releaseResultSet") /\ UNCHANGED usaStmt
  <2>1. Fermi(w)' BY <1>1, <1>2 DEF Va, Fermi, PuntTypeOK
  <2>2. risultato'[stmt] = w BY <1>1, <1>2 DEF RisultatoCorrente, PuntTypeOK
  <2>3. Lecito(w)' BY <1>1, <1>2, <2>2 DEF Va, Lecito, PuntTypeOK
  <2> QED BY <1>1, <2>1, <2>3 DEF storia
<1>3. CASE Va(w, "close") /\ UNCHANGED usaStmt
  <2>1. Fermi(w)' BY <1>1, <1>3 DEF Va, Fermi, PuntTypeOK
  <2>2. Lecito(w)' BY <1>1, <1>3 DEF Va, Lecito, PuntTypeOK
  <2> QED BY <1>1, <2>1, <2>2 DEF storia
<1>4. CASE /\ usaStmt' = [usaStmt EXCEPT ![w] = 0]
           /\ Torna(w, "proprio") \/ Lancia(w)
  <2>1. Fermi(w)' BY <1>1, <1>4 DEF Lancia, Torna, Fermi, PuntTypeOK
  <2>2. Lecito(w)' BY <1>1, <1>4 DEF Lancia, Torna, Lecito, PuntTypeOK
  <2> QED BY <1>1, <2>1, <2>2 DEF storia
<1> QED BY <1>2, <1>3, <1>4 DEF EsegueStmt

LEMMA RilasciaOrdine ==
  ASSUME PuntTypeOK, NEW w \in Worker, Ordine(w), ChiudeStmt(w) \/ Rilascia(w)
  PROVE  Ordine(w)'
<1> USE DEF Ordine, DentroCon, DentroStmt
<1>1. CASE ChiudeStmt(w)
  <2>1. Fermi(w)' BY <1>1 DEF ChiudeStmt, Lancia, Torna, Fermi, PuntTypeOK
  <2>2. Lecito(w)' BY <1>1 DEF ChiudeStmt, Lancia, Torna, Lecito, PuntTypeOK, oggetti
  <2> QED BY <1>1, <2>1, <2>2 DEF ChiudeStmt, storia
<1>2. CASE Rilascia(w)
  <2>1. risultato[usaStmt[w]] = w BY <1>2 DEF Rilascia, Lecito
  <2>2. Torna(w, "proprio") /\ usaStmt' = [usaStmt EXCEPT ![w] = 0]
    BY <1>2, <2>1 DEF Rilascia
  <2>3. Fermi(w)' BY <1>2, <2>2 DEF Rilascia, Torna, Fermi, PuntTypeOK
  <2>4. Lecito(w)' BY <1>2, <2>2 DEF Rilascia, Torna, Lecito, PuntTypeOK
  <2> QED BY <1>2, <2>3, <2>4 DEF Rilascia, storia
<1> QED BY <1>1, <1>2

LEMMA CancellaStmtOrdine ==
  ASSUME PuntTypeOK, NEW w \in Worker, Ordine(w), CancellaStmt(w) \/ AzzeraStmt(w)
  PROVE  Ordine(w)'
<1> USE Nulli DEF Ordine, DentroCon, DentroStmt
<1>1. CASE CancellaStmt(w)
  <2>1. stmt = 0 \/ (stmt \in stmtVivi /\ \A v \in Worker : usaStmt[v] # stmt)
    BY <1>1 DEF CancellaStmt, Lecito, Fermi
  <2>2. /\ stmtVivi' = stmtVivi \ {stmt} /\ Va(w, "stmt = nullptr")
        /\ UNCHANGED <<con, stmt, conVive, usaCon, usaStmt, storia>>
    BY <1>1, <2>1 DEF CancellaStmt
  <2>3. Fermi(w)' BY <2>2 DEF Va, Fermi, PuntTypeOK
  <2>4. Lecito(w)' BY <1>1, <2>2 DEF CancellaStmt, Va, Lecito, PuntTypeOK
  <2> QED BY <2>2, <2>3, <2>4 DEF storia
<1>2. CASE AzzeraStmt(w)
  <2>0. stmt \notin stmtVivi BY <1>2 DEF AzzeraStmt, Lecito
  <2>1. ~perso' /\ ~abuso' BY <1>2, <2>0, Zenon DEF AzzeraStmt
  <2>2. Fermi(w)' BY <1>2 DEF AzzeraStmt, Va, Torna, Fermi, PuntTypeOK
  <2>4. ASSUME Va(w, "delete con") PROVE Lecito(w)'
    BY <1>2, <2>4 DEF AzzeraStmt, Va, Lecito, PuntTypeOK
  <2>5. ASSUME Torna(w, "fatto") PROVE Lecito(w)'
    BY <1>2, <2>5 DEF AzzeraStmt, Torna, Lecito, PuntTypeOK
  <2>3. Lecito(w)' BY <1>2, <2>4, <2>5 DEF AzzeraStmt
  <2> QED BY <2>1, <2>2, <2>3
<1> QED BY <1>1, <1>2

LEMMA CancellaConOrdine ==
  ASSUME PuntTypeOK, NEW w \in Worker, Ordine(w), CancellaCon(w) \/ AzzeraCon(w)
  PROVE  Ordine(w)'
<1> USE Nulli DEF Ordine, DentroCon, DentroStmt
<1>1. CASE CancellaCon(w)
  <2>1. con \in conVive \cup {0} /\ (con # 0 => \A v \in Worker : usaCon[v] # con)
    BY <1>1 DEF CancellaCon, Lecito, Fermi
  <2>2. /\ conVive' = conVive \ {con} /\ Va(w, "con = nullptr")
        /\ UNCHANGED <<con, stmt, stmtVivi, usaCon, usaStmt, storia>>
    BY <1>1, <2>1 DEF CancellaCon
  <2>3. Fermi(w)' BY <2>2 DEF Va, Fermi, PuntTypeOK
  <2>4. Lecito(w)' BY <1>1, <2>2 DEF CancellaCon, Va, Lecito, PuntTypeOK
  <2> QED BY <2>2, <2>3, <2>4 DEF storia
<1>2. CASE AzzeraCon(w)
  <2>0. con \notin conVive BY <1>2 DEF AzzeraCon, Lecito
  <2>1. ~perso' /\ ~abuso' BY <1>2, <2>0, Zenon DEF AzzeraCon
  <2>2. Fermi(w)' BY <1>2 DEF AzzeraCon, Torna, Fermi, PuntTypeOK
  <2>3. Lecito(w)' BY <1>2 DEF AzzeraCon, Torna, Lecito, PuntTypeOK
  <2> QED BY <2>1, <2>2, <2>3
<1> QED BY <1>1, <1>2

\* A worker inside finds the others outside; one outside has no access to make.
LEMMA PassoOrdine ==
  ASSUME PuntTypeOK, Sano, NEW w \in Worker, Passo(w) PROVE Sano'
<1>1. passo[w] # "fuori"
  BY DEF Passo, ControllaCon, Connette, SetSchema, SetAutoCommit, CommitCon, RollbackCon,
         EntraCon, BloccaCon, EsceCon, ControllaStmt, CreaStatement, EntraStmt, BloccaStmt,
         EsegueStmt, ChiudeStmt, Rilascia, CancellaStmt, AzzeraStmt, CancellaCon, AzzeraCon
<1>2. Ordine(w) BY <1>1 DEF Sano, Ordine, Fermi
<1>3. Ordine(w)'
  BY <1>2, ConnetteOrdine, EntraConOrdine, BloccaConOrdine, EsceConOrdine, StmtOrdine,
     EntraStmtOrdine, EsegueOrdine, RilasciaOrdine, CancellaStmtOrdine, CancellaConOrdine
    DEF Passo, SetSchema, SetAutoCommit, CommitCon, RollbackCon
<1> QED BY <1>3 DEF Sano

\* A call that begins while another is in progress is what insieme records.
LEMMA ChiamaOrdine ==
  ASSUME PuntTypeOK, Sano, NEW w \in Worker, NEW m \in Metodi, Chiama(w, m)
  PROVE  insieme' \/ Sano'
<1>1. CASE \E v \in Worker \ {w} : passo[v] # "fuori" BY <1>1, Zenon DEF Chiama
<1>2. CASE \A v \in Worker \ {w} : passo[v] = "fuori"
  <2>1. passo[w] = "fuori" BY DEF Chiama
  <2>2. Ordine(w) BY <1>2, <2>1 DEF Sano, Ordine, Fermi, Lecito, DentroCon, DentroStmt
  <2>3. Fermi(w)' BY <2>2 DEF Chiama, Ordine, Fermi, PuntTypeOK
  <2>4. Lecito(w)'
    BY <2>1, <2>2 DEF Chiama, Primo, Ordine, Lecito, DentroCon, DentroStmt, PuntTypeOK, oggetti
  <2> QED BY <2>2, <2>3, <2>4 DEF Chiama, Sano, Ordine
<1> QED BY <1>1, <1>2

-----------------------------------------------------------------------------

LEMMA PuntInizio == ASSUME PuntInit PROVE PuntInv
<1>1. PICK w \in Worker : TRUE BY CrowAssumption
<1>2. Ordine(w)
  BY DEF PuntInit, Ordine, Fermi, Lecito, DentroCon, DentroStmt
<1> QED BY <1>2, PuntInitTipi DEF PuntInv, Sano

LEMMA PuntContinua == ASSUME PuntInv, [PuntNext]_puntVars PROVE PuntInv'
<1>1. CASE UNCHANGED puntVars
  <2>1. PuntTypeOK'
    BY <1>1, Zenon DEF puntVars, oggetti, chiamate, storia, PuntInv, PuntTypeOK
  <2>2. \A w \in Worker : Ordine(w) => Ordine(w)'
    BY <1>1, Zenon DEF puntVars, oggetti, chiamate, storia, Ordine, Fermi, Lecito
  <2> QED BY <1>1, <2>1, <2>2, Zenon DEF puntVars, storia, PuntInv, Sano
<1>2. ASSUME NEW w \in Worker, Passo(w) PROVE PuntInv'
  <2>1. PuntTypeOK' BY <1>2, PassoTipi DEF PuntInv
  <2>2. insieme' = insieme
    BY <1>2 DEF Passo, ControllaCon, Connette, SetSchema, SetAutoCommit, CommitCon, RollbackCon,
         EntraCon, BloccaCon, EsceCon, ControllaStmt, CreaStatement, EntraStmt, BloccaStmt,
         EsegueStmt, ChiudeStmt, Rilascia, CancellaStmt, AzzeraStmt, CancellaCon, AzzeraCon,
         Abusa, storia
  <2> QED BY <1>2, <2>1, <2>2, PassoOrdine DEF PuntInv
<1>3. ASSUME NEW w \in Worker, NEW m \in Metodi, Chiama(w, m) PROVE PuntInv'
  <2>1. PuntTypeOK' BY <1>3, ChiamaTipi DEF PuntInv
  <2>2. insieme => insieme' BY <1>3, Zenon DEF Chiama
  <2> QED BY <1>3, <2>1, <2>2, ChiamaOrdine DEF PuntInv
<1> QED BY <1>1, <1>2, <1>3 DEF PuntNext

LEMMA PuntInvariante == PuntSpec => []PuntInv
<1>1. PuntInv /\ [PuntNext]_puntVars => PuntInv' BY PuntContinua
<1> QED BY PuntInizio, <1>1, PTL DEF PuntSpec

\* Every variable keeps its type, whatever the workers interleave: no access
\* gives con or stmt anything but nullptr or an object.
THEOREM PuntatoriTipati == PuntSpec => []PuntTypeOK
<1>1. PuntInv => PuntTypeOK BY DEF PuntInv
<1> QED BY PuntInvariante, <1>1, PTL

\* Without two workers inside DatabaseConfig at once, no call goes through a
\* null pointer or reaches a deleted object.
THEOREM NessunAbuso == PuntSpec => []AbusoSoloInsieme
<1>1. PuntInv => AbusoSoloInsieme BY DEF PuntInv, Sano, Ordine, AbusoSoloInsieme
<1> QED BY PuntInvariante, <1>1, PTL

\* Nor is a Connection or a Statement left behind.
THEOREM NienteDiPerso == PuntSpec => []PersoSoloInsieme
<1>1. PuntInv => PersoSoloInsieme BY DEF PuntInv, Sano, Ordine, PersoSoloInsieme
<1> QED BY PuntInvariante, <1>1, PTL

\* Nor does dbQuery return the result set of another query, or none.
THEOREM RisultatoDiChiChiede == PuntSpec => []RisultatoProprio
<1>1. PuntInv => RisultatoProprio
  BY DEF PuntInv, Sano, Ordine, Fermi, Lecito, RisultatoProprio
<1> QED BY PuntInvariante, <1>1, PTL
=============================================================================
