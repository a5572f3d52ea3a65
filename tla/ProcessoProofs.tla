---------------------------- MODULE ProcessoProofs ----------------------------
(***************************************************************************)
(* The process, for any number of workers and any messages.                 *)
(*                                                                          *)
(* libcurl's count of initialisations never exceeds what the requests in    *)
(* flight may hold, and it reaches zero under a handle only once            *)
(* gamesreturnValue has relied on an initialisation that is not its own.    *)
(* The result sets a handler loses are those it overwrites, and one more    *)
(* when an exception ends it.                                               *)
(***************************************************************************)
EXTENDS Processo, FiniteSetTheorems, TLAPS

\* The requests that hold an initialisation of their own: SendPythonRequest
\* after curl_global_init, gamesreturnValue after curl_easy_init.
Tenuta(w) ==
  \/ http[w] \in {"perform", "easy_cleanup", "global_cleanup"}
  \/ http[w] = "easy_init" /\ chi[w] = "SendPythonRequest"

Tenute == {w \in Worker : Tenuta(w)}

\* The two bounds meet while no gamesreturnValue has found libcurl
\* initialised: then the count is the requests that hold it, and the
\* initialisations refused handles have left behind.
CurlInv ==
  /\ CurlTypeOK
  /\ \A w \in Worker :
       /\ http[w] = "fuori" <=> chi[w] = "nessuna"
       /\ http[w] = "global_init" => chi[w] = "SendPythonRequest"
       /\ w \in maniglie <=> http[w] \in {"perform", "easy_cleanup"}
  /\ contatore <= Cardinality(Tenute) + falliti
  /\ accodata \/ Cardinality(Tenute) <= contatore
  /\ RovinaSoloAccodata

LEMMA TenuteFinite == IsFiniteSet(Tenute) /\ Cardinality(Tenute) \in Nat
BY CrowAssumption, FS_Subset, FS_CardinalityType DEF Tenute

\* A request takes an initialisation, ...
LEMMA Prende ==
  ASSUME NEW w \in Worker, w \notin Tenute, Tenute' = Tenute \cup {w}
  PROVE  Cardinality(Tenute') = Cardinality(Tenute) + 1
BY TenuteFinite, FS_AddElement

\* ... and one that gives it back.
LEMMA Rende ==
  ASSUME NEW w \in Worker, w \in Tenute, Tenute' = Tenute \ {w}
  PROVE  Cardinality(Tenute') = Cardinality(Tenute) - 1 /\ Cardinality(Tenute) >= 1
<1>1. Cardinality(Tenute \ {w}) = Cardinality(Tenute) - 1
  BY TenuteFinite, FS_RemoveElement
<1>2. Cardinality(Tenute \ {w}) \in Nat
  BY TenuteFinite, FS_RemoveElement, FS_CardinalityType
<1> QED BY <1>1, <1>2, TenuteFinite

LEMMA CurlInitInv == ASSUME CurlInit PROVE CurlInv
<1>1. Tenute = {} BY DEF CurlInit, Tenute, Tenuta
<1>2. Cardinality(Tenute) = 0 BY <1>1, FS_EmptySet
<1>3. CurlTypeOK
  <2>1. contatore \in Nat /\ falliti \in 0..MaxFalliti
    BY CurlAssumption, SMT DEF CurlInit
  <2> QED BY <2>1, Zenon DEF CurlInit, CurlTypeOK
<1>4. contatore <= Cardinality(Tenute) + falliti /\ Cardinality(Tenute) <= contatore
  BY <1>2, SMT DEF CurlInit
<1> QED BY <1>3, <1>4, Zenon DEF CurlInit, CurlInv, RovinaSoloAccodata

-----------------------------------------------------------------------------
(* One lemma per call of libcurl.                                           *)

LEMMA RichiedeInv ==
  ASSUME CurlInv, NEW w \in Worker, NEW f \in Funzioni, Richiede(w, f)
  PROVE  CurlInv'
<1>1. CurlTypeOK' BY DEF Richiede, CurlInv, CurlTypeOK, Funzioni
<1>2. Tenute' = Tenute
  BY DEF Richiede, Tenute, Tenuta, CurlInv, CurlTypeOK, Funzioni
<1>3. \A v \in Worker :
        /\ http'[v] = "fuori" <=> chi'[v] = "nessuna"
        /\ http'[v] = "global_init" => chi'[v] = "SendPythonRequest"
        /\ v \in maniglie' <=> http'[v] \in {"perform", "easy_cleanup"}
  BY DEF Richiede, CurlInv, CurlTypeOK, Funzioni
<1> QED BY <1>1, <1>2, <1>3, Zenon DEF Richiede, CurlInv, RovinaSoloAccodata

LEMMA GlobalInitInv ==
  ASSUME CurlInv, NEW w \in Worker, GlobalInit(w) PROVE CurlInv'
<1>0. contatore \in Nat /\ falliti \in Nat
  BY CurlAssumption DEF CurlInv, CurlTypeOK
<1>1. CurlTypeOK' BY <1>0 DEF GlobalInit, HttpVai, CurlInv, CurlTypeOK
<1>2. w \notin Tenute /\ Tenute' = Tenute \cup {w}
  BY DEF GlobalInit, HttpVai, Tenute, Tenuta, CurlInv, CurlTypeOK
<1>3. Cardinality(Tenute') = Cardinality(Tenute) + 1 BY <1>2, Prende
<1>4. contatore' <= Cardinality(Tenute') + falliti'
  BY <1>0, <1>3, TenuteFinite DEF GlobalInit, CurlInv
<1>5. accodata' \/ Cardinality(Tenute') <= contatore'
  <2>1. Cardinality(Tenute) <= contatore => Cardinality(Tenute') <= contatore'
    BY <1>0, <1>3, TenuteFinite, SMT DEF GlobalInit
  <2> QED BY <2>1, Zenon DEF GlobalInit, CurlInv
<1>6. \A v \in Worker :
        /\ http'[v] = "fuori" <=> chi'[v] = "nessuna"
        /\ http'[v] = "global_init" => chi'[v] = "SendPythonRequest"
        /\ v \in maniglie' <=> http'[v] \in {"perform", "easy_cleanup"}
  BY DEF GlobalInit, HttpVai, CurlInv, CurlTypeOK
<1> QED BY <1>1, <1>4, <1>5, <1>6, Zenon DEF GlobalInit, CurlInv, RovinaSoloAccodata

LEMMA EasyInitInv ==
  ASSUME CurlInv, NEW w \in Worker, EasyInit(w) PROVE CurlInv'
<1>0. contatore \in Nat /\ falliti \in Nat
  BY CurlAssumption DEF CurlInv, CurlTypeOK
<1>1. CurlTypeOK'
  <2>1. accodata' \in BOOLEAN BY Zenon DEF EasyInit
  <2>2. contatore' \in Nat BY <1>0 DEF EasyInit
  <2> QED BY <2>1, <2>2 DEF EasyInit, HttpVai, CurlInv, CurlTypeOK
<1>6. \A v \in Worker :
        /\ http'[v] = "fuori" <=> chi'[v] = "nessuna"
        /\ http'[v] = "global_init" => chi'[v] = "SendPythonRequest"
        /\ v \in maniglie' <=> http'[v] \in {"perform", "easy_cleanup"}
  BY DEF EasyInit, HttpVai, CurlInv, CurlTypeOK
<1>7. RovinaSoloAccodata' BY Zenon DEF EasyInit, CurlInv, RovinaSoloAccodata
<1>2. CASE chi[w] = "SendPythonRequest"
  <2>1. w \in Tenute /\ Tenute' = Tenute
    BY <1>2 DEF EasyInit, HttpVai, Tenute, Tenuta, CurlInv, CurlTypeOK
  <2>2. Cardinality(Tenute) >= 1
    BY <2>1, TenuteFinite, FS_EmptySet
  <2>3. contatore' <= Cardinality(Tenute') + falliti'
    BY <1>0, <2>1, <2>2, TenuteFinite DEF EasyInit, CurlInv
  <2>4. accodata' \/ Cardinality(Tenute') <= contatore'
    <3>1. Cardinality(Tenute) <= contatore => Cardinality(Tenute') <= contatore'
      BY <1>0, <2>1, TenuteFinite, SMT DEF EasyInit
    <3> QED BY <3>1, Zenon DEF EasyInit, CurlInv
  <2> QED BY <1>1, <1>6, <1>7, <2>3, <2>4, Zenon DEF CurlInv
<1>3. CASE chi[w] = "gamesreturnValue"
  <2>1. w \notin Tenute /\ Tenute' = Tenute \cup {w}
    BY <1>3 DEF EasyInit, HttpVai, Tenute, Tenuta, CurlInv, CurlTypeOK
  <2>2. Cardinality(Tenute') = Cardinality(Tenute) + 1 BY <2>1, Prende
  <2>3. contatore' <= Cardinality(Tenute') + falliti'
    BY <1>0, <2>2, TenuteFinite DEF EasyInit, CurlInv
  <2>4. accodata' \/ Cardinality(Tenute') <= contatore'
    <3>1. CASE contatore # 0 BY <1>3, <3>1, Zenon DEF EasyInit
    <3>2. CASE contatore = 0
      <4>1. Cardinality(Tenute) <= contatore => Cardinality(Tenute') <= contatore'
        BY <2>2, <3>2, TenuteFinite, SMT DEF EasyInit
      <4> QED BY <4>1, Zenon DEF EasyInit, CurlInv
    <3> QED BY <3>1, <3>2
  <2> QED BY <1>1, <1>6, <1>7, <2>3, <2>4, Zenon DEF CurlInv
<1> QED BY <1>2, <1>3 DEF EasyInit, CurlInv, CurlTypeOK, Funzioni

LEMMA EasyInitNulloInv ==
  ASSUME CurlInv, NEW w \in Worker, EasyInitNullo(w) PROVE CurlInv'
<1>0. contatore \in Nat /\ falliti \in Nat
  BY CurlAssumption DEF CurlInv, CurlTypeOK
<1>1. CurlTypeOK'
  BY <1>0, CurlAssumption DEF EasyInitNullo, HttpTorna, CurlInv, CurlTypeOK
<1>6. \A v \in Worker :
        /\ http'[v] = "fuori" <=> chi'[v] = "nessuna"
        /\ http'[v] = "global_init" => chi'[v] = "SendPythonRequest"
        /\ v \in maniglie' <=> http'[v] \in {"perform", "easy_cleanup"}
  BY DEF EasyInitNullo, HttpTorna, CurlInv, CurlTypeOK
<1>7. RovinaSoloAccodata' BY Zenon DEF EasyInitNullo, CurlInv, RovinaSoloAccodata
<1>2. /\ contatore' <= Cardinality(Tenute') + falliti'
      /\ Cardinality(Tenute) <= contatore => Cardinality(Tenute') <= contatore'
  <2>1. CASE chi[w] = "SendPythonRequest"
    <3>1. w \in Tenute /\ Tenute' = Tenute \ {w}
      BY <2>1 DEF EasyInitNullo, HttpTorna, Tenute, Tenuta, CurlInv, CurlTypeOK
    <3>2. Cardinality(Tenute') = Cardinality(Tenute) - 1 /\ Cardinality(Tenute) >= 1
      BY <3>1, Rende
    <3> QED BY <1>0, <3>2, TenuteFinite, SMT DEF EasyInitNullo, CurlInv
  <2>2. CASE chi[w] # "SendPythonRequest"
    <3>1. Tenute' = Tenute
      BY <2>2 DEF EasyInitNullo, HttpTorna, Tenute, Tenuta, CurlInv, CurlTypeOK
    <3> QED BY <1>0, <3>1, TenuteFinite, SMT DEF EasyInitNullo, CurlInv
  <2> QED BY <2>1, <2>2
<1>3. accodata' \/ Cardinality(Tenute') <= contatore'
  BY <1>2, Zenon DEF EasyInitNullo, CurlInv
<1> QED BY <1>1, <1>2, <1>3, <1>6, <1>7, Zenon DEF CurlInv

\* Inside curl_easy_perform and curl_easy_cleanup nothing is taken or given.
LEMMA InCorsoInv ==
  ASSUME CurlInv, NEW w \in Worker, Risposta(w) \/ EasyCleanup(w) PROVE CurlInv'
<1>1. CurlTypeOK' BY DEF Risposta, EasyCleanup, HttpVai, CurlInv, CurlTypeOK
<1>2. Tenute' = Tenute
  BY DEF Risposta, EasyCleanup, HttpVai, Tenute, Tenuta, CurlInv, CurlTypeOK
<1>3. \A v \in Worker :
        /\ http'[v] = "fuori" <=> chi'[v] = "nessuna"
        /\ http'[v] = "global_init" => chi'[v] = "SendPythonRequest"
        /\ v \in maniglie' <=> http'[v] \in {"perform", "easy_cleanup"}
  BY DEF Risposta, EasyCleanup, HttpVai, CurlInv, CurlTypeOK
<1>4. UNCHANGED <<contatore, falliti, rovinata, accodata>>
  BY DEF Risposta, EasyCleanup
<1> QED BY <1>1, <1>2, <1>3, <1>4, Zenon DEF CurlInv, RovinaSoloAccodata

LEMMA GlobalCleanupInv ==
  ASSUME CurlInv, NEW w \in Worker, GlobalCleanup(w) PROVE CurlInv'
<1>0. contatore \in Nat /\ falliti \in Nat
  BY CurlAssumption DEF CurlInv, CurlTypeOK
<1>1. CurlTypeOK'
  <2>1. rovinata' \in BOOLEAN BY Zenon DEF GlobalCleanup
  <2>2. contatore' \in Nat BY <1>0 DEF GlobalCleanup
  <2> QED BY <2>1, <2>2 DEF GlobalCleanup, HttpTorna, CurlInv, CurlTypeOK
<1>2. w \in Tenute /\ Tenute' = Tenute \ {w}
  BY DEF GlobalCleanup, HttpTorna, Tenute, Tenuta, CurlInv, CurlTypeOK
<1>3. Cardinality(Tenute') = Cardinality(Tenute) - 1 /\ Cardinality(Tenute) >= 1
  BY <1>2, Rende
<1>4. contatore' <= Cardinality(Tenute') + falliti'
  BY <1>0, <1>3, TenuteFinite, SMT DEF GlobalCleanup, CurlInv
<1>5. accodata' \/ Cardinality(Tenute') <= contatore'
  <2>1. Cardinality(Tenute) <= contatore => Cardinality(Tenute') <= contatore'
    BY <1>0, <1>3, TenuteFinite, SMT DEF GlobalCleanup
  <2> QED BY <2>1, Zenon DEF GlobalCleanup, CurlInv
<1>6. \A v \in Worker :
        /\ http'[v] = "fuori" <=> chi'[v] = "nessuna"
        /\ http'[v] = "global_init" => chi'[v] = "SendPythonRequest"
        /\ v \in maniglie' <=> http'[v] \in {"perform", "easy_cleanup"}
  BY DEF GlobalCleanup, HttpTorna, CurlInv, CurlTypeOK
\* The last initialisation is the one of w, and no other request has a handle.
<1>7. RovinaSoloAccodata'
  <2>1. ASSUME contatore = 1, Cardinality(Tenute) <= contatore PROVE maniglie = {}
    <3>1. Cardinality(Tenute') = 0 BY <1>3, <2>1, TenuteFinite
    <3>2. IsFiniteSet(Tenute') BY <1>2, TenuteFinite, FS_RemoveElement
    <3>3. Tenute \ {w} = {} BY <1>2, <3>1, <3>2, FS_EmptySet
    <3> QED BY <3>3 DEF Tenute, Tenuta, GlobalCleanup, CurlInv, CurlTypeOK
  <2> QED BY <2>1, Zenon DEF GlobalCleanup, CurlInv, RovinaSoloAccodata
<1> QED BY <1>1, <1>4, <1>5, <1>6, <1>7, Zenon DEF CurlInv

LEMMA CurlNextInv == ASSUME CurlInv, [CurlNext]_curlVars PROVE CurlInv'
<1>1. CASE UNCHANGED curlVars
  <2>1. Tenute' = Tenute BY <1>1 DEF curlVars, Tenute, Tenuta
  <2> QED BY <1>1, <2>1, Zenon DEF curlVars, CurlInv, CurlTypeOK, RovinaSoloAccodata
<1>2. ASSUME NEW w \in Worker, CurlPasso(w) \/ \E f \in Funzioni : Richiede(w, f)
      PROVE  CurlInv'
  BY <1>2, RichiedeInv, GlobalInitInv, EasyInitInv, EasyInitNulloInv, InCorsoInv,
     GlobalCleanupInv DEF CurlPasso, CurlLavora
<1> QED BY <1>1, <1>2 DEF CurlNext

-----------------------------------------------------------------------------
(* The process uses libcurl only through the two functions.                 *)

LEMMA ProcessoCurl == ASSUME [Next]_vars PROVE [CurlNext]_curlVars
<1>1. CASE UNCHANGED vars BY <1>1 DEF vars
<1>2. ASSUME NEW w \in Worker, Riceve(w) \/ Lavora(w) \/ PythonRisponde(w)
      PROVE  [CurlNext]_curlVars
  <2>1. CASE Riceve(w) BY <2>1 DEF Riceve
  <2>2. CASE Interroga(w) \/ Chiama(w) \/ CancellaRes(w) \/ ForseFine(w)
    BY <2>2 DEF Interroga, Chiama, CancellaRes, ForseFine, curlVars
  <2>3. CASE IniziaHttp(w) \/ DentroHttp(w) \/ PythonRisponde(w)
    BY <2>3 DEF IniziaHttp, DentroHttp, PythonRisponde, CurlPasso, CurlNext
  <2> QED BY <1>2, <2>1, <2>2, <2>3 DEF Lavora
<1> QED BY <1>1, <1>2 DEF Next

LEMMA CurlInvariante == Spec => []CurlInv
<1>1. Init => CurlInv BY CurlInitInv DEF Init
<1>2. CurlInv /\ [Next]_vars => CurlInv' BY CurlNextInv, ProcessoCurl
<1> QED BY <1>1, <1>2, PTL DEF Spec

\* libcurl's count never exceeds the requests in flight and the handles
\* curl_easy_init refused, however many workers there are.
THEOREM ContoDiLibcurl == Spec => []ContatoreLimitato
<1>1. CurlInv => ContatoreLimitato
  <2> SUFFICES ASSUME CurlInv PROVE ContatoreLimitato OBVIOUS
  <2>1. Tenute \subseteq InVolo BY DEF Tenute, Tenuta, InVolo
  <2>2. IsFiniteSet(InVolo) BY CrowAssumption, FS_Subset DEF InVolo
  <2>3. Cardinality(Tenute) <= Cardinality(InVolo) /\ Cardinality(InVolo) \in Nat
    BY <2>1, <2>2, FS_Subset, FS_CardinalityType
  <2> QED BY <2>3, TenuteFinite, CurlAssumption DEF CurlInv, CurlTypeOK, ContatoreLimitato
<1> QED BY CurlInvariante, <1>1, PTL

\* SendPythonRequest alone, however many at once, never has libcurl freed
\* under a handle: that takes a gamesreturnValue beside another request.
THEOREM RovinaSoloPerGames == Spec => []RovinaSoloAccodata
<1>1. CurlInv => RovinaSoloAccodata BY DEF CurlInv
<1> QED BY CurlInvariante, <1>1, PTL

-----------------------------------------------------------------------------
(* The result sets of a handler: where its next instruction is tells how    *)
(* many it has been given and has not deleted.                              *)

\* How many before each instruction of Programma(op).
Avuti(op) ==
  CASE op = "login" -> <<0, 1, 1, 0, 0, 0, 1, 1, 0>>
    [] op \in {"visualizza_lobby_id", "visualizza_utente"} -> <<0, 1, 1, 1>>
    [] op = "visualizza_lobby" -> <<0, 1, 1, 2, 2, 3, 3, 3>>
    [] op = "partecipa_lobby" -> <<0, 1, 1, 1, 2, 2>>
    [] op \in {"aggiungi_utente", "elimina_utente", "elimina_lobby"} -> <<0, 1, 1>>
    [] op = "inserisci_lobby" -> <<0, 0, 1, 1, 2, 2, 2, 3, 3, 3, 4, 4, 4>>
    [] op = "grafico" -> <<0, 1, 1, 1, 0>>
    [] op \in {"csstats", "lolstats", "tftstats"} -> <<0, 0, 0, 1, 1, 0, 0, 0, 1, 0>>
    [] op = "registrazione" -> <<0, 1, 0>>

\* A worker that has no message, or only the catch block left of one.
Liberi == {"libero", "inserisci_lobby_catch"}

ResTipi ==
  /\ msg \in [Worker -> Ops \cup Liberi]
  /\ ip \in [Worker -> Nat]
  /\ res \in [Worker -> Int]

\* Between the two instructions of a request nothing of the handler moves.
ResDi(w) ==
  /\ msg[w] \in Liberi => ip[w] = 1
  /\ msg[w] \in Ops => ip[w] \in 1..Len(Programma(msg[w])) /\ res[w] = Avuti(msg[w])[ip[w]]
  /\ http[w] # "fuori" => msg[w] \in Ops /\ Istruzione(w) \in Funzioni

ResInv == ResTipi /\ \A w \in Worker : ResDi(w)

\* The instruction at i of op leaves m result sets: so many the next one finds,
\* or the handler overwrites.
Lascia(op, i, m) ==
  /\ i # Len(Programma(op)) => Avuti(op)[i + 1] = m
  /\ i = Len(Programma(op)) => Sovrascritti(op) = m

\* The programs and their tables agree, instruction by instruction; a branch
\* that ends a handler early is taken with what it would end with.
Conto(op) ==
  /\ Len(Programma(op)) \in 1..13 /\ Sovrascritti(op) \in 0..3
  /\ Avuti(op)[1] = 0
  /\ \A i \in 1..Len(Programma(op)) :
       LET x == Programma(op)[i]
           n == Avuti(op)[i] IN
       /\ n \in 0..(Sovrascritti(op) + 1)
       /\ x \in {"SELECT", "INSERT"} => Lascia(op, i, n + 1)
       /\ x = "delete_res" => Lascia(op, i, n - 1)
       /\ x \notin {"SELECT", "INSERT", "delete_res"} => Lascia(op, i, n)
       /\ x = "forse_fine" => n = Sovrascritti(op)

LEMMA Posizioni ==
  \A i \in 1..13 : \/ i = 1 \/ i = 2 \/ i = 3 \/ i = 4 \/ i = 5 \/ i = 6 \/ i = 7
                   \/ i = 8 \/ i = 9 \/ i = 10 \/ i = 11 \/ i = 12 \/ i = 13
OBVIOUS

\* A program P of n instructions, the result sets A before each and S after the last.
Tabella(P, A, S, n) ==
  /\ S \in 0..3 /\ n \in 1..13 /\ Len(P) = n /\ A[1] = 0
  /\ \A i \in 1..n : A[i] \in 0..(S + 1)
  /\ \A i \in 1..n : P[i] \in {"SELECT", "INSERT"} =>
       (i # n => A[i + 1] = A[i] + 1) /\ (i = n => A[i] + 1 = S)
  /\ \A i \in 1..n : P[i] = "delete_res" =>
       (i # n => A[i + 1] = A[i] - 1) /\ (i = n => A[i] - 1 = S)
  /\ \A i \in 1..n : P[i] \notin {"SELECT", "INSERT", "delete_res"} =>
       (i # n => A[i + 1] = A[i]) /\ (i = n => A[i] = S)
  /\ \A i \in 1..n : P[i] = "forse_fine" => A[i] = S

LEMMA ContoPer ==
  ASSUME NEW op, NEW n, Tabella(Programma(op), Avuti(op), Sovrascritti(op), n)
  PROVE  Conto(op)
BY DEF Conto, Lascia, Tabella

\* One lemma per program.
LEMMA ContoLogin == Conto("login")
<1> DEFINE P == <<"SELECT", "leggi", "delete_res", "ClearConnection", "forse_fine",
                  "SELECT", "leggi", "delete_res", "ClearConnection">>
           A == <<0, 1, 1, 0, 0, 0, 1, 1, 0>>
<1>1. Programma("login") = P BY Zenon DEF Programma
<1>2. Avuti("login") = A /\ Sovrascritti("login") = 0 BY Zenon DEF Avuti, Sovrascritti
<1>3. Len(P) = 9 /\ P[1] = "SELECT" /\ P[2] = "leggi" /\ P[3] = "delete_res" /\
        P[4] = "ClearConnection" /\ P[5] = "forse_fine" /\ P[6] = "SELECT" /\
        P[7] = "leggi" /\ P[8] = "delete_res" /\ P[9] = "ClearConnection"
  OBVIOUS
<1>4. A[1] = 0 /\ A[2] = 1 /\ A[3] = 1 /\ A[4] = 0 /\ A[5] = 0 /\ A[6] = 0 /\
      A[7] = 1 /\ A[8] = 1 /\ A[9] = 0
  OBVIOUS
<1> HIDE DEF P, A
<1>5. ASSUME NEW i \in 1..9 PROVE A[i] \in 0..1
  BY <1>4, Posizioni, SMT
<1>6. ASSUME NEW i \in 1..9, P[i] \in {"SELECT", "INSERT"}
      PROVE  (i # 9 => A[i + 1] = A[i] + 1) /\ (i = 9 => A[i] + 1 = 0)
  <2>1. i = 1 \/ i = 6 BY <1>6, <1>3, Posizioni
  <2> QED BY <2>1, <1>3, <1>4
<1>7. ASSUME NEW i \in 1..9, P[i] = "delete_res"
      PROVE  (i # 9 => A[i + 1] = A[i] - 1) /\ (i = 9 => A[i] - 1 = 0)
  <2>1. i = 3 \/ i = 8 BY <1>7, <1>3, Posizioni
  <2> QED BY <2>1, <1>3, <1>4
<1>8. ASSUME NEW i \in 1..9, P[i] \notin {"SELECT", "INSERT", "delete_res"}
      PROVE  (i # 9 => A[i + 1] = A[i]) /\ (i = 9 => A[i] = 0)
             /\ (P[i] = "forse_fine" => A[i] = 0)
  <2>1. i = 2 \/ i = 4 \/ i = 5 \/ i = 7 \/ i = 9 BY <1>8, <1>3, Posizioni
  <2> QED BY <2>1, <1>3, <1>4
<1>9. Tabella(P, A, 0, 9) BY <1>3, <1>4, <1>5, <1>6, <1>7, <1>8 DEF Tabella
<1> QED BY <1>1, <1>2, <1>9, ContoPer, Zenon

LEMMA ContoLegge ==
  ASSUME NEW op \in {"visualizza_lobby_id", "visualizza_utente"} PROVE Conto(op)
<1> DEFINE P == Legge
           A == <<0, 1, 1, 1>>
<1>1. Programma(op) = P BY Zenon DEF Programma
<1>2. Avuti(op) = A /\ Sovrascritti(op) = 0 BY Zenon DEF Avuti, Sovrascritti
<1>3. Len(P) = 4 /\ P[1] = "SELECT" /\ P[2] = "leggi" /\ P[3] = "ClearConnection" /\
        P[4] = "delete_res"
  BY DEF Legge
<1>4. A[1] = 0 /\ A[2] = 1 /\ A[3] = 1 /\ A[4] = 1
  OBVIOUS
<1> HIDE DEF P, A
<1>5. ASSUME NEW i \in 1..4 PROVE A[i] \in 0..1
  BY <1>4, Posizioni, SMT
<1>6. ASSUME NEW i \in 1..4, P[i] \in {"SELECT", "INSERT"}
      PROVE  (i # 4 => A[i + 1] = A[i] + 1) /\ (i = 4 => A[i] + 1 = 0)
  <2>1. i = 1 BY <1>6, <1>3, Posizioni
  <2> QED BY <2>1, <1>3, <1>4
<1>7. ASSUME NEW i \in 1..4, P[i] = "delete_res"
      PROVE  (i # 4 => A[i + 1] = A[i] - 1) /\ (i = 4 => A[i] - 1 = 0)
  <2>1. i = 4 BY <1>7, <1>3, Posizioni
  <2> QED BY <2>1, <1>3, <1>4
<1>8. ASSUME NEW i \in 1..4, P[i] \notin {"SELECT", "INSERT", "delete_res"}
      PROVE  (i # 4 => A[i + 1] = A[i]) /\ (i = 4 => A[i] = 0)
             /\ (P[i] = "forse_fine" => A[i] = 0)
  <2>1. i = 2 \/ i = 3 BY <1>8, <1>3, Posizioni
  <2> QED BY <2>1, <1>3, <1>4
<1>9. Tabella(P, A, 0, 4) BY <1>3, <1>4, <1>5, <1>6, <1>7, <1>8 DEF Tabella
<1> QED BY <1>1, <1>2, <1>9, ContoPer, Zenon

LEMMA ContoVisualizzaLobby == Conto("visualizza_lobby")
<1> DEFINE P == <<"SELECT", "leggi", "SELECT", "leggi">> \o Legge
           A == <<0, 1, 1, 2, 2, 3, 3, 3>>
<1>1. Programma("visualizza_lobby") = P BY Zenon DEF Programma
<1>2. Avuti("visualizza_lobby") = A /\ Sovrascritti("visualizza_lobby") = 2 BY Zenon DEF Avuti, Sovrascritti
<1>3. Len(P) = 8 /\ P[1] = "SELECT" /\ P[2] = "leggi" /\ P[3] = "SELECT" /\
        P[4] = "leggi" /\ P[5] = "SELECT" /\ P[6] = "leggi" /\
        P[7] = "ClearConnection" /\ P[8] = "delete_res"
  BY DEF Legge
<1>4. A[1] = 0 /\ A[2] = 1 /\ A[3] = 1 /\ A[4] = 2 /\ A[5] = 2 /\ A[6] = 3 /\
      A[7] = 3 /\ A[8] = 3
  OBVIOUS
<1> HIDE DEF P, A
<1>5. ASSUME NEW i \in 1..8 PROVE A[i] \in 0..3
  BY <1>4, Posizioni, SMT
<1>6. ASSUME NEW i \in 1..8, P[i] \in {"SELECT", "INSERT"}
      PROVE  (i # 8 => A[i + 1] = A[i] + 1) /\ (i = 8 => A[i] + 1 = 2)
  <2>1. i = 1 \/ i = 3 \/ i = 5 BY <1>6, <1>3, Posizioni
  <2> QED BY <2>1, <1>3, <1>4
<1>7. ASSUME NEW i \in 1..8, P[i] = "delete_res"
      PROVE  (i # 8 => A[i + 1] = A[i] - 1) /\ (i = 8 => A[i] - 1 = 2)
  <2>1. i = 8 BY <1>7, <1>3, Posizioni
  <2> QED BY <2>1, <1>3, <1>4
<1>8. ASSUME NEW i \in 1..8, P[i] \notin {"SELECT", "INSERT", "delete_res"}
      PROVE  (i # 8 => A[i + 1] = A[i]) /\ (i = 8 => A[i] = 2)
             /\ (P[i] = "forse_fine" => A[i] = 2)
  <2>1. i = 2 \/ i = 4 \/ i = 6 \/ i = 7 BY <1>8, <1>3, Posizioni
  <2> QED BY <2>1, <1>3, <1>4
<1>9. Tabella(P, A, 2, 8) BY <1>3, <1>4, <1>5, <1>6, <1>7, <1>8 DEF Tabella
<1> QED BY <1>1, <1>2, <1>9, ContoPer, Zenon

LEMMA ContoPartecipaLobby == Conto("partecipa_lobby")
<1> DEFINE P == <<"SELECT", "leggi", "ClearConnection">> \o Scrive
           A == <<0, 1, 1, 1, 2, 2>>
<1>1. Programma("partecipa_lobby") = P BY Zenon DEF Programma
<1>2. Avuti("partecipa_lobby") = A /\ Sovrascritti("partecipa_lobby") = 1 BY Zenon DEF Avuti, Sovrascritti
<1>3. Len(P) = 6 /\ P[1] = "SELECT" /\ P[2] = "leggi" /\ P[3] = "ClearConnection" /\
        P[4] = "INSERT" /\ P[5] = "ClearConnection" /\ P[6] = "delete_res"
  BY DEF Scrive
<1>4. A[1] = 0 /\ A[2] = 1 /\ A[3] = 1 /\ A[4] = 1 /\ A[5] = 2 /\ A[6] = 2
  OBVIOUS
<1> HIDE DEF P, A
<1>5. ASSUME NEW i \in 1..6 PROVE A[i] \in 0..2
  BY <1>4, Posizioni, SMT
<1>6. ASSUME NEW i \in 1..6, P[i] \in {"SELECT", "INSERT"}
      PROVE  (i # 6 => A[i + 1] = A[i] + 1) /\ (i = 6 => A[i] + 1 = 1)
  <2>1. i = 1 \/ i = 4 BY <1>6, <1>3, Posizioni
  <2> QED BY <2>1, <1>3, <1>4
<1>7. ASSUME NEW i \in 1..6, P[i] = "delete_res"
      PROVE  (i # 6 => A[i + 1] = A[i] - 1) /\ (i = 6 => A[i] - 1 = 1)
  <2>1. i = 6 BY <1>7, <1>3, Posizioni
  <2> QED BY <2>1, <1>3, <1>4
<1>8. ASSUME NEW i \in 1..6, P[i] \notin {"SELECT", "INSERT", "delete_res"}
      PROVE  (i # 6 => A[i + 1] = A[i]) /\ (i = 6 => A[i] = 1)
             /\ (P[i] = "forse_fine" => A[i] = 1)
  <2>1. i = 2 \/ i = 3 \/ i = 5 BY <1>8, <1>3, Posizioni
  <2> QED BY <2>1, <1>3, <1>4
<1>9. Tabella(P, A, 1, 6) BY <1>3, <1>4, <1>5, <1>6, <1>7, <1>8 DEF Tabella
<1> QED BY <1>1, <1>2, <1>9, ContoPer, Zenon

LEMMA ContoScrive ==
  ASSUME NEW op \in {"aggiungi_utente", "elimina_utente", "elimina_lobby"} PROVE Conto(op)
<1> DEFINE P == Scrive
           A == <<0, 1, 1>>
<1>1. Programma(op) = P BY Zenon DEF Programma
<1>2. Avuti(op) = A /\ Sovrascritti(op) = 0 BY Zenon DEF Avuti, Sovrascritti
<1>3. Len(P) = 3 /\ P[1] = "INSERT" /\ P[2] = "ClearConnection" /\ P[3] = "delete_res"
  BY DEF Scrive
<1>4. A[1] = 0 /\ A[2] = 1 /\ A[3] = 1
  OBVIOUS
<1> HIDE DEF P, A
<1>5. ASSUME NEW i \in 1..3 PROVE A[i] \in 0..1
  BY <1>4, Posizioni, SMT
<1>6. ASSUME NEW i \in 1..3, P[i] \in {"SELECT", "INSERT"}
      PROVE  (i # 3 => A[i + 1] = A[i] + 1) /\ (i = 3 => A[i] + 1 = 0)
  <2>1. i = 1 BY <1>6, <1>3, Posizioni
  <2> QED BY <2>1, <1>3, <1>4
<1>7. ASSUME NEW i \in 1..3, P[i] = "delete_res"
      PROVE  (i # 3 => A[i + 1] = A[i] - 1) /\ (i = 3 => A[i] - 1 = 0)
  <2>1. i = 3 BY <1>7, <1>3, Posizioni
  <2> QED BY <2>1, <1>3, <1>4
<1>8. ASSUME NEW i \in 1..3, P[i] \notin {"SELECT", "INSERT", "delete_res"}
      PROVE  (i # 3 => A[i + 1] = A[i]) /\ (i = 3 => A[i] = 0)
             /\ (P[i] = "forse_fine" => A[i] = 0)
  <2>1. i = 2 BY <1>8, <1>3, Posizioni
  <2> QED BY <2>1, <1>3, <1>4
<1>9. Tabella(P, A, 0, 3) BY <1>3, <1>4, <1>5, <1>6, <1>7, <1>8 DEF Tabella
<1> QED BY <1>1, <1>2, <1>9, ContoPer, Zenon

LEMMA ContoInserisciLobby == Conto("inserisci_lobby")
<1> DEFINE P == <<"Commit", "INSERT", "ClearConnection_1", "SELECT", "leggi",
                  "ClearConnection_1", "SELECT", "leggi", "ClearConnection_1",
                  "INSERT", "Commit", "ClearConnection", "delete_res">>
           A == <<0, 0, 1, 1, 2, 2, 2, 3, 3, 3, 4, 4, 4>>
<1>1. Programma("inserisci_lobby") = P BY Zenon DEF Programma
<1>2. Avuti("inserisci_lobby") = A /\ Sovrascritti("inserisci_lobby") = 3 BY Zenon DEF Avuti, Sovrascritti
<1>3. Len(P) = 13 /\ P[1] = "Commit" /\ P[2] = "INSERT" /\
        P[3] = "ClearConnection_1" /\ P[4] = "SELECT" /\ P[5] = "leggi" /\
        P[6] = "ClearConnection_1" /\ P[7] = "SELECT" /\ P[8] = "leggi" /\
        P[9] = "ClearConnection_1" /\ P[10] = "INSERT" /\ P[11] = "Commit" /\
        P[12] = "ClearConnection" /\ P[13] = "delete_res"
  OBVIOUS
<1>4. A[1] = 0 /\ A[2] = 0 /\ A[3] = 1 /\ A[4] = 1 /\ A[5] = 2 /\ A[6] = 2 /\
      A[7] = 2 /\ A[8] = 3 /\ A[9] = 3 /\ A[10] = 3 /\ A[11] = 4 /\ A[12] = 4 /\
      A[13] = 4
  OBVIOUS
<1> HIDE DEF P, A
<1>5. ASSUME NEW i \in 1..13 PROVE A[i] \in 0..4
  BY <1>4, Posizioni, SMT
<1>6. ASSUME NEW i \in 1..13, P[i] \in {"SELECT", "INSERT"}
      PROVE  (i # 13 => A[i + 1] = A[i] + 1) /\ (i = 13 => A[i] + 1 = 3)
  <2>1. i = 2 \/ i = 4 \/ i = 7 \/ i = 10 BY <1>6, <1>3, Posizioni
  <2> QED BY <2>1, <1>3, <1>4
<1>7. ASSUME NEW i \in 1..13, P[i] = "delete_res"
      PROVE  (i # 13 => A[i + 1] = A[i] - 1) /\ (i = 13 => A[i] - 1 = 3)
  <2>1. i = 13 BY <1>7, <1>3, Posizioni
  <2> QED BY <2>1, <1>3, <1>4
<1>8. ASSUME NEW i \in 1..13, P[i] \notin {"SELECT", "INSERT", "delete_res"}
      PROVE  (i # 13 => A[i + 1] = A[i]) /\ (i = 13 => A[i] = 3)
             /\ (P[i] = "forse_fine" => A[i] = 3)
  <2>1. i = 1 \/ i = 3 \/ i = 5 \/ i = 6 \/ i = 8 \/ i = 9 \/ i = 11 \/ i = 12 BY <1>8, <1>3, Posizioni
  <2> QED BY <2>1, <1>3, <1>4
<1>9. Tabella(P, A, 3, 13) BY <1>3, <1>4, <1>5, <1>6, <1>7, <1>8 DEF Tabella
<1> QED BY <1>1, <1>2, <1>9, ContoPer, Zenon

LEMMA ContoGrafico == Conto("grafico")
<1> DEFINE P == Legge \o <<"SendPythonRequest">>
           A == <<0, 1, 1, 1, 0>>
<1>1. Programma("grafico") = P BY Zenon DEF Programma
<1>2. Avuti("grafico") = A /\ Sovrascritti("grafico") = 0 BY Zenon DEF Avuti, Sovrascritti
<1>3. Len(P) = 5 /\ P[1] = "SELECT" /\ P[2] = "leggi" /\ P[3] = "ClearConnection" /\
        P[4] = "delete_res" /\ P[5] = "SendPythonRequest"
  BY DEF Legge
<1>4. A[1] = 0 /\ A[2] = 1 /\ A[3] = 1 /\ A[4] = 1 /\ A[5] = 0
  OBVIOUS
<1> HIDE DEF P, A
<1>5. ASSUME NEW i \in 1..5 PROVE A[i] \in 0..1
  BY <1>4, Posizioni, SMT
<1>6. ASSUME NEW i \in 1..5, P[i] \in {"SELECT", "INSERT"}
      PROVE  (i # 5 => A[i + 1] = A[i] + 1) /\ (i = 5 => A[i] + 1 = 0)
  <2>1. i = 1 BY <1>6, <1>3, Posizioni
  <2> QED BY <2>1, <1>3, <1>4
<1>7. ASSUME NEW i \in 1..5, P[i] = "delete_res"
      PROVE  (i # 5 => A[i + 1] = A[i] - 1) /\ (i = 5 => A[i] - 1 = 0)
  <2>1. i = 4 BY <1>7, <1>3, Posizioni
  <2> QED BY <2>1, <1>3, <1>4
<1>8. ASSUME NEW i \in 1..5, P[i] \notin {"SELECT", "INSERT", "delete_res"}
      PROVE  (i # 5 => A[i + 1] = A[i]) /\ (i = 5 => A[i] = 0)
             /\ (P[i] = "forse_fine" => A[i] = 0)
  <2>1. i = 2 \/ i = 3 \/ i = 5 BY <1>8, <1>3, Posizioni
  <2> QED BY <2>1, <1>3, <1>4
<1>9. Tabella(P, A, 0, 5) BY <1>3, <1>4, <1>5, <1>6, <1>7, <1>8 DEF Tabella
<1> QED BY <1>1, <1>2, <1>9, ContoPer, Zenon

LEMMA ContoStats ==
  ASSUME NEW op \in {"csstats", "lolstats", "tftstats"} PROVE Conto(op)
<1> DEFINE P == Stats
           A == <<0, 0, 0, 1, 1, 0, 0, 0, 1, 0>>
<1>1. Programma(op) = P BY Zenon DEF Programma
<1>2. Avuti(op) = A /\ Sovrascritti(op) = 0 BY Zenon DEF Avuti, Sovrascritti
<1>3. Len(P) = 10 /\ P[1] = "gamesreturnValue" /\ P[2] = "forse_fine" /\
        P[3] = "SELECT" /\ P[4] = "leggi" /\ P[5] = "delete_res" /\
        P[6] = "ClearConnection" /\ P[7] = "forse_fine" /\ P[8] = "INSERT" /\
        P[9] = "delete_res" /\ P[10] = "ClearConnection"
  BY DEF Stats
<1>4. A[1] = 0 /\ A[2] = 0 /\ A[3] = 0 /\ A[4] = 1 /\ A[5] = 1 /\ A[6] = 0 /\
      A[7] = 0 /\ A[8] = 0 /\ A[9] = 1 /\ A[10] = 0
  OBVIOUS
<1> HIDE DEF P, A
<1>5. ASSUME NEW i \in 1..10 PROVE A[i] \in 0..1
  BY <1>4, Posizioni, SMT
<1>6. ASSUME NEW i \in 1..10, P[i] \in {"SELECT", "INSERT"}
      PROVE  (i # 10 => A[i + 1] = A[i] + 1) /\ (i = 10 => A[i] + 1 = 0)
  <2>1. i = 3 \/ i = 8 BY <1>6, <1>3, Posizioni
  <2> QED BY <2>1, <1>3, <1>4
<1>7. ASSUME NEW i \in 1..10, P[i] = "delete_res"
      PROVE  (i # 10 => A[i + 1] = A[i] - 1) /\ (i = 10 => A[i] - 1 = 0)
  <2>1. i = 5 \/ i = 9 BY <1>7, <1>3, Posizioni
  <2> QED BY <2>1, <1>3, <1>4
<1>8. ASSUME NEW i \in 1..10, P[i] \notin {"SELECT", "INSERT", "delete_res"}
      PROVE  (i # 10 => A[i + 1] = A[i]) /\ (i = 10 => A[i] = 0)
             /\ (P[i] = "forse_fine" => A[i] = 0)
  <2>1. i = 1 \/ i = 2 \/ i = 4 \/ i = 6 \/ i = 7 \/ i = 10 BY <1>8, <1>3, Posizioni
  <2> QED BY <2>1, <1>3, <1>4
<1>9. Tabella(P, A, 0, 10) BY <1>3, <1>4, <1>5, <1>6, <1>7, <1>8 DEF Tabella
<1> QED BY <1>1, <1>2, <1>9, ContoPer, Zenon

LEMMA ContoRegistrazione == Conto("registrazione")
<1> DEFINE P == <<"INSERT", "delete_res", "ClearConnection">>
           A == <<0, 1, 0>>
<1>1. Programma("registrazione") = P BY Zenon DEF Programma
<1>2. Avuti("registrazione") = A /\ Sovrascritti("registrazione") = 0 BY Zenon DEF Avuti, Sovrascritti
<1>3. Len(P) = 3 /\ P[1] = "INSERT" /\ P[2] = "delete_res" /\ P[3] = "ClearConnection"
  OBVIOUS
<1>4. A[1] = 0 /\ A[2] = 1 /\ A[3] = 0
  OBVIOUS
<1> HIDE DEF P, A
<1>5. ASSUME NEW i \in 1..3 PROVE A[i] \in 0..1
  BY <1>4, Posizioni, SMT
<1>6. ASSUME NEW i \in 1..3, P[i] \in {"SELECT", "INSERT"}
      PROVE  (i # 3 => A[i + 1] = A[i] + 1) /\ (i = 3 => A[i] + 1 = 0)
  <2>1. i = 1 BY <1>6, <1>3, Posizioni
  <2> QED BY <2>1, <1>3, <1>4
<1>7. ASSUME NEW i \in 1..3, P[i] = "delete_res"
      PROVE  (i # 3 => A[i + 1] = A[i] - 1) /\ (i = 3 => A[i] - 1 = 0)
  <2>1. i = 2 BY <1>7, <1>3, Posizioni
  <2> QED BY <2>1, <1>3, <1>4
<1>8. ASSUME NEW i \in 1..3, P[i] \notin {"SELECT", "INSERT", "delete_res"}
      PROVE  (i # 3 => A[i + 1] = A[i]) /\ (i = 3 => A[i] = 0)
             /\ (P[i] = "forse_fine" => A[i] = 0)
  <2>1. i = 3 BY <1>8, <1>3, Posizioni
  <2> QED BY <2>1, <1>3, <1>4
<1>9. Tabella(P, A, 0, 3) BY <1>3, <1>4, <1>5, <1>6, <1>7, <1>8 DEF Tabella
<1> QED BY <1>1, <1>2, <1>9, ContoPer, Zenon

LEMMA ContoTutti == \A op \in Messaggio : Conto(op)
BY ContoLogin, ContoLegge, ContoVisualizzaLobby, ContoPartecipaLobby, ContoScrive,
   ContoInserisciLobby, ContoGrafico, ContoStats, ContoRegistrazione DEF Messaggio

LEMMA OpsLiberi ==
  /\ Ops \cap Liberi = {}
  /\ \A op \in Ops : Conto(op)
  /\ Programma("inserisci_lobby_catch")[1] = "RollBack"
  /\ Len(Programma("inserisci_lobby_catch")) = 1
<1>1. Programma("inserisci_lobby_catch") = <<"RollBack">> BY Zenon DEF Programma
<1>2. <<"RollBack">>[1] = "RollBack" /\ Len(<<"RollBack">>) = 1 OBVIOUS
<1> QED BY <1>1, <1>2, ContoTutti, ProcessoAssumption DEF Liberi, Messaggio

\* ResPersi, of one worker.
PersiDi(w) ==
  msg[w] \in Ops /\ msg'[w] # msg[w] =>
    IF Lancia(w) THEN res[w] <= Sovrascritti(msg[w]) + 1
                 ELSE res'[w] = Sovrascritti(msg[w])

\* The handler goes on: what its instruction leaves, the next one finds.
LEMMA ProsegueRes ==
  ASSUME ResInv, NEW w \in Worker, msg[w] \in Ops, Prosegue(w),
         res' \in [Worker -> Int], Lascia(msg[w], ip[w], res'[w]), http'[w] = "fuori"
  PROVE  /\ ResTipi' /\ ResDi(w)'
         /\ msg'[w] # msg[w] => res'[w] = Sovrascritti(msg[w])
<1>1. Conto(msg[w]) BY OpsLiberi
<1>2. CASE ip[w] = Len(Programma(msg[w]))
  <2>1. Finisce(w) BY <1>2 DEF Prosegue
  <2>2. ResTipi' BY <2>1 DEF Finisce, ResInv, ResTipi, Liberi
  <2>3. msg'[w] = "libero" /\ ip'[w] = 1 BY <2>1 DEF Finisce, ResInv, ResTipi
  <2>4. ResDi(w)' BY <2>3, OpsLiberi DEF ResDi, Liberi
  <2> QED BY <1>2, <2>2, <2>4 DEF Lascia
<1>3. CASE ip[w] # Len(Programma(msg[w]))
  <2>1. msg' = msg /\ ip' = [ip EXCEPT ![w] = @ + 1] BY <1>3 DEF Prosegue
  <2>2. ip[w] \in 1..Len(Programma(msg[w])) /\ Len(Programma(msg[w])) \in 1..13
    BY <1>1 DEF ResInv, ResDi, Conto
  <2>3. ResTipi' BY <2>1 DEF ResInv, ResTipi
  <2>4. ip'[w] = ip[w] + 1 /\ msg'[w] = msg[w] BY <2>1 DEF ResInv, ResTipi
  <2>5. ip'[w] \in 1..Len(Programma(msg[w])) BY <2>2, <2>4, <1>3
  <2>6. res'[w] = Avuti(msg[w])[ip'[w]] BY <2>4, <1>3 DEF Lascia
  <2>7. ResDi(w)' BY <2>4, <2>5, <2>6, OpsLiberi DEF ResDi
  <2> QED BY <2>3, <2>4, <2>7
<1> QED BY <1>2, <1>3

\* It ends, by itself or through a catch block that goes no further.
LEMMA FinisceRes ==
  ASSUME ResInv, NEW w \in Worker, Finisce(w), res' = res, http'[w] = "fuori"
  PROVE  ResTipi' /\ ResDi(w)'
<1>1. ResTipi' BY DEF Finisce, ResInv, ResTipi, Liberi
<1>2. msg'[w] = "libero" /\ ip'[w] = 1 BY DEF Finisce, ResInv, ResTipi
<1> QED BY <1>1, <1>2, OpsLiberi DEF ResDi, Liberi

LEMMA CatchRes ==
  ASSUME ResInv, NEW w \in Worker, Catch(w), http'[w] = "fuori"
  PROVE  ResTipi' /\ ResDi(w)'
<1>1. CASE msg[w] = "inserisci_lobby" /\ ip[w] > 1
  <2>1. /\ msg' = [msg EXCEPT ![w] = "inserisci_lobby_catch"]
        /\ ip' = [ip EXCEPT ![w] = 1] /\ res' = res
    BY <1>1 DEF Catch
  <2>2. ResTipi' BY <2>1 DEF ResInv, ResTipi, Liberi
  <2>3. msg'[w] = "inserisci_lobby_catch" /\ ip'[w] = 1 BY <2>1 DEF ResInv, ResTipi
  <2> QED BY <2>2, <2>3, OpsLiberi DEF ResDi, Liberi
<1>2. CASE ~(msg[w] = "inserisci_lobby" /\ ip[w] > 1)
  BY <1>2, FinisceRes DEF Catch
<1> QED BY <1>1, <1>2

\* The catch block of HMInserisciLobby is one instruction long.
LEMMA RollBackRes ==
  ASSUME ResInv, NEW w \in Worker, msg[w] = "inserisci_lobby_catch",
         Prosegue(w), res' = res, http'[w] = "fuori"
  PROVE  ResTipi' /\ ResDi(w)'
<1>1. ip[w] = 1 BY DEF ResInv, ResDi, Liberi
<1>2. Finisce(w) BY <1>1, OpsLiberi DEF Prosegue
<1> QED BY <1>2, FinisceRes

-----------------------------------------------------------------------------
(* One lemma per action: the worker that moves, ...                         *)

LEMMA DelResto ==
  ASSUME ResInv, NEW w \in Worker, msg[w] \in Ops
  PROVE  /\ Conto(msg[w]) /\ ip[w] \in 1..Len(Programma(msg[w]))
         /\ res[w] = Avuti(msg[w])[ip[w]]
         /\ res[w] \in Int /\ res[w] <= Sovrascritti(msg[w]) + 1
BY OpsLiberi DEF ResInv, ResDi, ResTipi, Conto

\* ... outside MyLibCurl, ...
LEMMA AlRes ==
  ASSUME ResInv, CurlTypeOK, NEW w \in Worker, NEW I, Al(w, I), I \cap Funzioni = {},
         UNCHANGED curlVars
  PROVE  /\ http'[w] = "fuori" /\ msg[w] \in Ops \cup {"inserisci_lobby_catch"}
         /\ Istruzione(w) \in I
         /\ msg[w] = "inserisci_lobby_catch" => Istruzione(w) = "RollBack"
<1>1. http'[w] = "fuori" BY DEF ResInv, ResDi, Al, curlVars
<1>2. msg[w] \in Ops \cup {"inserisci_lobby_catch"} BY DEF ResInv, ResTipi, Al, Liberi
<1>3. msg[w] = "inserisci_lobby_catch" => Istruzione(w) = "RollBack"
  BY OpsLiberi DEF Istruzione, ResInv, ResDi, Liberi
<1> QED BY <1>1, <1>2, <1>3 DEF Al

LEMMA InterrogaRes ==
  ASSUME ResInv, CurlTypeOK, NEW w \in Worker, Interroga(w)
  PROVE  ResTipi' /\ ResDi(w)' /\ PersiDi(w)
<1>1. /\ http'[w] = "fuori" /\ Istruzione(w) \in {"SELECT", "INSERT"}
      /\ msg[w] \in Ops
  BY AlRes DEF Interroga, Funzioni
<1>2. PersiDi(w) BY <1>1, DelResto DEF PersiDi, Lancia
<1>3. CASE Catch(w) BY <1>1, <1>2, <1>3, CatchRes
<1>4. CASE Prosegue(w) /\ res' = [res EXCEPT ![w] = @ + 1]
  <2>1. res' \in [Worker -> Int] /\ res'[w] = res[w] + 1 BY <1>4 DEF ResInv, ResTipi
  <2>2. Lascia(msg[w], ip[w], res'[w])
    BY <1>1, <2>1, DelResto DEF Conto, Istruzione
  <2> QED BY <1>1, <1>2, <1>4, <2>1, <2>2, ProsegueRes
<1> QED BY <1>3, <1>4 DEF Interroga

LEMMA ChiamaRes ==
  ASSUME ResInv, CurlTypeOK, NEW w \in Worker, Chiama(w)
  PROVE  ResTipi' /\ ResDi(w)' /\ PersiDi(w)
<1>1. /\ http'[w] = "fuori" /\ msg[w] \in Ops \cup {"inserisci_lobby_catch"}
      /\ Istruzione(w) \in {"Commit", "RollBack", "ClearConnection", "ClearConnection_1", "leggi"}
  BY AlRes DEF Chiama, Funzioni
<1>2. CASE Istruzione(w) \in {"Commit", "RollBack", "leggi"} /\ Catch(w)
  <2>1. PersiDi(w) BY <1>2, DelResto DEF PersiDi, Lancia
  <2> QED BY <1>1, <1>2, <2>1, CatchRes
<1>3. CASE Prosegue(w) /\ res' = res
  <2>1. CASE msg[w] \in Ops
    <3>1. Lascia(msg[w], ip[w], res'[w])
      BY <1>1, <1>3, <2>1, DelResto DEF Conto, Istruzione
    <3>2. res' \in [Worker -> Int] BY <1>3 DEF ResInv, ResTipi
    <3>3. /\ ResTipi' /\ ResDi(w)'
          /\ msg'[w] # msg[w] => res'[w] = Sovrascritti(msg[w])
      BY <1>1, <1>3, <2>1, <3>1, <3>2, ProsegueRes
    <3> QED BY <2>1, <3>3, DelResto DEF PersiDi
  <2>2. CASE msg[w] = "inserisci_lobby_catch"
    BY <1>1, <1>3, <2>2, RollBackRes, OpsLiberi DEF PersiDi, Liberi
  <2> QED BY <1>1, <2>1, <2>2
<1> QED BY <1>2, <1>3 DEF Chiama

LEMMA CancellaNelConto ==
  ASSUME ResInv, CurlTypeOK, NEW w \in Worker, CancellaRes(w)
  PROVE  ResTipi' /\ ResDi(w)' /\ PersiDi(w)
<1>1. http'[w] = "fuori" /\ Istruzione(w) = "delete_res" /\ msg[w] \in Ops
  BY AlRes DEF CancellaRes, Funzioni
<1>2. res' \in [Worker -> Int] /\ res'[w] = res[w] - 1
  BY DEF CancellaRes, ResInv, ResTipi
<1>3. Lascia(msg[w], ip[w], res'[w])
  BY <1>1, <1>2, DelResto DEF Conto, Istruzione
<1>4. /\ ResTipi' /\ ResDi(w)'
      /\ msg'[w] # msg[w] => res'[w] = Sovrascritti(msg[w])
  BY <1>1, <1>2, <1>3, ProsegueRes DEF CancellaRes
<1> QED BY <1>1, <1>4, DelResto DEF PersiDi

LEMMA ForseFineRes ==
  ASSUME ResInv, CurlTypeOK, NEW w \in Worker, ForseFine(w)
  PROVE  ResTipi' /\ ResDi(w)' /\ PersiDi(w)
<1>1. http'[w] = "fuori" /\ Istruzione(w) = "forse_fine" /\ msg[w] \in Ops
  BY AlRes DEF ForseFine, Funzioni
<1>2. res' = res /\ res' \in [Worker -> Int] BY DEF ForseFine, ResInv, ResTipi
<1>3. Lascia(msg[w], ip[w], res'[w]) /\ res'[w] = Sovrascritti(msg[w])
  BY <1>1, <1>2, DelResto DEF Conto, Istruzione
<1>4. ResTipi' /\ ResDi(w)'
  BY <1>1, <1>2, <1>3, ProsegueRes, FinisceRes DEF ForseFine
<1> QED BY <1>1, <1>3, <1>4, DelResto DEF PersiDi

\* ... and within it.
LEMMA HttpRes ==
  ASSUME ResInv, CurlTypeOK, NEW w \in Worker,
         IniziaHttp(w) \/ DentroHttp(w) \/ PythonRisponde(w)
  PROVE  ResTipi' /\ ResDi(w)' /\ PersiDi(w)
<1>1. CASE IniziaHttp(w)
  <2>1. UNCHANGED procVars /\ msg[w] # "libero" /\ Istruzione(w) \in Funzioni
    BY <1>1 DEF IniziaHttp, Al
  <2>2. msg[w] \in Ops
    BY <2>1, OpsLiberi DEF ResInv, ResDi, ResTipi, Liberi, Istruzione, Funzioni
  <2> QED BY <2>1, <2>2, OpsLiberi DEF procVars, ResInv, ResTipi, ResDi, PersiDi, Istruzione
<1>2. CASE UNCHANGED procVars /\ http[w] # "fuori"
  BY <1>2 DEF procVars, ResInv, ResTipi, ResDi, PersiDi, Istruzione
<1>3. CASE Prosegue(w) /\ res' = res /\ http[w] # "fuori" /\ http'[w] = "fuori"
  <2>1. msg[w] \in Ops /\ Istruzione(w) \in Funzioni BY <1>3 DEF ResInv, ResDi
  <2>2. Lascia(msg[w], ip[w], res'[w])
    BY <1>3, <2>1, DelResto DEF Conto, Istruzione, Funzioni
  <2>3. res' \in [Worker -> Int] BY <1>3 DEF ResInv, ResTipi
  <2>4. /\ ResTipi' /\ ResDi(w)'
        /\ msg'[w] # msg[w] => res'[w] = Sovrascritti(msg[w])
    BY <1>3, <2>1, <2>2, <2>3, ProsegueRes
  <2> QED BY <2>1, <2>4, DelResto DEF PersiDi
<1>4. CurlPasso(w) => http[w] # "fuori"
  BY DEF CurlPasso, CurlLavora, GlobalInit, EasyInit, EasyInitNullo, EasyCleanup,
     GlobalCleanup, Risposta
<1> QED BY <1>1, <1>2, <1>3, <1>4 DEF DentroHttp, PythonRisponde, CurlPasso

LEMMA RiceveRes ==
  ASSUME ResInv, CurlTypeOK, NEW w \in Worker, Riceve(w)
  PROVE  ResTipi' /\ ResDi(w)' /\ PersiDi(w)
<1>1. PICK op \in Ops : msg' = [msg EXCEPT ![w] = op] BY DEF Riceve
<1>2. msg'[w] = op /\ ip'[w] = 1 /\ res'[w] = 0 /\ http'[w] = "fuori"
  BY <1>1, OpsLiberi DEF Riceve, ResInv, ResTipi, ResDi, Liberi, curlVars
<1>3. ResTipi' BY <1>1 DEF Riceve, ResInv, ResTipi
<1>4. 1 \in 1..Len(Programma(op)) /\ Avuti(op)[1] = 0
  <2>1. Conto(op) BY OpsLiberi
  <2>2. Len(Programma(op)) \in 1..13 /\ Avuti(op)[1] = 0 BY <2>1, Zenon DEF Conto
  <2>3. \A n \in 1..13 : 1 \in 1..n OBVIOUS
  <2> QED BY <2>2, <2>3, Zenon
<1>5. ResDi(w)'
  <2>1. op \notin Liberi BY OpsLiberi
  <2> QED BY <1>2, <1>4, <2>1 DEF ResDi
<1> QED BY <1>3, <1>5, OpsLiberi DEF Riceve, PersiDi, Liberi

\* The others stand where they were.
LEMMA AltriFermi ==
  ASSUME CurlTypeOK, ResTipi, NEW w \in Worker, NEW v \in Worker, v # w,
         Riceve(w) \/ Lavora(w) \/ PythonRisponde(w)
  PROVE  msg'[v] = msg[v] /\ ip'[v] = ip[v] /\ res'[v] = res[v] /\ http'[v] = http[v]
<1>1. Prosegue(w) \/ Finisce(w) => msg'[v] = msg[v] /\ ip'[v] = ip[v]
  BY DEF Prosegue, Finisce, ResTipi
<1>2. Catch(w) => msg'[v] = msg[v] /\ ip'[v] = ip[v] /\ res'[v] = res[v]
  BY <1>1 DEF Catch, ResTipi
<1>3. CurlPasso(w) \/ (\E f \in Funzioni : Richiede(w, f)) => http'[v] = http[v]
  BY DEF CurlPasso, CurlLavora, GlobalInit, EasyInit, EasyInitNullo, EasyCleanup,
     GlobalCleanup, Risposta, Richiede, HttpVai, HttpTorna, CurlTypeOK
<1>4. CASE Riceve(w)
  <2>1. PICK op \in Ops : msg' = [msg EXCEPT ![w] = op] BY <1>4 DEF Riceve
  <2>2. msg'[v] = msg[v] BY <2>1 DEF ResTipi
  <2> QED BY <1>4, <2>2 DEF Riceve, ResTipi, curlVars
<1>5. CASE Interroga(w) \/ Chiama(w) \/ CancellaRes(w) \/ ForseFine(w)
  BY <1>1, <1>2, <1>5 DEF Interroga, Chiama, CancellaRes, ForseFine, ResTipi, curlVars
<1>6. CASE IniziaHttp(w) \/ DentroHttp(w) \/ PythonRisponde(w)
  BY <1>1, <1>3, <1>6 DEF IniziaHttp, DentroHttp, PythonRisponde, procVars, CurlPasso
<1> QED BY <1>4, <1>5, <1>6 DEF Lavora

LEMMA ResNext ==
  ASSUME ResInv, CurlTypeOK, [Next]_vars
  PROVE  ResInv' /\ \A w \in Worker : PersiDi(w)
<1>1. CASE UNCHANGED vars
  BY <1>1 DEF vars, curlVars, procVars, ResInv, ResTipi, ResDi, PersiDi, Istruzione
<1>2. ASSUME NEW w \in Worker, Riceve(w) \/ Lavora(w) \/ PythonRisponde(w)
      PROVE  ResInv' /\ \A v \in Worker : PersiDi(v)
  <2>1. ResTipi' /\ ResDi(w)' /\ PersiDi(w)
    BY <1>2, InterrogaRes, ChiamaRes, CancellaNelConto, ForseFineRes, HttpRes, RiceveRes DEF Lavora
  <2>2. ASSUME NEW v \in Worker, v # w PROVE ResDi(v)' /\ PersiDi(v)
    <3>1. msg'[v] = msg[v] /\ ip'[v] = ip[v] /\ res'[v] = res[v] /\ http'[v] = http[v]
      BY <1>2, <2>2, AltriFermi DEF ResInv
    <3> QED BY <3>1 DEF ResInv, ResDi, PersiDi, Istruzione
  <2> QED BY <2>1, <2>2 DEF ResInv
<1> QED BY <1>1, <1>2 DEF Next

LEMMA ResInit == ASSUME Init PROVE ResInv
BY OpsLiberi DEF Init, CurlInit, ResInv, ResTipi, ResDi, Liberi

\* A handler that ends well has lost the result sets it overwrites, always as
\* many; an exception loses at most one more.
THEOREM ResPersiContati == Spec => ResPersi
<1>1. Init => ResInv BY ResInit
<1>2. ResInv /\ CurlInv /\ [Next]_vars => ResInv' BY ResNext DEF CurlInv
<1>3. ResInv /\ CurlInv /\ [Next]_vars =>
        [\A w \in Worker : msg[w] \in Ops /\ msg'[w] # msg[w] =>
           IF Lancia(w) THEN res[w] <= Sovrascritti(msg[w]) + 1
                        ELSE res'[w] = Sovrascritti(msg[w])]_vars
  BY ResNext DEF CurlInv, PersiDi
<1> QED BY CurlInvariante, <1>1, <1>2, <1>3, PTL DEF Spec, ResPersi
=============================================================================
