----------------------------- MODULE CurlGlobale -----------------------------
(***************************************************************************)
(* The requests to the Python server: MyLibCurl::SendPythonRequest, which   *)
(* initialises libcurl for itself, and MyLibCurl::gamesreturnValue, which   *)
(* leaves that to curl_easy_init.  Both end with curl_global_cleanup.       *)
(*                                                                          *)
(* libcurl counts its initialisations: curl_global_init adds one,           *)
(* curl_easy_init adds the first if there is none, curl_global_cleanup      *)
(* takes one away and frees what all handles share when none is left.       *)
(***************************************************************************)
EXTENDS Crow

CONSTANT MaxFalliti   \* bound: calls of curl_easy_init that return no handle

ASSUME CurlAssumption == MaxFalliti \in Nat

VARIABLES
  chi,         \* the function each worker executes
  http,        \* the call it makes next; "fuori" of MyLibCurl
  contatore,   \* libcurl's count of initialisations
  maniglie,    \* workers that hold an easy handle
  falliti,     \* curl_easy_init that returned null so far
  (* history *)
  rovinata,    \* libcurl has been freed under the handle of a request
  accodata     \* a gamesreturnValue has found libcurl initialised already

curlVars == <<chi, http, contatore, maniglie, falliti, rovinata, accodata>>

Funzioni == {"SendPythonRequest", "gamesreturnValue"}

CurlTypeOK ==
  /\ chi \in [Worker -> Funzioni \cup {"nessuna"}]
  /\ http \in [Worker -> {"fuori", "global_init", "easy_init", "perform",
                          "easy_cleanup", "global_cleanup"}]
  /\ contatore \in Nat
  /\ maniglie \subseteq Worker
  /\ falliti \in 0..MaxFalliti
  /\ rovinata \in BOOLEAN
  /\ accodata \in BOOLEAN

HttpVai(w, dove) == http' = [http EXCEPT ![w] = dove] /\ UNCHANGED chi

\* The function returns.
HttpTorna(w) == http' = [http EXCEPT ![w] = "fuori"] /\ chi' = [chi EXCEPT ![w] = "nessuna"]

\* The call of one of the two functions.
Richiede(w, f) ==
  /\ http[w] = "fuori"
  /\ chi' = [chi EXCEPT ![w] = f]
  /\ http' = [http EXCEPT ![w] = IF f = "SendPythonRequest" THEN "global_init" ELSE "easy_init"]
  /\ UNCHANGED <<contatore, maniglie, falliti, rovinata, accodata>>

GlobalInit(w) ==
  /\ http[w] = "global_init"
  /\ contatore' = contatore + 1
  /\ HttpVai(w, "easy_init")
  /\ UNCHANGED <<maniglie, falliti, rovinata, accodata>>

EasyInit(w) ==
  /\ http[w] = "easy_init"
  /\ contatore' = IF contatore = 0 THEN 1 ELSE contatore
  /\ maniglie' = maniglie \cup {w}
  /\ accodata' = (accodata \/ (contatore # 0 /\ chi[w] = "gamesreturnValue"))
  /\ HttpVai(w, "perform")
  /\ UNCHANGED <<falliti, rovinata>>

\* No handle: if (curl) skips the clean-up too.
EasyInitNullo(w) ==
  /\ http[w] = "easy_init"
  /\ falliti < MaxFalliti
  /\ falliti' = falliti + 1
  /\ contatore' = IF contatore = 0 THEN 1 ELSE contatore
  /\ HttpTorna(w)
  /\ UNCHANGED <<maniglie, rovinata, accodata>>

\* curl_easy_perform returns: with an answer, or with none.
Risposta(w) ==
  /\ http[w] = "perform"
  /\ HttpVai(w, "easy_cleanup")
  /\ UNCHANGED <<contatore, maniglie, falliti, rovinata, accodata>>

EasyCleanup(w) ==
  /\ http[w] = "easy_cleanup"
  /\ maniglie' = maniglie \ {w}
  /\ HttpVai(w, "global_cleanup")
  /\ UNCHANGED <<contatore, falliti, rovinata, accodata>>

\* Mutated: libcurl does not count, the first cleanup frees everything.
GlobalCleanupSenzaConto(w) ==
  /\ http[w] = "global_cleanup"
  /\ contatore' = 0
  /\ rovinata' = (rovinata \/ maniglie # {})
  /\ HttpTorna(w)
  /\ UNCHANGED <<maniglie, falliti, accodata>>

\* Mutated: the function returns before its curl_global_cleanup.
GlobalCleanupMai(w) ==
  /\ http[w] = "global_cleanup"
  /\ HttpTorna(w)
  /\ UNCHANGED <<contatore, maniglie, falliti, rovinata, accodata>>

GlobalCleanup(w) ==
  /\ http[w] = "global_cleanup"
  /\ contatore' = IF contatore = 0 THEN 0 ELSE contatore - 1
  /\ rovinata' = (rovinata \/ (contatore = 1 /\ maniglie # {}))
  /\ HttpTorna(w)
  /\ UNCHANGED <<maniglie, falliti, accodata>>

\* What a worker does by itself, the Python server apart.
CurlLavora(w) ==
  \/ GlobalInit(w) \/ EasyInit(w) \/ EasyInitNullo(w)
  \/ EasyCleanup(w) \/ GlobalCleanup(w)

CurlPasso(w) == CurlLavora(w) \/ Risposta(w)

CurlInit ==
  /\ chi = [w \in Worker |-> "nessuna"]
  /\ http = [w \in Worker |-> "fuori"]
  /\ contatore = 0
  /\ maniglie = {}
  /\ falliti = 0
  /\ rovinata = FALSE
  /\ accodata = FALSE

CurlNext == \E w \in Worker : CurlPasso(w) \/ \E f \in Funzioni : Richiede(w, f)

CurlSpec == CurlInit /\ [][CurlNext]_curlVars

-----------------------------------------------------------------------------
(* Properties.                                                              *)

\* Requests in flight, each of which may hold one initialisation.
InVolo == {w \in Worker : http[w] # "fuori"}

\* libcurl is freed when nobody uses it any more: the count never exceeds the
\* requests in flight and the handles curl_easy_init refused.
ContatoreLimitato == contatore <= Cardinality(InVolo) + falliti

\* libcurl is freed under the handle of a request only after some
\* gamesreturnValue found it initialised already: it calls
\* curl_global_cleanup for an initialisation that is not its own.
\* SendPythonRequest alone, however many at once, never does it.
RovinaSoloAccodata == rovinata => accodata
=============================================================================
