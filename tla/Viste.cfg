\* One worker, the queries and the accounts of two games beside an inserisci_lobby, one failure.
SPECIFICATION FairSpec
CONSTANTS
  anna = anna
  bruno = bruno
  ea = ea
  eb = eb
  n1 = n1
  n2 = n2
  w1 = w1
  w2 = w2
  Null = Null
  Utente = {anna, bruno}
  Email = {ea, eb}
  Gioco = {"Teamfight Tactics", "League of Legends"}
  Nickname = {n1, n2}
  MaxLobby = 1
  Worker = {w1}
  Ops = {"visualizza_lobby_id", "visualizza_utente", "grafico", "login", "lolstats", "tftstats", "inserisci_lobby", "partecipa_lobby"}
  InitDbs <- DbNuovo
  MaxGuasti = 1
INVARIANT ConfermaVera
PROPERTIES GestioneTermina LoginRisposto
