\* One worker, the whole life of a lobby, two failures.
SPECIFICATION Spec
CONSTANTS
  anna = anna
  bruno = bruno
  ea = ea
  eb = eb
  n1 = n1
  n2 = n2
  w1 = w1
  w2 = w2
  Null = Null
  Utente = {anna, bruno}
  Email = {ea, eb}
  Gioco = {"Counter Strike Go"}
  Nickname = {n1, n2}
  MaxLobby = 2
  Worker = {w1}
  Ops = {"inserisci_lobby", "partecipa_lobby", "aggiungi_utente", "elimina_utente", "elimina_lobby"}
  InitDbs <- DbIscritti
  MaxGuasti = 2
INVARIANTS TypeOK Integrity ConfermaVera TransazioneSoloInInserisci
PROPERTIES LobbyAtomica IncaglioHaCausa AccettatoResta MantieneServizio
