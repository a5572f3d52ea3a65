\* Two workers and no transaction: accounts and lists beside the life of a lobby, one failure.
SPECIFICATION Spec
CONSTANTS
  anna = anna
  bruno = bruno
  ea = ea
  eb = eb
  n1 = n1
  n2 = n2
  w1 = w1
  w2 = w2
  Null = Null
  Utente = {anna, bruno}
  Email = {ea, eb}
  Gioco = {"Counter Strike Go"}
  Nickname = {n1, n2}
  MaxLobby = 1
  Worker = {w1, w2}
  Ops = {"registrazione", "csstats", "visualizza_lobby", "partecipa_lobby", "aggiungi_utente", "elimina_lobby"}
  InitDbs <- DbContesa
  MaxGuasti = 1
INVARIANTS Integrity ContiConfermati ListeSeparate
PROPERTIES MantieneServizio
SYMMETRY Simmetria
