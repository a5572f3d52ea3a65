\* One worker, no failure: what is left of a lobby after the answer Errore.
SPECIFICATION Spec
CONSTANTS
  anna = anna
  bruno = bruno
  ea = ea
  eb = eb
  n1 = n1
  n2 = n2
  w1 = w1
  w2 = w2
  Null = Null
  Utente = {anna, bruno}
  Email = {ea, eb}
  Gioco = {"Counter Strike Go"}
  Nickname = {n1, n2}
  MaxLobby = 2
  Worker = {w1}
  Ops = {"inserisci_lobby", "partecipa_lobby"}
  InitDbs <- DbIscritti
  MaxGuasti = 0
INVARIANT ErroreAnnulla
