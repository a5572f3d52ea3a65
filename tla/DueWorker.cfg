\* Two workers, no failure: a registration beside another handler.
SPECIFICATION Spec
CONSTANTS
  anna = anna
  bruno = bruno
  ea = ea
  eb = eb
  n1 = n1
  n2 = n2
  w1 = w1
  w2 = w2
  Null = Null
  Utente = {anna, bruno}
  Email = {ea, eb}
  Gioco = {"Counter Strike Go"}
  Nickname = {n1, n2}
  MaxLobby = 1
  Worker = {w1, w2}
  Ops = {"inserisci_lobby", "registrazione"}
  InitDbs <- DbAnna
  MaxGuasti = 0
INVARIANT RegistrazioneDurevole
