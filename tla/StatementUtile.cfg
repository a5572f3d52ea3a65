\* One worker, no failure: the statement dbQuery uses.
SPECIFICATION Spec
CONSTANTS
  anna = anna
  bruno = bruno
  ea = ea
  eb = eb
  n1 = n1
  n2 = n2
  w1 = w1
  w2 = w2
  Null = Null
  Utente = {anna, bruno}
  Email = {ea, eb}
  Gioco = {"Counter Strike Go"}
  Nickname = {n1, n2}
  MaxLobby = 1
  Worker = {w1}
  Ops = {"inserisci_lobby", "login"}
  InitDbs <- DbIscritti
  MaxGuasti = 0
INVARIANT StatementUtile
