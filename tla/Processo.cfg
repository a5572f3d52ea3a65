\* Two workers, every handler; the Python server may never answer.
SPECIFICATION FairSpec
CONSTANTS
  Worker = {w1, w2}
  MaxFalliti = 1
  Ops = {"login", "visualizza_lobby_id", "visualizza_utente", "visualizza_lobby", "partecipa_lobby", "aggiungi_utente", "elimina_utente", "elimina_lobby", "inserisci_lobby", "grafico", "csstats", "lolstats", "tftstats", "registrazione"}
INVARIANTS ContatoreLimitato RovinaSoloAccodata
PROPERTIES ResPersi Termina
CHECK_DEADLOCK FALSE
