\* Two workers calling DatabaseConfig in any order, every interleaving of the
\* accesses inside the calls.
SPECIFICATION PuntFairSpec
CONSTANTS
  Worker = {w1, w2}
  Nessuno = Nessuno
  MaxCon = 4
  MaxStmt = 4
INVARIANTS AbusoSoloInsieme PersoSoloInsieme RisultatoProprio
PROPERTY ChiamataTorna
CHECK_DEADLOCK FALSE
