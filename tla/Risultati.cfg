\* Two statements of one connection; the first runs queries of up to 3
\* outcomes (the CALL of the connector's own tests has 3).
SPECIFICATION Spec
CONSTANTS
  Stmt = {s1, s2}
  Multi = {s1}
  Rs = {1, 2, 3}
  MaxEsiti = 3
  MaxPresi = 1
INVARIANTS CamminoFedele UnSoloPosto
PROPERTY RispostaFedele
CHECK_DEADLOCK FALSE
