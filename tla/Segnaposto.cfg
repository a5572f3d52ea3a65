\* Texts of any length, of up to 2 parameters and 2 nested parentheses.
SPECIFICATION Spec
CONSTANTS
  MaxParametri = 2
  MaxParentesi = 2
INVARIANTS SegnTypeOK ParametriTrovati PuntoEVirgolaSepara RiscrittiContati RiscrivibileUnGruppo RipetibileSeparata
