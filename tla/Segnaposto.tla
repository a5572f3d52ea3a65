----------------------------- MODULE Segnaposto -----------------------------
(***************************************************************************)
(* ClientPrepareResult: three functions of the connector read the text of a *)
(* query character by character, to find its parameters (parameterParts),   *)
(* to rewrite it for a batch (rewritableParts), and to know whether another *)
(* query may follow it after a semicolon (canAggregateSemiColon).           *)
(*                                                                          *)
(* A step is one more character of the text, read by the three functions    *)
(* and by MariaDB; what a function would return is that of the text so far. *)
(* A word is read in one step, with what follows it where a function looks  *)
(* ahead; a text goes on after that.  The pieces of the text are only empty *)
(* or not, and of a list only the length is kept.                           *)
(***************************************************************************)
EXTENDS Integers

CONSTANTS
  MaxParametri,   \* bound: parameters of the text
  MaxParentesi    \* bound: nested parentheses

ASSUME SegnapostoAssumption == MaxParametri \in Nat /\ MaxParentesi \in Nat

VARIABLES
  noBackslashEscapes,   \* the mode of the session
  parti,                \* parameterParts
  unione,               \* canAggregateSemiColon
  riscritta,            \* rewritableParts
  server                \* what MariaDB reads

vars == <<noBackslashEscapes, parti, unione, riscritta, server>>

Apici  == {"'", "dq"}   \* the single and the double quote

\* "i" is any other word whose first letter but S, V and L is I (IF, SIGNAL), "x"
\* any other of more than these letters.  SELECT and VALUES have a blank after
\* them, SELECT_stella "*", VALUES_barra "/" and VALUES_dollaro "$", with which it is
\* a name; LAST_INSERT_ID has its parenthesis, LAST_INSERT_ID_blank after a blank.
Parole == {"x", "i", "INSERT", "SELECT", "SELECT_stella", "VALUES", "VALUES_barra",
           "VALUES_dollaro", "LAST_INSERT_ID", "LAST_INSERT_ID_blank"}
Bianchi == {"blank", "nl"}
Aperte == {"(", "LAST_INSERT_ID", "LAST_INSERT_ID_blank"}

\* "virgola" is any of , = < > and +; "dollaro" a byte of a name below 40 (or above
\* 127, which is the same but for a SELECT next to it).
Caratteri == Apici \cup Parole \cup Bianchi \cup
             {"grave", "backslash", "/", "*", "#", "-", "semicolon", "?", "(", ")",
              "virgola", "dollaro"}

\* What lastChar is asked about, and whether it is part of a name: those between
\* a blank and '(' do for a blank, and so does the beginning of the text.
Classe(car) == CASE car \in Bianchi \cup Aperte \cup {"VALUES", "SELECT"} -> "blank"
                 [] car \in Apici \cup {"#"}            -> "'"
                 [] car \in {"/", "VALUES_barra"}       -> "/"
                 [] car \in {"*", "SELECT_stella"}      -> "*"
                 [] car \in {"dollaro", "VALUES_dollaro"}        -> "dollaro"
                 [] car \in {"semicolon", "virgola"}    -> "virgola"
                 [] car \in {"-", ")"}                  -> car
                 [] car \in {"grave", "?", "backslash"} -> "grave"
                 [] OTHER                               -> "x"

Stati == {"Normal", "SqlString", "Escape", "Backtick", "EOLComment", "SlashStarComment"}

\* What the three functions have in common: state, singleQuotes as the quote it
\* stands for (the double one when no string is open), the class of lastChar
\* ("x" where nothing asks for it: in strings, names and comments, but for the
\* star in "*/").
Lexer == [state : Stati, apice : Apici, lastChar : {Classe(car) : car \in Caratteri}]

SegnTypeOK ==
  /\ noBackslashEscapes \in BOOLEAN
  /\ parti \in [lex : Lexer, partList : 0..MaxParametri, endingSemicolon : BOOLEAN,
                multipleQueriesPrepare : BOOLEAN]
  /\ unione \in [lex : Lexer, endingSemicolon : BOOLEAN]
  /\ riscritta \in [lex : Lexer, partList : 0..MaxParametri,
                    sb : BOOLEAN, preValuePart1 : BOOLEAN, preValuePart2 : BOOLEAN,
                    postValuePart : BOOLEAN, isInParenthesis : Int,
                    isFirstChar : BOOLEAN, isInsert : BOOLEAN, semicolon : BOOLEAN,
                    reWritablePrepare : BOOLEAN, multipleQueriesPrepare : BOOLEAN]
  /\ server.parametri \in 0..MaxParametri /\ server.parentesi \in 0..MaxParentesi

-----------------------------------------------------------------------------
(* The common part.                                                         *)

\* In a string, the character after a backslash.
Protetto(l, car) == l.state = "Escape" /\ car # l.apice

\* Mutated: a backslash protects nothing.
StatoSenzaEscape(l, car, dueBarre) ==
  CASE l.state = "Normal" /\ car = "*" /\ l.lastChar = "/" -> "SlashStarComment"
    [] l.state = "SlashStarComment" /\ car = "/" /\ l.lastChar = "*" -> "Normal"
    [] l.state = "Normal" /\ car = "/" /\ l.lastChar = "/" /\ dueBarre -> "EOLComment"
    [] l.state = "Normal" /\ (car = "#" \/ (car = "-" /\ l.lastChar = "-")) -> "EOLComment"
    [] l.state = "EOLComment" /\ car = "nl" -> "Normal"
    [] l.state = "Normal" /\ car \in Apici -> "SqlString"
    [] l.state = "SqlString" /\ car = l.apice -> "Normal"
    [] l.state = "Backtick" /\ car = "grave" -> "Normal"
    [] l.state = "Normal" /\ car = "grave" -> "Backtick"
    [] OTHER -> l.state

\* The state after car; dueBarre: two slashes begin a comment.
Stato(l, car, dueBarre) ==
  CASE Protetto(l, car) -> "SqlString"
    [] l.state = "Normal" /\ car = "*" /\ l.lastChar = "/" -> "SlashStarComment"
    [] l.state = "SlashStarComment" /\ car = "/" /\ l.lastChar = "*" -> "Normal"
    [] l.state = "Normal" /\ car = "/" /\ l.lastChar = "/" /\ dueBarre -> "EOLComment"
    [] l.state = "Normal" /\ (car = "#" \/ (car = "-" /\ l.lastChar = "-")) -> "EOLComment"
    [] l.state = "EOLComment" /\ car = "nl" -> "Normal"
    [] l.state = "Normal" /\ car \in Apici -> "SqlString"
    [] l.state = "SqlString" /\ car = l.apice -> "Normal"
    [] l.state = "Escape" /\ car = l.apice -> "SqlString"
    [] l.state = "SqlString" /\ car = "backslash" /\ ~noBackslashEscapes -> "Escape"
    [] l.state = "Backtick" /\ car = "grave" -> "Normal"
    [] l.state = "Normal" /\ car = "grave" -> "Backtick"
    [] OTHER -> l.state

Legge(l, car, dueBarre) ==
  LET state == Stato(l, car, dueBarre) IN
    [state    |-> state,
     apice    |-> IF state \notin {"SqlString", "Escape"} THEN "dq"
                  ELSE IF l.state = "Normal" THEN car ELSE l.apice,
     lastChar |-> IF state = "Normal" \/ (state = "SlashStarComment" /\ car = "*")
                  THEN Classe(car) ELSE "x"]

-----------------------------------------------------------------------------
(* parameterParts and canAggregateSemiColon.                                *)

\* A character of the default branch, not less than '(': it begins a new query
\* after a semicolon.
Riparte(car) == car \in Parole \cup {"(", ")", "virgola"}

\* What becomes of multipleQueriesPrepare: the end of the line of a comment sets it,
\* whatever came before.
Multiple(p, car) ==
  IF p.lex.state = "EOLComment" /\ car = "nl" THEN TRUE
  ELSE IF p.lex.state # "Normal" THEN p.multipleQueriesPrepare
  ELSE IF car = "semicolon" \/ (car = "-" /\ p.lex.lastChar = "-") THEN FALSE
  ELSE p.multipleQueriesPrepare \/ (p.endingSemicolon /\ Riparte(car))

parameterParts(car) == LET normale == parti.lex.state = "Normal" IN
  parti' = [lex             |-> Legge(parti.lex, car, TRUE),
            partList        |-> parti.partList + (IF normale /\ car = "?" THEN 1 ELSE 0),
            endingSemicolon |-> IF normale /\ car = "semicolon" THEN TRUE
                                ELSE parti.endingSemicolon /\ ~(normale /\ Riparte(car)),
            multipleQueriesPrepare |-> Multiple(parti, car)]

\* Mutated: in any state.
FinaleOvunque(u, car) ==
  IF u.lex.state = "Normal" /\ car = "semicolon" THEN TRUE
  ELSE IF Riparte(car) \/ car = "?" THEN FALSE
  ELSE u.endingSemicolon

\* A question mark has no branch of its own here.
Finale(u, car) ==
  IF u.lex.state = "Normal" /\ car = "semicolon" THEN TRUE
  ELSE IF u.lex.state = "Normal" /\ (Riparte(car) \/ car = "?") THEN FALSE
  ELSE u.endingSemicolon

canAggregateSemiColon(car) ==
  unione' = [lex             |-> Legge(unione.lex, car, FALSE),
             endingSemicolon |-> Finale(unione, car)]

Aggregabile == unione.lex.state # "EOLComment" /\ ~unione.endingSemicolon

-----------------------------------------------------------------------------
(* rewritableParts.  A piece is TRUE when it is not empty.                  *)

\* Mutated: a parameter after the group leaves the query rewritable.
ParametroRiscrivibile(r) ==
  LET pre1 == r.preValuePart1 \/ r.sb
      sb   == r.sb /\ r.preValuePart1 IN
  IF ~r.preValuePart2
  THEN [r EXCEPT !.preValuePart1 = pre1, !.preValuePart2 = sb, !.sb = FALSE]
  ELSE [r EXCEPT !.preValuePart1 = pre1, !.postValuePart = FALSE, !.sb = FALSE, !.partList = @ + 1]

\* A question mark: the text before it is the first piece that is still empty,
\* or one more element of partList.
Parametro(r) ==
  LET pre1 == r.preValuePart1 \/ r.sb
      sb   == r.sb /\ r.preValuePart1 IN
  IF ~r.preValuePart2
  THEN [r EXCEPT !.preValuePart1 = pre1, !.preValuePart2 = sb, !.sb = FALSE]
  ELSE [r EXCEPT !.preValuePart1 = pre1, !.postValuePart = FALSE, !.sb = FALSE, !.partList = @ + 1,
                 !.reWritablePrepare = @ /\ ~r.postValuePart]

\* Mutated: VALUES must follow a blank.
PuoDirsiValuesDopoBianco(r) == ~r.preValuePart1 /\ r.lex.lastChar = "blank"

\* VALUES ends the first piece, unless lastChar is a letter or the like.  Its
\* letters then go through no default branch.
PuoDirsiValues(r) ==
  ~r.preValuePart1 /\ r.lex.lastChar \in {"blank", "'", ")", "dollaro"}

\* The last parenthesis of the group with the first parameter.
Chiusa(r) ==
  LET fine == r.isInParenthesis = 1 /\ r.preValuePart2 /\ ~r.postValuePart IN
    [r EXCEPT !.isInParenthesis = @ - 1, !.postValuePart = @ \/ fine, !.sb = ~fine]

\* The default branch, for a word or one character; the words it looks for.
Parola(r, car) ==
  [r EXCEPT !.sb = TRUE,
            !.isFirstChar = FALSE,
            !.isInsert = @ \/ (r.isFirstChar /\ car \in {"INSERT", "i"}),
            !.multipleQueriesPrepare = @ \/ r.semicolon,
            !.reWritablePrepare =
              @ /\ ~r.semicolon /\ car # "LAST_INSERT_ID"
                /\ ~(car = "SELECT" /\ ~r.postValuePart
                     /\ r.lex.lastChar \in {"blank", ")", "-", "virgola"})]

\* Mutated: a comment to the end of the line leaves multipleQueriesPrepare.
SimboloSenzaTrattini(r, car) ==
  [r EXCEPT !.sb = TRUE,
            !.isInParenthesis = @ + (IF car = "(" THEN 1 ELSE 0),
            !.semicolon = @ \/ car = "semicolon",
            !.multipleQueriesPrepare = @ /\ car # "semicolon"]

Simbolo(r, car) ==
  [r EXCEPT !.sb = TRUE,
            !.isInParenthesis = @ + (IF car = "(" THEN 1 ELSE 0),
            !.semicolon = @ \/ car = "semicolon",
            !.multipleQueriesPrepare =
              @ /\ car # "semicolon" /\ ~(car = "-" /\ r.lex.lastChar = "-")]

Spezza(r, car) ==
  LET values == car \in {"VALUES", "VALUES_dollaro"} /\ PuoDirsiValues(r) IN
  IF r.lex.state # "Normal" THEN [r EXCEPT !.sb = TRUE]
  ELSE CASE car = "?"    -> Parametro(r)
         [] car = ")"    -> Chiusa(r)
         [] values       -> [r EXCEPT !.preValuePart1 = TRUE, !.sb = TRUE]
         [] car \in Parole \cap Aperte -> Simbolo(Parola(r, car), "(")
         [] car \in (Parole \ Aperte) \cup {"virgola"} /\ ~values -> Parola(r, car)
         [] car \notin Parole \cup {"?", ")", "virgola"} -> Simbolo(r, car)

rewritableParts(car) ==
  riscritta' = [Spezza(riscritta, car) EXCEPT !.lex = Legge(riscritta.lex, car, FALSE)]

\* paramCount of a text with parameters: partList gets four elements more at
\* the end of the function, and three of the list are no parameter's.
ParamCount == riscritta.partList + 1

Riscrivibile == riscritta.reWritablePrepare /\ riscritta.isInsert

-----------------------------------------------------------------------------
(* MariaDB.                                                                 *)

\* Where car leaves the reading of the text: "fuori" of strings and comments, in
\* what a quote, "/*", "#" or "--" began, or after two dashes that are a comment
\* only if a blank follows.
Dove(s, car) ==
  CASE s.dove = "fuori" /\ car \in Apici \cup {"grave", "#"}    -> car
    [] s.dove = "fuori" /\ car = "*" /\ s.prec = "/"        -> "/*"
    [] s.dove = "fuori" /\ car = "-" /\ s.prec = "-"        -> "--?"
    [] s.dove = "--?"                                       -> IF car = "nl" THEN "fuori" ELSE "--"
    [] s.dove \in {"--", "#"} /\ car = "nl"                 -> "fuori"
    [] s.dove = "/*" /\ car = "/" /\ s.prec = "*"           -> "fuori"
    [] s.dove \in Apici \cup {"grave"} /\ car = s.dove /\ ~s.salta -> "fuori"
    [] OTHER                                                -> s.dove

\* Comments on which the functions take another view than MariaDB, or than one
\* another.
Ambiguo(s, car) ==
  \/ s.dove = "--?" /\ car \notin Bianchi                 \* a--b
  \/ s.dove = "/*" /\ s.prec = "aperto" /\ car = "/"      \* /*/
  \/ s.dove = "fuori" /\ s.prec = "chiuso" /\ car \in {"*", "/"}
  \/ s.dove = "fuori" /\ s.prec = "/" /\ car = "/"        \* for parameterParts

\* Part of a query.
Conta(car) == car \in Parole \cup Apici \cup {"grave", "(", ")", "?", "virgola", "dollaro"}

\* A word of SQL: it is not the rest of a name.
Chiave(s, car) == car \in Parole \ {"x", "i", "VALUES_dollaro"} /\ s.prec # "dollaro"

Select(s, car) == car \in {"SELECT", "SELECT_stella"} /\ Chiave(s, car)
LastId(s, car) == car \in {"LAST_INSERT_ID", "LAST_INSERT_ID_blank"} /\ Chiave(s, car)

\* What the query that a batch repeats by its values must not have: another
\* first word than INSERT, a second query, LAST_INSERT_ID(), a SELECT before the
\* group of the first parameter ends, a parameter after it.
Vietato(s, car) ==
  \/ car \in Parole /\ ~s.iniziata /\ ~(car = "INSERT" /\ Chiave(s, car))
  \/ car \in Parole /\ s.punto
  \/ LastId(s, car)
  \/ Select(s, car) /\ ~s.gruppo
  \/ car = "?" /\ s.gruppo

\* Of that, what rewritableParts does not look for: a first word that only begins
\* like INSERT, or is VALUES; a second query that begins with VALUES, the first of the
\* text; a blank before the parenthesis of LAST_INSERT_ID(); a SELECT that touches a
\* quote, a comment or "*".
Nascosto(s, car) ==
  \/ ~s.iniziata /\ (s.prec = "dollaro" \/ car \in {"i", "VALUES", "VALUES_dollaro"})
  \/ s.punto /\ ~s.valori /\ car \in {"VALUES", "VALUES_dollaro"}
  \/ s.iniziata /\ ~s.punto /\ car \in {"SELECT_stella", "LAST_INSERT_ID_blank"}
  \/ /\ s.iniziata /\ ~s.punto /\ car = "SELECT"
     /\ s.prec \notin {"blank", ")", "-", "virgola"}

ServerLegge(car) == LET s == server  dove == Dove(s, car)  fuori == s.dove = "fuori" IN
  server' =
    [dove      |-> dove,
     prec      |-> IF fuori /\ dove = "/*" THEN "aperto"
                   ELSE IF s.dove = "/*" /\ dove = "fuori" THEN "chiuso"
                   ELSE IF dove = "fuori" \/ (dove = "/*" /\ car = "*") THEN Classe(car)
                   ELSE "x",
     salta     |-> s.dove \in Apici /\ car = "backslash" /\ ~s.salta /\ ~noBackslashEscapes,
     parametri |-> s.parametri + (IF fuori /\ car = "?" THEN 1 ELSE 0),
     parentesi |-> IF fuori /\ car \in Aperte THEN s.parentesi + 1
                   ELSE IF fuori /\ car = ")" THEN s.parentesi - 1 ELSE s.parentesi,
     \* nothing of a query after the last semicolon, or a comment line at most
     vuota     |-> IF fuori /\ car = "semicolon" THEN "si"
                   ELSE IF s.vuota = "no" \/ (fuori /\ Conta(car)) THEN "no"
                   ELSE IF s.dove \in {"#", "--?", "--"} /\ car = "nl" THEN "riga"
                   ELSE s.vuota,
     punto     |-> s.punto \/ (fuori /\ car = "semicolon"),
     iniziata  |-> s.iniziata \/ (fuori /\ car \in Parole),
     \* a VALUES before the first parameter, on its own: it does not touch a comment,
     \* a name in backquotes or an operator
     valori    |-> s.valori \/ (fuori /\ car = "VALUES" /\ Chiave(s, car)
                                /\ s.prec \in {"blank", ")", "'"} /\ s.parametri = 0),
     \* the group of the first parameter has ended
     gruppo    |-> s.gruppo \/ (fuori /\ car = ")" /\ s.parentesi = 1 /\ s.parametri > 0),
     \* the query must not be repeated by its values, for what is looked for
     vietato   |-> s.vietato \/ (fuori /\ Vietato(s, car) /\ ~Nascosto(s, car))]

-----------------------------------------------------------------------------
Inizio == [state |-> "Normal", apice |-> "dq", lastChar |-> "blank"]

Init ==
  /\ noBackslashEscapes \in BOOLEAN
  /\ parti = [lex |-> Inizio, partList |-> 0, endingSemicolon |-> FALSE,
              multipleQueriesPrepare |-> TRUE]
  /\ unione = [lex |-> Inizio, endingSemicolon |-> FALSE]
  /\ riscritta = [lex |-> Inizio, partList |-> 0, sb |-> FALSE,
                  preValuePart1 |-> FALSE, preValuePart2 |-> FALSE, postValuePart |-> FALSE,
                  isInParenthesis |-> 0, isFirstChar |-> TRUE, isInsert |-> FALSE,
                  semicolon |-> FALSE, reWritablePrepare |-> TRUE,
                  multipleQueriesPrepare |-> TRUE]
  /\ server = [dove |-> "fuori", prec |-> "blank", salta |-> FALSE, parametri |-> 0, parentesi |-> 0,
               vuota |-> "no", punto |-> FALSE, iniziata |-> FALSE, valori |-> FALSE,
               gruppo |-> FALSE, vietato |-> FALSE]

\* A text whose comments all read alike, with its parentheses balanced; within
\* strings and comments a word or a blank is like any other letter, outside of
\* them the end of a line is a blank, there is no backslash, and a word is
\* read to its end.
Lecito(car) ==
  /\ ~Ambiguo(server, car)
  /\ server.dove \notin {"fuori", "--?"} => car \notin (Parole \cup {"blank"}) \ {"x"}
  /\ server.dove = "fuori" => car \notin {"nl", "backslash"}
  /\ server.dove = "fuori" =>
       /\ car \in Parole \cup {"dollaro"} => server.prec # "x"
       /\ car = "?" => server.parametri < MaxParametri
       /\ car \in Aperte => server.parentesi < MaxParentesi
       /\ car = ")" => server.parentesi > 0

\* One more character, read by all.
Carattere(car) ==
  /\ Lecito(car)
  /\ parameterParts(car)
  /\ canAggregateSemiColon(car)
  /\ rewritableParts(car)
  /\ ServerLegge(car)
  /\ UNCHANGED noBackslashEscapes

Next == \E car \in Caratteri : Carattere(car)

Spec == Init /\ [][Next]_vars

-----------------------------------------------------------------------------
(* Properties.                                                              *)

\* The text may be a whole query: no string or comment is open.
Intera == server.dove \notin Apici \cup {"grave", "/*"}

\* parameterParts finds the parameters MariaDB would find.
ParametriTrovati == parti.partList = server.parametri

\* A semicolon after a query that canAggregateSemiColon accepts ends it: it is
\* not in a comment, nor after another one.
PuntoEVirgolaSepara ==
  Intera /\ Aggregabile => server.dove = "fuori" /\ server.vuota = "no"

\* rewritableParts finds no parameter that is not there, and all of them if VALUES
\* comes before the first, unless it touches a comment, a name in backquotes or
\* an operator: it does not recognise that one.
RiscrittiContati ==
  server.parametri > 0 =>
    /\ ParamCount <= server.parametri
    /\ server.valori => ParamCount = server.parametri

\* A query that a batch repeats by its values is one INSERT, without
\* LAST_INSERT_ID(), with no SELECT in what is repeated and all its parameters in
\* one group, apart from what rewritableParts does not look for (Nascosto) and
\* from a VALUES that it does not recognise.
RiscrivibileUnGruppo ==
  server.valori /\ Riscrivibile => ~server.vietato

\* A query that a batch may repeat after a semicolon ends in no comment, unless
\* that is one after #, and not in a semicolon, unless parameterParts has seen a
\* comment line after it.
RipetibileSeparata ==
  Intera =>
    /\ riscritta.multipleQueriesPrepare =>
         server.dove \in {"fuori", "#"} /\ server.vuota = "no"
    /\ parti.multipleQueriesPrepare =>
         server.dove \in {"fuori", "#"} /\ server.vuota \in {"no", "riga"}
=============================================================================
