-------------------------- MODULE SegnapostoProofs --------------------------
(***************************************************************************)
(* The text of a query, of any length and with any number of parameters and *)
(* of nested parentheses.                                                   *)
(*                                                                          *)
(* On a text whose comments all read alike the three functions and MariaDB  *)
(* are always in the same place (Concorda); so the parameters, the ends of  *)
(* the queries and the group that a batch repeats are those MariaDB sees.   *)
(***************************************************************************)
EXTENDS Segnaposto, TLAPS

Classi == {"blank", "'", "/", "*", "dollaro", "virgola", "-", ")", "grave", "x"}
Luoghi == {"fuori", "'", "dq", "grave", "#", "/*", "--?", "--"}

Parti == [lex : Lexer, partList : Nat, endingSemicolon : BOOLEAN,
          multipleQueriesPrepare : BOOLEAN]

Riscritte == [lex : Lexer, partList : Nat,
              sb : BOOLEAN, preValuePart1 : BOOLEAN, preValuePart2 : BOOLEAN,
              postValuePart : BOOLEAN, isInParenthesis : Int,
              isFirstChar : BOOLEAN, isInsert : BOOLEAN, semicolon : BOOLEAN,
              reWritablePrepare : BOOLEAN, multipleQueriesPrepare : BOOLEAN]

Server == [dove : Luoghi, prec : Classi \cup {"aperto", "chiuso"}, salta : BOOLEAN,
           parametri : 0..MaxParametri, parentesi : 0..MaxParentesi,
           vuota : {"no", "si", "riga"}, punto : BOOLEAN, iniziata : BOOLEAN,
           valori : BOOLEAN, gruppo : BOOLEAN, vietato : BOOLEAN]

SegnTipi ==
  /\ noBackslashEscapes \in BOOLEAN
  /\ parti \in Parti
  /\ unione \in [lex : Lexer, endingSemicolon : BOOLEAN]
  /\ riscritta \in Riscritte
  /\ server \in Server

\* A function and MariaDB are in the same place of the text, and know the same
\* of the character before.
Concorda(l, s) ==
  /\ l.state = "Normal" <=> s.dove = "fuori"
  /\ l.state = "Backtick" <=> s.dove = "grave"
  /\ l.state = "EOLComment" <=> s.dove \in {"#", "--?", "--"}
  /\ l.state = "SlashStarComment" <=> s.dove = "/*"
  /\ l.state = "Escape" <=> s.salta
  /\ s.dove \in Apici => l.apice = s.dove
  /\ s.prec = "aperto" => s.dove = "/*" /\ l.lastChar = "*"
  /\ s.prec = "chiuso" => s.dove = "fuori" /\ l.lastChar = "/"
  /\ s.dove \in {"fuori", "/*"} /\ s.prec \notin {"aperto", "chiuso"} => l.lastChar = s.prec

\* The pieces and the parameters: once VALUES has ended the first piece, some
\* text waits for the first parameter.
Contati(r, s) ==
  /\ r.isInParenthesis = s.parentesi
  /\ s.parametri = 0 => r.partList = 0 /\ ~r.preValuePart2 /\ ~r.postValuePart
  /\ s.parametri > 0 => r.partList < s.parametri
  /\ s.valori => r.preValuePart1
  /\ s.parametri = 0 /\ r.preValuePart1 => r.sb
  /\ s.valori /\ s.parametri > 0 => r.preValuePart2 /\ r.partList + 1 = s.parametri

\* What has made the query one that cannot be repeated has been seen.
Repliche(r, s) ==
  /\ s.punto <=> r.semicolon
  /\ r.multipleQueriesPrepare => s.dove \notin {"--?", "--"} /\ s.vuota = "no"
  /\ r.postValuePart => s.gruppo
  /\ s.gruppo => s.parametri > 0
  /\ s.valori /\ s.gruppo => r.postValuePart \/ ~r.reWritablePrepare
  /\ ~s.iniziata => ~r.isInsert
  /\ s.vietato => \/ ~r.reWritablePrepare
                  \/ ~r.isInsert /\ ~r.isFirstChar
                  \/ ~s.valori /\ s.parametri > 0

SegnInv ==
  /\ SegnTipi
  /\ Concorda(parti.lex, server) /\ Concorda(unione.lex, server) /\ Concorda(riscritta.lex, server)
  /\ parti.partList = server.parametri
  /\ server.vuota # "no" => unione.endingSemicolon
  /\ parti.multipleQueriesPrepare => server.dove \notin {"--?", "--"} /\ server.vuota # "si"
  /\ Contati(riscritta, server)
  /\ Repliche(riscritta, server)

-----------------------------------------------------------------------------
(* The common part.                                                         *)

LEMMA ClasseDi ==
  ASSUME NEW car \in Caratteri
  PROVE  /\ Classe(car) \in Classi
         /\ car \in {"/", "*", "-"} => Classe(car) = car
<1>1. Classe(car) \in Classi BY Zenon DEF Classe, Classi
<1>2. ASSUME car \in {"/", "*", "-"} PROVE Classe(car) = car
  <2>1. car \notin Bianchi \cup Aperte \cup {"VALUES", "SELECT"} /\ car \notin Apici \cup {"#"}
    BY <1>2 DEF Bianchi, Aperte, Apici
  <2>2. CASE car = "/" BY <2>1, <2>2, Zenon DEF Classe
  <2>3. CASE car = "*" BY <2>1, <2>3, Zenon DEF Classe
  <2>4. CASE car = "-" BY <2>1, <2>4, Zenon DEF Classe
  <2> QED BY <1>2, <2>2, <2>3, <2>4
<1> QED BY <1>1, <1>2

LEMMA ClasseNeiLexer ==
  /\ \A car \in Caratteri : Classe(car) \in {Classe(c) : c \in Caratteri}
  /\ "x" \in {Classe(c) : c \in Caratteri} /\ "blank" \in {Classe(c) : c \in Caratteri}
  /\ {Classe(c) : c \in Caratteri} \subseteq Classi
<1>1. "x" \in Caratteri /\ "nl" \in Caratteri BY DEF Caratteri, Parole, Bianchi
<1>2. Classe("x") = "x" BY Zenon DEF Classe, Bianchi, Aperte, Apici
<1>3. Classe("nl") = "blank" BY Zenon DEF Classe, Bianchi, Aperte, Apici
<1>4. \A car \in Caratteri : Classe(car) \in Classi BY ClasseDi
<1> QED BY <1>1, <1>2, <1>3, <1>4, Zenon

\* Stato, one place of the text at a time.
LEMMA StatoNormale ==
  ASSUME NEW l, NEW car, NEW dueBarre, l.state = "Normal"
  PROVE  LET s == Stato(l, car, dueBarre) IN
         /\ car = "*" /\ l.lastChar = "/" => s = "SlashStarComment"
         /\ car = "/" /\ l.lastChar = "/" /\ dueBarre => s = "EOLComment"
         /\ car = "#" \/ (car = "-" /\ l.lastChar = "-") => s = "EOLComment"
         /\ car \in Apici => s = "SqlString"
         /\ car = "grave" => s = "Backtick"
         /\ car \notin Apici \cup {"grave", "#"} /\ ~(car = "*" /\ l.lastChar = "/")
            /\ ~(car = "/" /\ l.lastChar = "/" /\ dueBarre)
            /\ ~(car = "-" /\ l.lastChar = "-") => s = "Normal"
<1>1. ASSUME car = "*", l.lastChar = "/" PROVE Stato(l, car, dueBarre) = "SlashStarComment"
  BY <1>1, Zenon DEF Stato, Protetto, Apici
<1>2. ASSUME car = "/", l.lastChar = "/", dueBarre PROVE Stato(l, car, dueBarre) = "EOLComment"
  BY <1>2, Zenon DEF Stato, Protetto, Apici
<1>3. ASSUME car = "#" \/ (car = "-" /\ l.lastChar = "-")
      PROVE  Stato(l, car, dueBarre) = "EOLComment"
  BY <1>3, Zenon DEF Stato, Protetto, Apici
<1>4. ASSUME car \in Apici PROVE Stato(l, car, dueBarre) = "SqlString"
  BY <1>4, Zenon DEF Stato, Protetto, Apici
<1>5. ASSUME car = "grave" PROVE Stato(l, car, dueBarre) = "Backtick"
  BY <1>5, Zenon DEF Stato, Protetto, Apici
<1>6. ASSUME car \notin Apici \cup {"grave", "#"}, ~(car = "*" /\ l.lastChar = "/"),
             ~(car = "/" /\ l.lastChar = "/" /\ dueBarre), ~(car = "-" /\ l.lastChar = "-")
      PROVE  Stato(l, car, dueBarre) = "Normal"
  BY <1>6, Zenon DEF Stato, Protetto, Apici
<1> QED BY <1>1, <1>2, <1>3, <1>4, <1>5, <1>6, Zenon

LEMMA StatoStringa ==
  ASSUME NEW l, NEW car, NEW dueBarre, l.apice \in Apici
  PROVE  LET s == Stato(l, car, dueBarre) IN
         /\ l.state = "SqlString" =>
              /\ car = l.apice => s = "Normal"
              /\ car = "backslash" /\ ~noBackslashEscapes => s = "Escape"
              /\ car # l.apice /\ ~(car = "backslash" /\ ~noBackslashEscapes) => s = "SqlString"
         /\ l.state = "Escape" => s = "SqlString"
<1>1. ASSUME l.state = "SqlString", car = l.apice PROVE Stato(l, car, dueBarre) = "Normal"
  BY <1>1, Zenon DEF Stato, Protetto, Apici
<1>2. ASSUME l.state = "SqlString", car = "backslash", ~noBackslashEscapes
      PROVE  Stato(l, car, dueBarre) = "Escape"
  BY <1>2, Zenon DEF Stato, Protetto, Apici
<1>3. ASSUME l.state = "SqlString", car # l.apice, ~(car = "backslash" /\ ~noBackslashEscapes)
      PROVE  Stato(l, car, dueBarre) = "SqlString"
  BY <1>3, Zenon DEF Stato, Protetto
<1>4. ASSUME l.state = "Escape", car # l.apice PROVE Stato(l, car, dueBarre) = "SqlString"
  BY <1>4, Zenon DEF Stato, Protetto, Apici
<1>5. ASSUME l.state = "Escape", car = l.apice PROVE Stato(l, car, dueBarre) = "SqlString"
  BY <1>5, Zenon DEF Stato, Protetto, Apici
<1> QED BY <1>1, <1>2, <1>3, <1>4, <1>5, Zenon

LEMMA StatoAltro ==
  ASSUME NEW l, NEW car, NEW dueBarre
  PROVE  LET s == Stato(l, car, dueBarre) IN
         /\ l.state = "SlashStarComment" =>
              /\ car = "/" /\ l.lastChar = "*" => s = "Normal"
              /\ ~(car = "/" /\ l.lastChar = "*") => s = "SlashStarComment"
         /\ l.state = "EOLComment" => s = IF car = "nl" THEN "Normal" ELSE "EOLComment"
         /\ l.state = "Backtick" => s = IF car = "grave" THEN "Normal" ELSE "Backtick"
<1>1. ASSUME l.state = "SlashStarComment", car = "/", l.lastChar = "*"
      PROVE  Stato(l, car, dueBarre) = "Normal"
  BY <1>1, Zenon DEF Stato, Protetto
<1>2. ASSUME l.state = "SlashStarComment", ~(car = "/" /\ l.lastChar = "*")
      PROVE  Stato(l, car, dueBarre) = "SlashStarComment"
  BY <1>2, Zenon DEF Stato, Protetto
<1>3. ASSUME l.state = "EOLComment"
      PROVE  Stato(l, car, dueBarre) = IF car = "nl" THEN "Normal" ELSE "EOLComment"
  BY <1>3, Zenon DEF Stato, Protetto
<1>4. ASSUME l.state = "Backtick"
      PROVE  Stato(l, car, dueBarre) = IF car = "grave" THEN "Normal" ELSE "Backtick"
  BY <1>4, Zenon DEF Stato, Protetto
<1> QED BY <1>1, <1>2, <1>3, <1>4, Zenon

LEMMA LeggeDi ==
  ASSUME NEW l, NEW car, NEW dueBarre
  PROVE  LET s == Stato(l, car, dueBarre)
             m == Legge(l, car, dueBarre) IN
         /\ m = [state |-> m.state, apice |-> m.apice, lastChar |-> m.lastChar]
         /\ m.state = s
         /\ s \notin {"SqlString", "Escape"} => m.apice = "dq"
         /\ s \in {"SqlString", "Escape"} /\ l.state = "Normal" => m.apice = car
         /\ s \in {"SqlString", "Escape"} /\ l.state # "Normal" => m.apice = l.apice
         /\ s = "Normal" \/ (s = "SlashStarComment" /\ car = "*") => m.lastChar = Classe(car)
         /\ ~(s = "Normal" \/ (s = "SlashStarComment" /\ car = "*")) => m.lastChar = "x"
BY DEF Legge

\* MariaDB, one place of the text at a time.
LEMMA DoveFuori ==
  ASSUME NEW s, NEW car, s.dove = "fuori"
  PROVE  /\ car \in Apici \cup {"grave", "#"} => Dove(s, car) = car
         /\ car = "*" /\ s.prec = "/" => Dove(s, car) = "/*"
         /\ car = "-" /\ s.prec = "-" => Dove(s, car) = "--?"
         /\ car \notin Apici \cup {"grave", "#"} /\ ~(car = "*" /\ s.prec = "/")
            /\ ~(car = "-" /\ s.prec = "-") => Dove(s, car) = "fuori"
<1>1. ASSUME car \in Apici \cup {"grave", "#"} PROVE Dove(s, car) = car
  BY <1>1, Zenon DEF Dove, Apici
<1>2. ASSUME car = "*", s.prec = "/" PROVE Dove(s, car) = "/*"
  BY <1>2, Zenon DEF Dove, Apici
<1>3. ASSUME car = "-", s.prec = "-" PROVE Dove(s, car) = "--?"
  BY <1>3, Zenon DEF Dove, Apici
<1>4. ASSUME car \notin Apici \cup {"grave", "#"}, ~(car = "*" /\ s.prec = "/"),
             ~(car = "-" /\ s.prec = "-")
      PROVE  Dove(s, car) = "fuori"
  BY <1>4, Zenon DEF Dove, Apici
<1> QED BY <1>1, <1>2, <1>3, <1>4, Zenon

LEMMA DoveDentro ==
  ASSUME NEW s, NEW car
  PROVE  /\ s.dove = "--?" => Dove(s, car) = IF car = "nl" THEN "fuori" ELSE "--"
         /\ s.dove \in {"--", "#"} => Dove(s, car) = IF car = "nl" THEN "fuori" ELSE s.dove
         /\ s.dove = "/*" => Dove(s, car) = IF car = "/" /\ s.prec = "*" THEN "fuori" ELSE "/*"
         /\ s.dove \in Apici \cup {"grave"} =>
              Dove(s, car) = IF car = s.dove /\ ~s.salta THEN "fuori" ELSE s.dove
<1>1. ASSUME s.dove = "--?" PROVE Dove(s, car) = IF car = "nl" THEN "fuori" ELSE "--"
  BY <1>1, Zenon DEF Dove, Apici
<1>2. ASSUME s.dove \in {"--", "#"} PROVE Dove(s, car) = IF car = "nl" THEN "fuori" ELSE s.dove
  BY <1>2, Zenon DEF Dove, Apici
<1>3. ASSUME s.dove = "/*"
      PROVE  Dove(s, car) = IF car = "/" /\ s.prec = "*" THEN "fuori" ELSE "/*"
  BY <1>3, Zenon DEF Dove, Apici
<1>4. ASSUME s.dove \in Apici \cup {"grave"}
      PROVE  Dove(s, car) = IF car = s.dove /\ ~s.salta THEN "fuori" ELSE s.dove
  BY <1>4, Zenon DEF Dove, Apici
<1> QED BY <1>1, <1>2, <1>3, <1>4, Zenon

\* What MariaDB knows after a character, field by field.
LEMMA ServerDi ==
  ASSUME server \in Server, NEW car \in Caratteri, ServerLegge(car)
  PROVE  /\ server'.dove = Dove(server, car)
         /\ server.dove = "fuori" /\ server'.dove = "/*" => server'.prec = "aperto"
         /\ server.dove = "/*" /\ server'.dove = "fuori" => server'.prec = "chiuso"
         /\ ~(server.dove = "fuori" /\ server'.dove = "/*")
            /\ ~(server.dove = "/*" /\ server'.dove = "fuori") =>
              /\ server'.dove = "fuori" \/ (server'.dove = "/*" /\ car = "*") =>
                   server'.prec = Classe(car)
              /\ ~(server'.dove = "fuori" \/ (server'.dove = "/*" /\ car = "*")) =>
                   server'.prec = "x"
         /\ server'.salta <=> server.dove \in Apici /\ car = "backslash" /\ ~server.salta
                              /\ ~noBackslashEscapes
BY DEF ServerLegge

\* One more character, and they are in the same place again.
LEMMA Avanza ==
  ASSUME noBackslashEscapes \in BOOLEAN, server \in Server, NEW car \in Caratteri, Lecito(car),
         ServerLegge(car), NEW l \in Lexer, Concorda(l, server), NEW dueBarre
  PROVE  /\ Legge(l, car, dueBarre) \in Lexer
         /\ Concorda(Legge(l, car, dueBarre), server')
         /\ server'.dove \in Luoghi /\ server'.prec \in Classi \cup {"aperto", "chiuso"}
<1> DEFINE m == Legge(l, car, dueBarre)
           n == Stato(l, car, dueBarre)
           c == Classe(car)
           d == server'.dove
<1>1. /\ m = [state |-> m.state, apice |-> m.apice, lastChar |-> m.lastChar]
      /\ m.state = n
      /\ n \notin {"SqlString", "Escape"} => m.apice = "dq"
      /\ n \in {"SqlString", "Escape"} /\ l.state = "Normal" => m.apice = car
      /\ n \in {"SqlString", "Escape"} /\ l.state # "Normal" => m.apice = l.apice
      /\ n = "Normal" \/ (n = "SlashStarComment" /\ car = "*") => m.lastChar = c
      /\ ~(n = "Normal" \/ (n = "SlashStarComment" /\ car = "*")) => m.lastChar = "x"
  BY LeggeDi, Zenon
<1>2. /\ d = Dove(server, car)
      /\ server.dove = "fuori" /\ d = "/*" => server'.prec = "aperto"
      /\ server.dove = "/*" /\ d = "fuori" => server'.prec = "chiuso"
      /\ ~(server.dove = "fuori" /\ d = "/*") /\ ~(server.dove = "/*" /\ d = "fuori") =>
           /\ d = "fuori" \/ (d = "/*" /\ car = "*") => server'.prec = c
           /\ ~(d = "fuori" \/ (d = "/*" /\ car = "*")) => server'.prec = "x"
      /\ server'.salta <=> server.dove \in Apici /\ car = "backslash" /\ ~server.salta
                           /\ ~noBackslashEscapes
  BY ServerDi, Zenon
<1>3. /\ c \in Classi
      /\ car \in {"/", "*"} => c = car
  BY ClasseDi
<1> DEFINE lc == {Classe(k) : k \in Caratteri}
<1>0. c \in lc /\ "x" \in lc /\ lc \subseteq Classi BY ClasseNeiLexer
<1> HIDE DEF lc
<1>4. c \notin {"aperto", "chiuso"} BY <1>3 DEF Classi
<1>5. /\ l.state \in Stati /\ l.apice \in Apici /\ l.lastChar \in lc
      /\ server.dove \in Luoghi /\ server.salta \in BOOLEAN
  BY DEF Lexer, Server, lc
<1> DEFINE Meta == /\ n \in Stati /\ m.apice \in Apici /\ d \in Luoghi
                   /\ Concorda(m, server')
<1>6. ASSUME server.dove = "fuori" PROVE Meta
  <2>1. l.state = "Normal" /\ car \notin {"nl", "backslash"} BY <1>6 DEF Concorda, Lecito
  <2>2. /\ car = "*" => (l.lastChar = "/" <=> server.prec = "/")
        /\ car = "/" => l.lastChar # "/"
        /\ car = "-" => (l.lastChar = "-" <=> server.prec = "-")
    BY <1>6 DEF Concorda, Lecito, Ambiguo
  <2>3. CASE car \in Apici \cup {"grave", "#"}
    <3>1. d = car BY <1>2, <1>6, <2>3, DoveFuori
    <3>2. /\ car \in Apici => n = "SqlString"
          /\ car = "grave" => n = "Backtick"
          /\ car = "#" => n = "EOLComment"
      BY <2>1, StatoNormale
    <3> HIDE DEF m, n, c
    <3> QED BY <1>1, <1>2, <1>3, <1>5, <1>6, <2>1, <2>3, <3>1, <3>2 DEF Concorda, Stati, Luoghi, Apici
  <2>4. CASE car = "*" /\ l.lastChar = "/"
    <3>1. d = "/*" BY <1>2, <1>6, <2>2, <2>4, DoveFuori
    <3>2. n = "SlashStarComment" BY <2>1, <2>4, StatoNormale
    <3> HIDE DEF m, n, c
    <3> QED BY <1>1, <1>2, <1>3, <1>5, <1>6, <2>1, <2>4, <3>1, <3>2 DEF Concorda, Stati, Luoghi, Apici
  <2>5. CASE car = "-" /\ l.lastChar = "-"
    <3>1. d = "--?" BY <1>2, <1>6, <2>2, <2>5, DoveFuori
    <3>2. n = "EOLComment" BY <2>1, <2>5, StatoNormale
    <3> HIDE DEF m, n, c
    <3> QED BY <1>1, <1>2, <1>3, <1>5, <1>6, <2>1, <2>5, <3>1, <3>2 DEF Concorda, Stati, Luoghi, Apici
  <2>6. CASE /\ car \notin Apici \cup {"grave", "#"} /\ ~(car = "*" /\ l.lastChar = "/")
             /\ ~(car = "-" /\ l.lastChar = "-")
    <3>1. d = "fuori" BY <1>2, <1>6, <2>2, <2>6, DoveFuori
    <3>2. n = "Normal" BY <2>1, <2>2, <2>6, StatoNormale
    <3> HIDE DEF m, n, c
    <3> QED BY <1>1, <1>2, <1>3, <1>4, <1>5, <1>6, <2>1, <2>6, <3>1, <3>2
            DEF Concorda, Stati, Luoghi, Apici
  <2> QED BY <2>3, <2>4, <2>5, <2>6
<1>7. ASSUME server.dove \in Apici PROVE Meta
  <2>1. /\ l.state \in {"SqlString", "Escape"} /\ l.apice = server.dove
        /\ l.state = "Escape" <=> server.salta
    BY <1>5, <1>7 DEF Concorda, Stati, Apici
  <2>2. d = IF car = server.dove /\ ~server.salta THEN "fuori" ELSE server.dove
    BY <1>2, <1>7, DoveDentro
  <2>3. /\ l.state = "SqlString" =>
             /\ car = l.apice => n = "Normal"
             /\ car = "backslash" /\ ~noBackslashEscapes => n = "Escape"
             /\ car # l.apice /\ ~(car = "backslash" /\ ~noBackslashEscapes) => n = "SqlString"
        /\ l.state = "Escape" => n = "SqlString"
    BY <1>5, StatoStringa, Zenon
  <2> HIDE DEF m, n, c
  <2> QED BY <1>1, <1>2, <1>4, <1>5, <1>7, <2>1, <2>2, <2>3 DEF Concorda, Stati, Luoghi, Apici
<1>8. ASSUME server.dove = "grave" PROVE Meta
  <2>1. l.state = "Backtick" BY <1>8 DEF Concorda
  <2>2. d = IF car = "grave" THEN "fuori" ELSE "grave" BY <1>2, <1>5, <1>8, <2>1, DoveDentro DEF Concorda
  <2>3. n = IF car = "grave" THEN "Normal" ELSE "Backtick" BY <2>1, StatoAltro
  <2> HIDE DEF m, n, c
  <2> QED BY <1>1, <1>2, <1>4, <1>5, <1>8, <2>1, <2>2, <2>3 DEF Concorda, Stati, Luoghi, Apici
<1>9. ASSUME server.dove \in {"#", "--?", "--"} PROVE Meta
  <2>1. l.state = "EOLComment" BY <1>9 DEF Concorda
  <2>2. IF car = "nl" THEN d = "fuori" ELSE d \in {"#", "--"} BY <1>2, <1>9, DoveDentro
  <2>3. n = IF car = "nl" THEN "Normal" ELSE "EOLComment" BY <2>1, StatoAltro
  <2> HIDE DEF m, n, c
  <2> QED BY <1>1, <1>2, <1>4, <1>5, <1>9, <2>1, <2>2, <2>3 DEF Concorda, Stati, Luoghi, Apici
<1>10. ASSUME server.dove = "/*" PROVE Meta
  <2>1. l.state = "SlashStarComment" BY <1>10 DEF Concorda
  <2>2. d = IF car = "/" /\ server.prec = "*" THEN "fuori" ELSE "/*" BY <1>2, <1>10, DoveDentro
  <2>3. /\ car = "/" /\ l.lastChar = "*" => n = "Normal"
        /\ ~(car = "/" /\ l.lastChar = "*") => n = "SlashStarComment"
    BY <2>1, StatoAltro
  <2>4. car = "/" => (l.lastChar = "*" <=> server.prec = "*")
    BY <1>10 DEF Concorda, Lecito, Ambiguo
  <2> HIDE DEF m, n, c
  <2> QED BY <1>1, <1>2, <1>3, <1>4, <1>5, <1>10, <2>1, <2>2, <2>3, <2>4
          DEF Concorda, Stati, Luoghi, Apici
<1>11. Meta BY <1>5, <1>6, <1>7, <1>8, <1>9, <1>10 DEF Luoghi, Apici
<1>12. m.lastChar \in lc /\ server'.prec \in Classi \cup {"aperto", "chiuso"}
  <2> HIDE DEF m, n, c
  <2> QED BY <1>0, <1>1, <1>2, <1>3 DEF Classi
<1>13. m \in Lexer
  <2> HIDE DEF m, n
  <2> QED BY <1>1, <1>11, <1>12 DEF Lexer, lc
<1> QED BY <1>11, <1>12, <1>13

\* The rest of what MariaDB knows: in a string or a comment only the end of a
\* comment line counts.
LEMMA ServerConta ==
  ASSUME server \in Server, NEW car \in Caratteri, Lecito(car), ServerLegge(car)
  PROVE  /\ server' \in [dove : {server'.dove}, prec : {server'.prec}, salta : BOOLEAN,
                         parametri : 0..MaxParametri, parentesi : 0..MaxParentesi,
                         vuota : {"no", "si", "riga"}, punto : BOOLEAN, iniziata : BOOLEAN,
                         valori : BOOLEAN, gruppo : BOOLEAN, vietato : BOOLEAN]
         /\ server.dove # "fuori" =>
              /\ server'.parametri = server.parametri /\ server'.parentesi = server.parentesi
              /\ server'.vuota = IF server.vuota # "no" /\ server.dove \in {"#", "--?", "--"}
                                    /\ car = "nl"
                                 THEN "riga" ELSE server.vuota
              /\ server'.punto = server.punto /\ server'.iniziata = server.iniziata
              /\ server'.valori = server.valori /\ server'.gruppo = server.gruppo
              /\ server'.vietato = server.vietato
         /\ server.dove = "fuori" =>
              /\ car = "?" => server'.parametri = server.parametri + 1
              /\ car # "?" => server'.parametri = server.parametri
              /\ car \in Aperte => server'.parentesi = server.parentesi + 1
              /\ car = ")" => server'.parentesi = server.parentesi - 1
              /\ car \notin Aperte \cup {")"} => server'.parentesi = server.parentesi
              /\ server'.vuota = IF car = "semicolon" THEN "si"
                                 ELSE IF Conta(car) THEN "no" ELSE server.vuota
              /\ server'.punto <=> server.punto \/ car = "semicolon"
              /\ server'.iniziata <=> server.iniziata \/ car \in Parole
              /\ server'.valori <=> server.valori \/ (car = "VALUES" /\ Chiave(server, car)
                                                      /\ server.prec \in {"blank", ")", "'"}
                                                      /\ server.parametri = 0)
              /\ server'.gruppo <=> server.gruppo \/ (car = ")" /\ server.parentesi = 1
                                                      /\ server.parametri > 0)
              /\ server'.vietato <=>
                   server.vietato \/ (Vietato(server, car) /\ ~Nascosto(server, car))
<1> DEFINE conta == Conta(car)
           chiave == Chiave(server, car)
           viet == Vietato(server, car) /\ ~Nascosto(server, car)
           fuori == server.dove = "fuori"
           p == server.parametri + (IF fuori /\ car = "?" THEN 1 ELSE 0)
           q == IF fuori /\ car \in Aperte THEN server.parentesi + 1
                ELSE IF fuori /\ car = ")" THEN server.parentesi - 1 ELSE server.parentesi
           v == IF fuori /\ car = "semicolon" THEN "si"
                ELSE IF server.vuota = "no" \/ (fuori /\ conta) THEN "no"
                ELSE IF server.dove \in {"#", "--?", "--"} /\ car = "nl" THEN "riga"
                ELSE server.vuota
<1>1. /\ server.parametri \in 0..MaxParametri /\ server.parentesi \in 0..MaxParentesi
      /\ server.dove = "fuori" =>
           /\ car = "?" => server.parametri < MaxParametri
           /\ car \in Aperte => server.parentesi < MaxParentesi
           /\ car = ")" => server.parentesi > 0
  BY DEF Server, Lecito
<1>2. /\ fuori /\ car = "?" => p = server.parametri + 1
      /\ ~(fuori /\ car = "?") => p = server.parametri
  BY <1>1
<1>3. /\ fuori /\ car \in Aperte => q = server.parentesi + 1
      /\ fuori /\ car = ")" => q = server.parentesi - 1
      /\ ~(fuori /\ car \in Aperte \cup {")"}) => q = server.parentesi
  BY DEF Aperte
<1>4. /\ server.vuota \in {"no", "si", "riga"} /\ server.punto \in BOOLEAN
      /\ server.iniziata \in BOOLEAN /\ server.valori \in BOOLEAN
      /\ server.gruppo \in BOOLEAN /\ server.vietato \in BOOLEAN
  BY DEF Server
<1>5. /\ server'.salta \in BOOLEAN
      /\ server'.parametri = p /\ server'.parentesi = q /\ server'.vuota = v
      /\ server'.punto = (server.punto \/ (fuori /\ car = "semicolon"))
      /\ server'.iniziata = (server.iniziata \/ (fuori /\ car \in Parole))
      /\ server'.valori = (server.valori \/ (fuori /\ car = "VALUES" /\ chiave
                                             /\ server.prec \in {"blank", ")", "'"}
                                             /\ server.parametri = 0))
      /\ server'.gruppo = (server.gruppo \/ (fuori /\ car = ")" /\ server.parentesi = 1
                                             /\ server.parametri > 0))
      /\ server'.vietato = (server.vietato \/ (fuori /\ viet))
      /\ server' = [dove |-> server'.dove, prec |-> server'.prec, salta |-> server'.salta,
                    parametri |-> server'.parametri, parentesi |-> server'.parentesi,
                    vuota |-> server'.vuota, punto |-> server'.punto,
                    iniziata |-> server'.iniziata, valori |-> server'.valori,
                    gruppo |-> server'.gruppo, vietato |-> server'.vietato]
  BY DEF ServerLegge
<1> HIDE DEF conta, viet, chiave
<1>6. v \in {"no", "si", "riga"} BY <1>4
<1>7. /\ fuori => v = IF car = "semicolon" THEN "si" ELSE IF conta THEN "no" ELSE server.vuota
      /\ ~fuori => v = IF server.vuota # "no" /\ server.dove \in {"#", "--?", "--"}
                          /\ car = "nl"
                       THEN "riga" ELSE server.vuota
  BY <1>4
<1> HIDE DEF p, q, v
<1>8. p \in 0..MaxParametri /\ q \in 0..MaxParentesi
  BY <1>1, <1>2, <1>3, SegnapostoAssumption
<1>9. /\ server'.punto \in BOOLEAN /\ server'.iniziata \in BOOLEAN /\ server'.valori \in BOOLEAN
      /\ server'.gruppo \in BOOLEAN /\ server'.vietato \in BOOLEAN
  BY <1>5
<1>10. server' \in [dove : {server'.dove}, prec : {server'.prec}, salta : BOOLEAN,
                    parametri : 0..MaxParametri, parentesi : 0..MaxParentesi,
                    vuota : {"no", "si", "riga"}, punto : BOOLEAN, iniziata : BOOLEAN,
                    valori : BOOLEAN, gruppo : BOOLEAN, vietato : BOOLEAN]
  BY <1>5, <1>6, <1>8, <1>9
<1> QED BY <1>2, <1>3, <1>4, <1>5, <1>7, <1>10 DEF conta, chiave, viet

-----------------------------------------------------------------------------
(* rewritableParts, one kind of character at a time.                        *)

LEMMA ParametroDi ==
  ASSUME NEW r \in Riscritte
  PROVE  /\ Parametro(r) \in Riscritte
         /\ Parametro(r).preValuePart1 <=> r.preValuePart1 \/ r.sb
         /\ Parametro(r).isInParenthesis = r.isInParenthesis
         /\ Parametro(r).semicolon <=> r.semicolon
         /\ Parametro(r).multipleQueriesPrepare <=> r.multipleQueriesPrepare
         /\ Parametro(r).isInsert = r.isInsert /\ Parametro(r).isFirstChar = r.isFirstChar
         /\ ~r.preValuePart2 =>
              /\ Parametro(r).preValuePart2 <=> r.preValuePart1 /\ r.sb
              /\ Parametro(r).partList = r.partList
              /\ Parametro(r).postValuePart <=> r.postValuePart
              /\ Parametro(r).reWritablePrepare <=> r.reWritablePrepare
         /\ r.preValuePart2 =>
              /\ Parametro(r).preValuePart2 /\ ~Parametro(r).postValuePart
              /\ Parametro(r).partList = r.partList + 1
              /\ Parametro(r).reWritablePrepare <=> r.reWritablePrepare /\ ~r.postValuePart
<1> DEFINE pre1 == r.preValuePart1 \/ r.sb
           sb == r.sb /\ r.preValuePart1
<1>1. CASE ~r.preValuePart2
  <2>1. Parametro(r) = [r EXCEPT !.preValuePart1 = pre1, !.preValuePart2 = sb, !.sb = FALSE]
    BY <1>1 DEF Parametro
  <2> QED BY <1>1, <2>1 DEF Riscritte
<1>2. CASE r.preValuePart2
  <2> DEFINE k == r.partList + 1
             w == r.reWritablePrepare /\ ~r.postValuePart
  <2>1. Parametro(r) =
          [r EXCEPT !.preValuePart1 = pre1, !.postValuePart = FALSE, !.sb = FALSE,
                    !.partList = k, !.reWritablePrepare = w]
    BY <1>2 DEF Parametro
  <2>2. k \in Nat /\ pre1 \in BOOLEAN /\ w \in BOOLEAN BY DEF Riscritte
  <2>3. /\ Parametro(r) \in Riscritte
        /\ Parametro(r).preValuePart1 = pre1 /\ Parametro(r).reWritablePrepare = w
        /\ Parametro(r).partList = k
        /\ Parametro(r).preValuePart2 = r.preValuePart2
        /\ ~Parametro(r).postValuePart
        /\ Parametro(r).isInParenthesis = r.isInParenthesis
        /\ Parametro(r).semicolon = r.semicolon
        /\ Parametro(r).multipleQueriesPrepare = r.multipleQueriesPrepare
        /\ Parametro(r).isInsert = r.isInsert /\ Parametro(r).isFirstChar = r.isFirstChar
    <3> HIDE DEF k, w, pre1
    <3> QED BY <2>1, <2>2 DEF Riscritte
  <2> QED BY <1>2, <2>3
<1> QED BY <1>1, <1>2

LEMMA ChiusaDi ==
  ASSUME NEW r \in Riscritte
  PROVE  /\ Chiusa(r) \in Riscritte
         /\ Chiusa(r).isInParenthesis = r.isInParenthesis - 1
         /\ Chiusa(r).postValuePart <=>
              r.postValuePart \/ (r.isInParenthesis = 1 /\ r.preValuePart2)
         /\ ~r.preValuePart2 => Chiusa(r).sb
         /\ Chiusa(r).partList = r.partList
         /\ Chiusa(r).preValuePart1 <=> r.preValuePart1
         /\ Chiusa(r).preValuePart2 <=> r.preValuePart2
         /\ Chiusa(r).semicolon <=> r.semicolon
         /\ Chiusa(r).reWritablePrepare <=> r.reWritablePrepare
         /\ Chiusa(r).multipleQueriesPrepare <=> r.multipleQueriesPrepare
         /\ Chiusa(r).isInsert = r.isInsert /\ Chiusa(r).isFirstChar = r.isFirstChar
<1> DEFINE fine == r.isInParenthesis = 1 /\ r.preValuePart2 /\ ~r.postValuePart
           k == r.isInParenthesis - 1
           post == r.postValuePart \/ fine
           sb == ~fine
<1>1. Chiusa(r) = [r EXCEPT !.isInParenthesis = k, !.postValuePart = post, !.sb = sb]
  BY DEF Chiusa
<1>2. k \in Int /\ post \in BOOLEAN /\ sb \in BOOLEAN BY DEF Riscritte
<1>3. /\ Chiusa(r) \in Riscritte
      /\ Chiusa(r).isInParenthesis = k /\ Chiusa(r).postValuePart = post /\ Chiusa(r).sb = sb
      /\ Chiusa(r).partList = r.partList
      /\ Chiusa(r).preValuePart1 = r.preValuePart1
      /\ Chiusa(r).preValuePart2 = r.preValuePart2
      /\ Chiusa(r).semicolon = r.semicolon
      /\ Chiusa(r).reWritablePrepare = r.reWritablePrepare
      /\ Chiusa(r).multipleQueriesPrepare = r.multipleQueriesPrepare
      /\ Chiusa(r).isInsert = r.isInsert /\ Chiusa(r).isFirstChar = r.isFirstChar
  <2> HIDE DEF k, post, sb
  <2> QED BY <1>1, <1>2 DEF Riscritte
<1> QED BY <1>3 DEF Riscritte

LEMMA ParolaDi ==
  ASSUME NEW r \in Riscritte, NEW car
  PROVE  /\ Parola(r, car) \in Riscritte /\ Parola(r, car).sb
         /\ Parola(r, car).multipleQueriesPrepare <=> r.multipleQueriesPrepare \/ r.semicolon
         /\ Parola(r, car).reWritablePrepare =>
              /\ r.reWritablePrepare /\ ~r.semicolon /\ car # "LAST_INSERT_ID"
              /\ car = "SELECT" /\ ~r.postValuePart =>
                   r.lex.lastChar \notin {"blank", ")", "-", "virgola"}
         /\ ~Parola(r, car).isFirstChar
         /\ Parola(r, car).isInsert =>
              r.isInsert \/ (r.isFirstChar /\ car \in {"INSERT", "i"})
         /\ Parola(r, car).isInParenthesis = r.isInParenthesis
         /\ Parola(r, car).partList = r.partList
         /\ Parola(r, car).preValuePart1 <=> r.preValuePart1
         /\ Parola(r, car).preValuePart2 <=> r.preValuePart2
         /\ Parola(r, car).postValuePart <=> r.postValuePart
         /\ Parola(r, car).semicolon <=> r.semicolon
<1> DEFINE select == car = "SELECT" /\ ~r.postValuePart
                       /\ r.lex.lastChar \in {"blank", ")", "-", "virgola"}
           insert == r.isInsert \/ (r.isFirstChar /\ car \in {"INSERT", "i"})
           m == r.multipleQueriesPrepare \/ r.semicolon
           w == r.reWritablePrepare /\ ~r.semicolon /\ car # "LAST_INSERT_ID" /\ ~select
<1>1. Parola(r, car) =
        [r EXCEPT !.sb = TRUE, !.isFirstChar = FALSE, !.isInsert = insert,
                  !.multipleQueriesPrepare = m, !.reWritablePrepare = w]
  BY DEF Parola
<1>2. insert \in BOOLEAN /\ m \in BOOLEAN /\ w \in BOOLEAN BY DEF Riscritte
<1>3. /\ Parola(r, car) \in Riscritte /\ Parola(r, car).sb
      /\ Parola(r, car).multipleQueriesPrepare = m
      /\ Parola(r, car).reWritablePrepare = w
      /\ ~Parola(r, car).isFirstChar /\ Parola(r, car).isInsert = insert
      /\ Parola(r, car).isInParenthesis = r.isInParenthesis
      /\ Parola(r, car).partList = r.partList
      /\ Parola(r, car).preValuePart1 = r.preValuePart1
      /\ Parola(r, car).preValuePart2 = r.preValuePart2
      /\ Parola(r, car).postValuePart = r.postValuePart
      /\ Parola(r, car).semicolon = r.semicolon
  <2> HIDE DEF insert, m, w
  <2> QED BY <1>1, <1>2 DEF Riscritte
<1> QED BY <1>3

LEMMA SimboloDi ==
  ASSUME NEW r \in Riscritte, NEW car
  PROVE  LET p == Simbolo(r, car) IN
         /\ p \in Riscritte /\ p.sb
         /\ car = "(" => p.isInParenthesis = r.isInParenthesis + 1
         /\ car # "(" => p.isInParenthesis = r.isInParenthesis
         /\ p.semicolon = (r.semicolon \/ car = "semicolon")
         /\ p.multipleQueriesPrepare =
              (r.multipleQueriesPrepare /\ car # "semicolon"
               /\ ~(car = "-" /\ r.lex.lastChar = "-"))
         /\ p.partList = r.partList
         /\ p.preValuePart1 = r.preValuePart1 /\ p.preValuePart2 = r.preValuePart2
         /\ p.postValuePart = r.postValuePart /\ p.isInsert = r.isInsert
         /\ p.isFirstChar = r.isFirstChar
         /\ p.reWritablePrepare = r.reWritablePrepare
<1> DEFINE k == r.isInParenthesis + (IF car = "(" THEN 1 ELSE 0)
<1>1. r.isInParenthesis \in Int BY DEF Riscritte
<1>2. /\ car = "(" => k = r.isInParenthesis + 1
      /\ car # "(" => k = r.isInParenthesis
  BY <1>1
<1>3. k \in Int BY <1>1, <1>2
<1>4. Simbolo(r, car) =
        [r EXCEPT !.sb = TRUE, !.isInParenthesis = k,
                  !.semicolon = @ \/ car = "semicolon",
                  !.multipleQueriesPrepare =
                    @ /\ car # "semicolon" /\ ~(car = "-" /\ r.lex.lastChar = "-")]
  BY DEF Simbolo
<1> HIDE DEF k
<1> QED BY <1>2, <1>3, <1>4 DEF Riscritte

LEMMA SpezzaDi ==
  ASSUME NEW r, NEW car
  PROVE  LET values == car \in {"VALUES", "VALUES_dollaro"} /\ PuoDirsiValues(r) IN
         /\ r.lex.state # "Normal" => Spezza(r, car) = [r EXCEPT !.sb = TRUE]
         /\ r.lex.state = "Normal" =>
              /\ car = "?" => Spezza(r, car) = Parametro(r)
              /\ car = ")" => Spezza(r, car) = Chiusa(r)
              /\ values => Spezza(r, car) = [r EXCEPT !.preValuePart1 = TRUE, !.sb = TRUE]
              /\ car \in Parole \cap Aperte => Spezza(r, car) = Simbolo(Parola(r, car), "(")
              /\ car \in (Parole \ Aperte) \cup {"virgola"} /\ ~values =>
                   Spezza(r, car) = Parola(r, car)
              /\ car \notin Parole \cup {"?", ")", "virgola"} => Spezza(r, car) = Simbolo(r, car)
<1> DEFINE values == car \in {"VALUES", "VALUES_dollaro"} /\ PuoDirsiValues(r)
<1>1. ASSUME r.lex.state # "Normal" PROVE Spezza(r, car) = [r EXCEPT !.sb = TRUE]
  BY <1>1, Zenon DEF Spezza
<1>2. ASSUME r.lex.state = "Normal", car = "?" PROVE Spezza(r, car) = Parametro(r)
  <2>1. car \notin (Parole \cap Aperte) \cup Parole \cup {"virgola", ")"}
    BY <1>2 DEF Parole, Aperte
  <2> QED BY <1>2, <2>1, Zenon DEF Spezza
<1>3. ASSUME r.lex.state = "Normal", car = ")" PROVE Spezza(r, car) = Chiusa(r)
  <2>1. car \notin (Parole \cap Aperte) \cup Parole \cup {"virgola", "?"}
    BY <1>3 DEF Parole, Aperte
  <2> QED BY <1>3, <2>1, Zenon DEF Spezza
<1>4. ASSUME r.lex.state = "Normal", values
      PROVE  Spezza(r, car) = [r EXCEPT !.preValuePart1 = TRUE, !.sb = TRUE]
  <2>1. car \notin {"?", ")"} /\ car \in Parole /\ car \notin Aperte BY <1>4 DEF Parole, Aperte
  <2> QED BY <1>4, <2>1, Zenon DEF Spezza
<1>5. ASSUME r.lex.state = "Normal", car \in Parole \cap Aperte
      PROVE  Spezza(r, car) = Simbolo(Parola(r, car), "(")
  <2>1. car \notin {"?", ")", "virgola", "VALUES", "VALUES_dollaro"} BY <1>5 DEF Parole, Aperte
  <2> QED BY <1>5, <2>1, Zenon DEF Spezza
<1>6. ASSUME r.lex.state = "Normal", car \in (Parole \ Aperte) \cup {"virgola"}, ~values
      PROVE  Spezza(r, car) = Parola(r, car)
  <2>1. car \notin {"?", ")"} /\ car \notin Parole \cap Aperte BY <1>6 DEF Parole, Aperte
  <2> QED BY <1>6, <2>1, Zenon DEF Spezza
<1>7. ASSUME r.lex.state = "Normal", car \notin Parole \cup {"?", ")", "virgola"}
      PROVE  Spezza(r, car) = Simbolo(r, car)
  <2>1. car \notin {"VALUES", "VALUES_dollaro"} BY <1>7 DEF Parole
  <2> QED BY <1>7, <2>1, Zenon DEF Spezza
<1> QED BY <1>1, <1>2, <1>3, <1>4, <1>5, <1>6, <1>7, Zenon

LEMMA DoveTrattini ==
  ASSUME server \in Server, NEW car \in Caratteri, ServerLegge(car),
         server'.dove \in {"--?", "--"}
  PROVE  \/ server.dove = "fuori" /\ car = "-" /\ server.prec = "-"
         \/ server.dove \in {"--?", "--"}
<1>1. server'.dove = Dove(server, car) BY ServerDi
<1>2. server.dove \in Luoghi BY DEF Server
<1>3. CASE server.dove = "fuori"
  <2>1. ~(car \in Apici \cup {"grave", "#"}) BY <1>1, <1>3, DoveFuori DEF Apici
  <2>2. ~(car = "*" /\ server.prec = "/") BY <1>1, <1>3, DoveFuori
  <2>3. car = "-" /\ server.prec = "-" BY <1>1, <1>3, <2>1, <2>2, DoveFuori
  <2> QED BY <1>3, <2>3
<1>4. CASE server.dove \in Apici \cup {"grave"} BY <1>1, <1>4, DoveDentro DEF Apici
<1>5. CASE server.dove = "#" BY <1>1, <1>5, DoveDentro
<1>6. CASE server.dove = "/*" BY <1>1, <1>6, DoveDentro
<1> QED BY <1>2, <1>3, <1>4, <1>5, <1>6 DEF Luoghi, Apici

\* What MariaDB forbids, and rewritableParts looks for, makes it give up the
\* query, or the query does not begin like an INSERT.
LEMMA VietatoVisto ==
  ASSUME NEW r \in Riscritte, server \in Server, NEW car \in Caratteri, server.dove = "fuori",
         Concorda(r.lex, server), Contati(r, server), Repliche(r, server),
         Vietato(server, car), ~Nascosto(server, car)
  PROVE  \/ car \in Parole /\ ~server.iniziata /\ car \notin {"INSERT", "i", "VALUES", "VALUES_dollaro"}
         \/ /\ car \in Parole /\ r.semicolon
            /\ car \in {"VALUES", "VALUES_dollaro"} => r.preValuePart1
         \/ car = "LAST_INSERT_ID"
         \/ car = "SELECT" /\ ~r.postValuePart /\ r.lex.lastChar \in {"blank", ")", "-", "virgola"}
         \/ car = "?" /\ server.gruppo
<1>1. CASE car \in Parole /\ ~server.iniziata /\ ~(car = "INSERT" /\ Chiave(server, car))
  <2>1. server.prec # "dollaro" /\ car \notin {"i", "VALUES", "VALUES_dollaro"}
    BY <1>1 DEF Nascosto
  <2>2. car # "INSERT" BY <1>1, <2>1 DEF Chiave
  <2> QED BY <1>1, <2>1, <2>2
<1>2. CASE car \in Parole /\ server.punto
  <2>1. r.semicolon BY <1>2 DEF Repliche
  <2>2. ASSUME car \in {"VALUES", "VALUES_dollaro"} PROVE r.preValuePart1
    BY <1>2, <2>2 DEF Nascosto, Contati
  <2> QED BY <1>2, <2>1, <2>2
<1>3. CASE LastId(server, car)
  <2>1. car \in {"LAST_INSERT_ID", "LAST_INSERT_ID_blank"} /\ car \in Parole
    BY <1>3 DEF LastId, Parole
  <2>2. CASE car = "LAST_INSERT_ID_blank"
    <3>1. ~server.iniziata \/ server.punto BY <2>2 DEF Nascosto
    <3> QED BY <2>1, <2>2, <3>1 DEF Repliche
  <2> QED BY <2>1, <2>2
<1>4. CASE Select(server, car) /\ ~server.gruppo
  <2>1. car \in {"SELECT", "SELECT_stella"} /\ car \in Parole
    BY <1>4 DEF Select, Parole
  <2>2. CASE ~server.iniziata \/ server.punto BY <2>1, <2>2 DEF Repliche
  <2>3. CASE server.iniziata /\ ~server.punto
    <3>1. car = "SELECT" /\ server.prec \in {"blank", ")", "-", "virgola"}
      BY <2>1, <2>3 DEF Nascosto
    <3>2. r.lex.lastChar = server.prec BY <3>1 DEF Concorda
    <3>3. ~r.postValuePart BY <1>4 DEF Repliche
    <3> QED BY <3>1, <3>2, <3>3
  <2> QED BY <2>2, <2>3
<1>5. CASE car = "?" /\ server.gruppo BY <1>5
<1> QED BY <1>1, <1>2, <1>3, <1>4, <1>5 DEF Vietato

\* What MariaDB counts and what rewritableParts keeps stay in step.
LEMMA SpezzaConta ==
  ASSUME SegnInv, NEW car \in Caratteri, Lecito(car), ServerLegge(car)
  PROVE  LET p == Spezza(riscritta, car) IN
         p \in Riscritte /\ Contati(p, server') /\ Repliche(p, server')
<1> DEFINE r == riscritta
           p == Spezza(r, car)
           s == server
           t == server'
           Meta == p \in Riscritte /\ Contati(p, t) /\ Repliche(p, t)
<1>1. /\ r \in Riscritte /\ s \in Server /\ Concorda(r.lex, s)
      /\ Contati(r, s) /\ Repliche(r, s)
  BY DEF SegnInv, SegnTipi
<1>2. /\ r.partList \in Nat /\ r.isInParenthesis \in Int
      /\ r.sb \in BOOLEAN /\ r.preValuePart1 \in BOOLEAN /\ r.preValuePart2 \in BOOLEAN
      /\ r.postValuePart \in BOOLEAN /\ r.semicolon \in BOOLEAN
      /\ r.reWritablePrepare \in BOOLEAN /\ r.multipleQueriesPrepare \in BOOLEAN
      /\ r.isInsert \in BOOLEAN /\ r.isFirstChar \in BOOLEAN
  BY <1>1 DEF Riscritte
<1>3. /\ s.parametri \in Nat /\ s.parentesi \in Nat
      /\ s.vuota \in {"no", "si", "riga"} /\ s.punto \in BOOLEAN /\ s.valori \in BOOLEAN
      /\ s.gruppo \in BOOLEAN /\ s.vietato \in BOOLEAN /\ s.iniziata \in BOOLEAN
  BY <1>1, SegnapostoAssumption DEF Server
<1>4. t.parametri \in Nat /\ t.parentesi \in Nat
      /\ t.vuota \in {"no", "si", "riga"} /\ t.punto \in BOOLEAN /\ t.valori \in BOOLEAN
      /\ t.gruppo \in BOOLEAN /\ t.vietato \in BOOLEAN /\ t.iniziata \in BOOLEAN
  BY <1>1, ServerConta, SegnapostoAssumption
<1>5. t.dove \in {"--?", "--"} =>
        (s.dove = "fuori" /\ car = "-" /\ s.prec = "-") \/ s.dove \in {"--?", "--"}
  BY <1>1, DoveTrattini
<1>6. ASSUME s.dove # "fuori" PROVE Meta
  <2>1. p = [r EXCEPT !.sb = TRUE] BY <1>1, <1>6, SpezzaDi DEF Concorda
  <2>2. /\ p \in Riscritte /\ p.sb
        /\ p.isInParenthesis = r.isInParenthesis /\ p.partList = r.partList
        /\ p.preValuePart1 = r.preValuePart1 /\ p.preValuePart2 = r.preValuePart2
        /\ p.postValuePart = r.postValuePart /\ p.semicolon = r.semicolon
        /\ p.reWritablePrepare = r.reWritablePrepare
        /\ p.multipleQueriesPrepare = r.multipleQueriesPrepare
        /\ p.isInsert = r.isInsert /\ p.isFirstChar = r.isFirstChar
    BY <1>1, <2>1 DEF Riscritte
  <2>3. /\ t.parametri = s.parametri /\ t.parentesi = s.parentesi
        /\ s.vuota = "no" => t.vuota = "no"
        /\ t.punto = s.punto /\ t.iniziata = s.iniziata
        /\ t.valori = s.valori /\ t.gruppo = s.gruppo /\ t.vietato = s.vietato
    BY <1>1, <1>6, ServerConta
  <2> HIDE DEF p, r, s
  <2>4. Contati(p, t) BY <1>1, <2>2, <2>3 DEF Contati
  <2>5. Repliche(p, t) BY <1>1, <1>5, <1>6, <2>2, <2>3 DEF Repliche
  <2> QED BY <2>2, <2>4, <2>5
<1>7. ASSUME s.dove = "fuori" PROVE Meta
  <2>1. r.lex.state = "Normal" BY <1>1, <1>7 DEF Concorda
  <2>2. /\ s.prec \in {"blank", ")", "'"} => r.lex.lastChar = s.prec
        /\ s.prec = "-" <=> r.lex.lastChar = "-"
    BY <1>1, <1>7 DEF Concorda
  <2>3. /\ car = "?" => t.parametri = s.parametri + 1
        /\ car # "?" => t.parametri = s.parametri
        /\ car \in Aperte => t.parentesi = s.parentesi + 1
        /\ car = ")" => t.parentesi = s.parentesi - 1
        /\ car \notin Aperte \cup {")"} => t.parentesi = s.parentesi
        /\ t.vuota = IF car = "semicolon" THEN "si" ELSE IF Conta(car) THEN "no" ELSE s.vuota
        /\ t.punto <=> s.punto \/ car = "semicolon"
        /\ t.iniziata <=> s.iniziata \/ car \in Parole
        /\ t.valori <=> s.valori \/ (car = "VALUES" /\ Chiave(s, car)
                                     /\ s.prec \in {"blank", ")", "'"} /\ s.parametri = 0)
        /\ t.gruppo <=> s.gruppo \/ (car = ")" /\ s.parentesi = 1 /\ s.parametri > 0)
        /\ t.vietato <=> s.vietato \/ (Vietato(s, car) /\ ~Nascosto(s, car))
    BY <1>1, <1>7, ServerConta
  <2>4. t.vuota = "no" \/ car = "semicolon"
        \/ (t.vuota = s.vuota /\ car \notin Parole \cup {"?", ")", "virgola"})
    BY <1>7, <2>3 DEF Conta
  <2>5. ASSUME t.vietato, ~s.vietato
        PROVE  \/ car \in Parole /\ ~s.iniziata
                  /\ car \notin {"INSERT", "i", "VALUES", "VALUES_dollaro"}
               \/ /\ car \in Parole /\ r.semicolon
                  /\ car \in {"VALUES", "VALUES_dollaro"} => r.preValuePart1
               \/ car = "LAST_INSERT_ID"
               \/ car = "SELECT" /\ ~r.postValuePart
                  /\ r.lex.lastChar \in {"blank", ")", "-", "virgola"}
               \/ car = "?" /\ s.gruppo
    BY <1>1, <1>7, <2>3, <2>5, VietatoVisto
  <2>6. t.dove \in {"--?", "--"} => car = "-" /\ r.lex.lastChar = "-"
    BY <1>5, <1>7, <2>2
  <2>7. ASSUME car = "?" PROVE Meta
    <3>1. p = Parametro(r) BY <2>1, <2>7, SpezzaDi
    <3>2. /\ p \in Riscritte
          /\ p.preValuePart1 <=> r.preValuePart1 \/ r.sb
          /\ p.isInParenthesis = r.isInParenthesis
          /\ p.semicolon <=> r.semicolon
          /\ p.multipleQueriesPrepare <=> r.multipleQueriesPrepare
          /\ p.isInsert = r.isInsert /\ p.isFirstChar = r.isFirstChar
          /\ ~r.preValuePart2 =>
               /\ p.preValuePart2 <=> r.preValuePart1 /\ r.sb
               /\ p.partList = r.partList
               /\ p.postValuePart <=> r.postValuePart
               /\ p.reWritablePrepare <=> r.reWritablePrepare
          /\ r.preValuePart2 =>
               /\ p.preValuePart2 /\ ~p.postValuePart
               /\ p.partList = r.partList + 1
               /\ p.reWritablePrepare <=> r.reWritablePrepare /\ ~r.postValuePart
      BY <1>1, <3>1, ParametroDi
    <3>0. car \notin Parole \cup Aperte \cup {"semicolon"} BY <2>7 DEF Parole, Aperte
    <3> HIDE DEF p, r, s
    <3>3. Contati(p, t) BY <1>1, <1>2, <1>3, <1>4, <2>3, <2>7, <3>0, <3>2 DEF Contati
    <3>4. Repliche(p, t)
      BY <1>1, <1>2, <1>3, <1>4, <2>3, <2>4, <2>5, <2>6, <2>7, <3>0, <3>2 DEF Contati, Repliche
    <3> QED BY <3>2, <3>3, <3>4
  <2>8. ASSUME car = ")" PROVE Meta
    <3>1. p = Chiusa(r) BY <2>1, <2>8, SpezzaDi
    <3>2. /\ p \in Riscritte
          /\ p.isInParenthesis = r.isInParenthesis - 1
          /\ p.postValuePart <=> r.postValuePart \/ (r.isInParenthesis = 1 /\ r.preValuePart2)
          /\ ~r.preValuePart2 => p.sb
          /\ p.partList = r.partList
          /\ p.preValuePart1 <=> r.preValuePart1
          /\ p.preValuePart2 <=> r.preValuePart2
          /\ p.semicolon <=> r.semicolon
          /\ p.reWritablePrepare <=> r.reWritablePrepare
          /\ p.multipleQueriesPrepare <=> r.multipleQueriesPrepare
          /\ p.isInsert = r.isInsert /\ p.isFirstChar = r.isFirstChar
      BY <1>1, <3>1, ChiusaDi
    <3>0. car \notin Parole \cup Aperte \cup {"semicolon"} BY <2>8 DEF Parole, Aperte
    <3> HIDE DEF p, r, s
    <3>3. Contati(p, t) BY <1>1, <1>2, <1>3, <1>4, <2>3, <2>8, <3>0, <3>2 DEF Contati
    <3>4. Repliche(p, t)
      BY <1>1, <1>2, <1>3, <1>4, <2>3, <2>4, <2>5, <2>6, <2>8, <3>0, <3>2 DEF Contati, Repliche
    <3> QED BY <3>2, <3>3, <3>4
  <2>9. ASSUME car \in {"VALUES", "VALUES_dollaro"}, PuoDirsiValues(r) PROVE Meta
    <3>1. p = [r EXCEPT !.preValuePart1 = TRUE, !.sb = TRUE] BY <2>1, <2>9, SpezzaDi
    <3>2. /\ p \in Riscritte /\ p.sb /\ p.preValuePart1
          /\ p.isInParenthesis = r.isInParenthesis /\ p.partList = r.partList
          /\ p.preValuePart2 = r.preValuePart2
          /\ p.postValuePart = r.postValuePart /\ p.semicolon = r.semicolon
          /\ p.reWritablePrepare = r.reWritablePrepare
          /\ p.multipleQueriesPrepare = r.multipleQueriesPrepare
          /\ p.isInsert = r.isInsert /\ p.isFirstChar = r.isFirstChar
      BY <1>1, <3>1 DEF Riscritte
    <3>3. car \in Parole /\ car \notin Aperte BY <2>9 DEF Parole, Aperte
    <3>0. ~r.preValuePart1 BY <2>9 DEF PuoDirsiValues
    <3> HIDE DEF p, r, s
    <3>4. Contati(p, t) BY <1>1, <1>2, <1>3, <1>4, <2>3, <2>9, <3>2, <3>3 DEF Contati
    <3>5. Repliche(p, t)
      BY <1>1, <1>2, <1>3, <1>4, <2>3, <2>4, <2>5, <2>6, <2>9, <3>0, <3>2, <3>3 DEF Contati, Repliche
    <3> QED BY <3>2, <3>4, <3>5
  <2>10. ASSUME car \in Parole \cup {"virgola"},
                ~(car \in {"VALUES", "VALUES_dollaro"} /\ PuoDirsiValues(r))
         PROVE  Meta
    <3> DEFINE w == Parola(r, car)
    <3>1. /\ w \in Riscritte /\ w.sb
          /\ w.multipleQueriesPrepare <=> r.multipleQueriesPrepare \/ r.semicolon
          /\ w.reWritablePrepare =>
               /\ r.reWritablePrepare /\ ~r.semicolon /\ car # "LAST_INSERT_ID"
               /\ car = "SELECT" /\ ~r.postValuePart =>
                    r.lex.lastChar \notin {"blank", ")", "-", "virgola"}
          /\ ~w.isFirstChar
          /\ w.isInsert => r.isInsert \/ (r.isFirstChar /\ car \in {"INSERT", "i"})
          /\ w.isInParenthesis = r.isInParenthesis
          /\ w.partList = r.partList
          /\ w.preValuePart1 <=> r.preValuePart1
          /\ w.preValuePart2 <=> r.preValuePart2
          /\ w.postValuePart <=> r.postValuePart
          /\ w.semicolon <=> r.semicolon
      BY <1>1, ParolaDi
    <3>2. /\ car \notin {"?", ")", "semicolon", "-"}
          /\ {"INSERT", "i", "LAST_INSERT_ID", "LAST_INSERT_ID_blank"} \subseteq Parole
          /\ car \in Aperte <=> car \in Parole \cap Aperte
      BY <2>10 DEF Parole, Aperte
    <3>3. /\ p \in Riscritte /\ p.sb /\ p.multipleQueriesPrepare = w.multipleQueriesPrepare
          /\ p.reWritablePrepare = w.reWritablePrepare /\ p.partList = w.partList
          /\ p.preValuePart1 = w.preValuePart1 /\ p.preValuePart2 = w.preValuePart2
          /\ p.postValuePart = w.postValuePart /\ p.semicolon = w.semicolon
          /\ p.isInsert = w.isInsert /\ p.isFirstChar = w.isFirstChar
          /\ car \in Aperte => p.isInParenthesis = w.isInParenthesis + 1
          /\ car \notin Aperte => p.isInParenthesis = w.isInParenthesis
      <4>1. CASE car \in Aperte
        <5>1. p = Simbolo(w, "(") BY <2>1, <3>2, <4>1, SpezzaDi
        <5>2. w.semicolon \in BOOLEAN /\ w.multipleQueriesPrepare \in BOOLEAN
          BY <3>1 DEF Riscritte
        <5> HIDE DEF p, w
        <5> QED BY <3>1, <4>1, <5>1, <5>2, SimboloDi
      <4>2. CASE car \notin Aperte
        <5>1. p = w BY <2>1, <2>10, <4>2, SpezzaDi
        <5> HIDE DEF p, w
        <5> QED BY <3>1, <4>2, <5>1
      <4> QED BY <4>1, <4>2
    <3>4. s.valori \/ (car = "VALUES" /\ s.prec \in {"blank", ")", "'"}) => r.preValuePart1
      BY <1>1, <2>2, <2>10 DEF Contati, PuoDirsiValues
    <3> HIDE DEF p, r, s, w
    <3>5. Contati(p, t) BY <1>1, <1>2, <1>3, <1>4, <2>3, <3>1, <3>2, <3>3, <3>4, <2>10 DEF Contati
    <3>6. ASSUME t.vietato
          PROVE  ~p.reWritablePrepare \/ (~p.isInsert /\ ~p.isFirstChar)
                 \/ (~t.valori /\ t.parametri > 0)
      <4>1. CASE s.vietato
        BY <1>1, <1>2, <1>3, <2>3, <3>1, <3>2, <3>3, <4>1 DEF Repliche
      <4>2. CASE ~s.vietato
        BY <1>1, <1>2, <2>5, <2>10, <3>1, <3>2, <3>3, <3>6, <4>2 DEF Repliche
      <4> QED BY <1>3, <4>1, <4>2
    <3>7. Repliche(p, t)
      BY <1>1, <1>2, <1>3, <1>4, <2>3, <2>4, <2>6, <2>10, <3>1, <3>2, <3>3, <3>6
      DEF Contati, Repliche
    <3> QED BY <3>3, <3>5, <3>7
  <2>11. ASSUME car \notin Parole \cup {"?", ")", "virgola"} PROVE Meta
    <3>1. p = Simbolo(r, car) BY <2>1, <2>11, SpezzaDi
    <3>2. /\ p \in Riscritte /\ p.sb
          /\ car = "(" => p.isInParenthesis = r.isInParenthesis + 1
          /\ car # "(" => p.isInParenthesis = r.isInParenthesis
          /\ p.semicolon = (r.semicolon \/ car = "semicolon")
          /\ p.multipleQueriesPrepare =
               (r.multipleQueriesPrepare /\ car # "semicolon"
                /\ ~(car = "-" /\ r.lex.lastChar = "-"))
          /\ p.partList = r.partList
          /\ p.preValuePart1 = r.preValuePart1 /\ p.preValuePart2 = r.preValuePart2
          /\ p.postValuePart = r.postValuePart
          /\ p.reWritablePrepare = r.reWritablePrepare
          /\ p.isInsert = r.isInsert /\ p.isFirstChar = r.isFirstChar
      BY <1>1, <3>1, SimboloDi
    <3>3. /\ car \notin {"VALUES", "SELECT", "LAST_INSERT_ID"}
          /\ car \in Aperte <=> car = "("
      BY <2>11 DEF Parole, Aperte
    <3> HIDE DEF p, r, s
    <3>4. Contati(p, t) BY <1>1, <1>2, <1>3, <1>4, <2>3, <2>11, <3>2, <3>3 DEF Contati
    <3>5. Repliche(p, t)
      BY <1>1, <1>2, <1>3, <1>4, <2>3, <2>4, <2>5, <2>6, <2>11, <3>2, <3>3 DEF Contati, Repliche
    <3> QED BY <3>2, <3>4, <3>5
  <2> QED BY <2>7, <2>8, <2>9, <2>10, <2>11
<1> QED BY <1>6, <1>7

-----------------------------------------------------------------------------
(* The theorems.                                                            *)

LEMMA InitSegn == Init => SegnInv
<1> SUFFICES ASSUME Init PROVE SegnInv OBVIOUS
<1>1. Inizio \in Lexer /\ Inizio.state = "Normal" /\ Inizio.lastChar = "blank"
  BY ClasseNeiLexer DEF Inizio, Lexer, Stati, Apici
<1>2. riscritta \in Riscritte /\ riscritta.lex = Inizio
  BY <1>1 DEF Init, Riscritte
<1>3. server \in Server BY SegnapostoAssumption DEF Init, Server, Luoghi, Classi
<1>4. SegnTipi BY <1>1, <1>2, <1>3 DEF Init, SegnTipi, Parti
<1>5. Concorda(Inizio, server) BY <1>1 DEF Init, Concorda, Apici
<1>6. Contati(riscritta, server) /\ Repliche(riscritta, server)
  BY DEF Init, Contati, Repliche
<1>7. parti.lex = Inizio /\ unione.lex = Inizio /\ parti.partList = server.parametri
      /\ server.dove = "fuori" /\ server.vuota = "no"
  BY DEF Init
<1> QED BY <1>2, <1>4, <1>5, <1>6, <1>7 DEF SegnInv

LEMMA CarattereSegn ==
  ASSUME SegnInv, NEW car \in Caratteri, Carattere(car)
  PROVE  SegnInv'
<1>1. /\ Lecito(car) /\ ServerLegge(car) /\ noBackslashEscapes' = noBackslashEscapes
      /\ parameterParts(car) /\ canAggregateSemiColon(car) /\ rewritableParts(car)
  BY DEF Carattere
<1>2. /\ noBackslashEscapes \in BOOLEAN /\ server \in Server
      /\ parti \in Parti
      /\ unione \in [lex : Lexer, endingSemicolon : BOOLEAN]
      /\ riscritta \in Riscritte
  BY DEF SegnInv, SegnTipi
<1>3. /\ parti.lex \in Lexer /\ unione.lex \in Lexer /\ riscritta.lex \in Lexer
      /\ Concorda(parti.lex, server) /\ Concorda(unione.lex, server)
      /\ Concorda(riscritta.lex, server)
  BY <1>2 DEF SegnInv, Parti, Riscritte
<1> DEFINE lp == Legge(parti.lex, car, TRUE)
           lu == Legge(unione.lex, car, FALSE)
           lr == Legge(riscritta.lex, car, FALSE)
           p == Spezza(riscritta, car)
<1>4. lp \in Lexer /\ Concorda(lp, server') BY <1>1, <1>2, <1>3, Avanza, Zenon
<1>5. lu \in Lexer /\ Concorda(lu, server') BY <1>1, <1>2, <1>3, Avanza, Zenon
<1>6. lr \in Lexer /\ Concorda(lr, server') BY <1>1, <1>2, <1>3, Avanza, Zenon
<1>7. server' \in Server
  <2>1. server'.dove \in Luoghi /\ server'.prec \in Classi \cup {"aperto", "chiuso"}
    BY <1>1, <1>2, <1>3, Avanza, Zenon
  <2>2. server' \in [dove : {server'.dove}, prec : {server'.prec}, salta : BOOLEAN,
                     parametri : 0..MaxParametri, parentesi : 0..MaxParentesi,
                     vuota : {"no", "si", "riga"}, punto : BOOLEAN, iniziata : BOOLEAN,
                     valori : BOOLEAN, gruppo : BOOLEAN, vietato : BOOLEAN]
    BY <1>1, <1>2, ServerConta
  <2> QED BY <2>1, <2>2 DEF Server
<1>8. p \in Riscritte /\ Contati(p, server') /\ Repliche(p, server')
  BY <1>1, SpezzaConta
<1>9. /\ parti'.lex = lp /\ parti' \in Parti
      /\ parti'.partList = server'.parametri
      /\ parti'.multipleQueriesPrepare =>
           server'.dove \notin {"--?", "--"} /\ server'.vuota # "si"
  <2> DEFINE k == parti.partList + (IF parti.lex.state = "Normal" /\ car = "?" THEN 1 ELSE 0)
  <2> DEFINE f == IF parti.lex.state = "Normal" /\ car = "semicolon" THEN TRUE
                  ELSE parti.endingSemicolon /\ ~(parti.lex.state = "Normal" /\ Riparte(car))
             m == Multiple(parti, car)
  <2>1. parti' = [lex |-> lp, partList |-> k, endingSemicolon |-> f, multipleQueriesPrepare |-> m]
    BY <1>1 DEF parameterParts
  <2>2. /\ parti.lex.state = "Normal" <=> server.dove = "fuori"
        /\ parti.lex.state = "EOLComment" <=> server.dove \in {"#", "--?", "--"}
    BY <1>3 DEF Concorda
  <2>3. parti.partList = server.parametri /\ server.parametri \in Nat
    BY <1>2, SegnapostoAssumption DEF SegnInv, Server
  <2>4. server'.parametri = k /\ k \in Nat
    <3>1. CASE server.dove = "fuori" /\ car = "?"
      <4>1. server'.parametri = server.parametri + 1 BY <1>1, <1>2, <3>1, ServerConta
      <4> QED BY <2>2, <2>3, <3>1, <4>1
    <3>2. CASE ~(server.dove = "fuori" /\ car = "?")
      <4>1. server'.parametri = server.parametri BY <1>1, <1>2, <3>2, ServerConta
      <4>2. k = server.parametri + 0 BY <2>2, <2>3, <3>2, Zenon
      <4> QED BY <2>3, <4>1, <4>2
    <3> QED BY <3>1, <3>2
  <2>5. f \in BOOLEAN /\ m \in BOOLEAN BY <1>2 DEF Parti, Multiple
  <2>6. m => server'.dove \notin {"--?", "--"} /\ server'.vuota # "si"
    <3>1. parti.multipleQueriesPrepare =>
            server.dove \notin {"--?", "--"} /\ server.vuota # "si"
      BY DEF SegnInv
    <3>2. server'.dove \in {"--?", "--"} =>
            \/ server.dove = "fuori" /\ car = "-" /\ server.prec = "-"
            \/ server.dove \in {"--?", "--"}
      BY <1>1, <1>2, DoveTrattini
    <3>3. CASE server.dove \in {"#", "--?", "--"} /\ car = "nl"
      <4>1. server'.dove = "fuori"
        BY <1>1, <1>2, <3>3, ServerDi, DoveDentro
      <4>2. server'.vuota # "si" BY <1>1, <1>2, <3>3, ServerConta
      <4> QED BY <4>1, <4>2
    <3>4. CASE server.dove # "fuori" /\ ~(server.dove \in {"#", "--?", "--"} /\ car = "nl")
      <4>1. m => parti.multipleQueriesPrepare BY <2>2, <3>4 DEF Multiple
      <4>2. server'.vuota = server.vuota BY <1>1, <1>2, <3>4, ServerConta
      <4> QED BY <3>1, <3>2, <3>4, <4>1, <4>2
    <3>5. CASE server.dove = "fuori"
      <4>1. m => /\ car # "semicolon" /\ ~(car = "-" /\ parti.lex.lastChar = "-")
                 /\ parti.multipleQueriesPrepare \/ Riparte(car)
        BY <2>2, <3>5 DEF Multiple
      <4>2. server'.vuota = IF car = "semicolon" THEN "si"
                            ELSE IF Conta(car) THEN "no" ELSE server.vuota
        BY <1>1, <1>2, <3>5, ServerConta
      <4>3. Riparte(car) => Conta(car) BY DEF Riparte, Conta
      <4>4. server.prec = "-" => parti.lex.lastChar = "-" BY <1>3, <3>5 DEF Concorda
      <4> QED BY <3>1, <3>2, <3>5, <4>1, <4>2, <4>3, <4>4
    <3> QED BY <3>3, <3>4, <3>5
  <2> HIDE DEF k, f, m, lp
  <2> QED BY <1>4, <2>1, <2>4, <2>5, <2>6 DEF Parti
<1>10. /\ unione'.lex = lu /\ unione' \in [lex : Lexer, endingSemicolon : BOOLEAN]
       /\ server'.vuota # "no" => unione'.endingSemicolon
  <2> DEFINE f == Finale(unione, car)
  <2>1. unione' = [lex |-> lu, endingSemicolon |-> f] BY <1>1 DEF canAggregateSemiColon
  <2>2. unione.lex.state = "Normal" <=> server.dove = "fuori" BY <1>3 DEF Concorda
  <2>3. /\ unione.lex.state = "Normal" /\ car = "semicolon" => f = TRUE
        /\ unione.lex.state = "Normal" /\ car # "semicolon" /\ (Riparte(car) \/ car = "?") =>
             f = FALSE
        /\ ~(unione.lex.state = "Normal"
             /\ (car = "semicolon" \/ Riparte(car) \/ car = "?")) =>
             f = unione.endingSemicolon
    BY Zenon DEF Finale
  <2>4. unione.endingSemicolon \in BOOLEAN /\ (server.vuota # "no" => unione.endingSemicolon)
    BY <1>2 DEF SegnInv
  <2>5. f \in BOOLEAN BY <2>3, <2>4
  <2>6. server'.vuota # "no" => f
    <3>1. CASE server.dove # "fuori"
      <4>1. server.vuota = "no" => server'.vuota = "no" BY <1>1, <1>2, <3>1, ServerConta
      <4> QED BY <2>2, <2>3, <2>4, <3>1, <4>1
    <3>2. CASE server.dove = "fuori"
      <4>1. server'.vuota = IF car = "semicolon" THEN "si"
                            ELSE IF Conta(car) THEN "no" ELSE server.vuota
        BY <1>1, <1>2, <3>2, ServerConta
      <4>2. Riparte(car) \/ car = "?" => Conta(car) BY DEF Riparte, Conta
      <4> QED BY <2>2, <2>3, <2>4, <3>2, <4>1, <4>2
    <3> QED BY <3>1, <3>2
  <2> HIDE DEF f, lu
  <2> QED BY <1>5, <2>1, <2>5, <2>6
<1>11. /\ riscritta' \in Riscritte /\ riscritta'.lex = lr
       /\ Contati(riscritta', server') /\ Repliche(riscritta', server')
  <2>1. riscritta' = [p EXCEPT !.lex = lr] BY <1>1 DEF rewritableParts
  <2> HIDE DEF p, lr
  <2>2. /\ riscritta' \in Riscritte /\ riscritta'.lex = lr
        /\ riscritta'.isInParenthesis = p.isInParenthesis /\ riscritta'.partList = p.partList
        /\ riscritta'.preValuePart1 = p.preValuePart1
        /\ riscritta'.preValuePart2 = p.preValuePart2
        /\ riscritta'.postValuePart = p.postValuePart /\ riscritta'.sb = p.sb
        /\ riscritta'.semicolon = p.semicolon
        /\ riscritta'.reWritablePrepare = p.reWritablePrepare
        /\ riscritta'.multipleQueriesPrepare = p.multipleQueriesPrepare
        /\ riscritta'.isInsert = p.isInsert /\ riscritta'.isFirstChar = p.isFirstChar
    BY <1>6, <1>8, <2>1 DEF Riscritte
  <2>3. Contati(riscritta', server') BY <1>8, <2>2 DEF Contati
  <2>4. Repliche(riscritta', server') BY <1>8, <2>2 DEF Repliche
  <2> QED BY <2>2, <2>3, <2>4
<1> HIDE DEF lp, lu, lr, p
<1>12. SegnTipi' BY <1>1, <1>2, <1>7, <1>9, <1>10, <1>11 DEF SegnTipi
<1>13. Concorda(parti'.lex, server') /\ Concorda(unione'.lex, server') /\ Concorda(riscritta'.lex, server')
  BY <1>4, <1>5, <1>6, <1>9, <1>10, <1>11
<1> QED BY <1>9, <1>10, <1>11, <1>12, <1>13 DEF SegnInv, Concorda, Contati, Repliche

LEMMA SegnSempre == Spec => []SegnInv
<1>1. SegnInv /\ [Next]_vars => SegnInv'
  <2>1. SegnInv /\ UNCHANGED vars => SegnInv'
    BY DEF vars, SegnInv, SegnTipi, Concorda, Contati, Repliche
  <2> QED BY <2>1, CarattereSegn DEF Next
<1> QED BY <1>1, InitSegn, PTL DEF Spec

\* Counters and states stay within their bounds, for any bounds.
THEOREM SegnTipata == Spec => []SegnTypeOK
<1>1. SegnInv => SegnTypeOK
  <2> SUFFICES ASSUME SegnInv PROVE SegnTypeOK OBVIOUS
  <2>2. /\ server.parametri \in 0..MaxParametri /\ server.parentesi \in 0..MaxParentesi
    BY DEF SegnInv, SegnTipi, Server
  <2>3. parti.partList \in 0..MaxParametri BY <2>2 DEF SegnInv
  <2>4. riscritta.partList \in 0..MaxParametri
    <3>1. riscritta.partList \in Nat BY DEF SegnInv, SegnTipi, Riscritte
    <3>2. riscritta.partList = 0 \/ riscritta.partList < server.parametri
      BY <2>2, SegnapostoAssumption DEF SegnInv, Contati
    <3> QED BY <2>2, <3>1, <3>2, SegnapostoAssumption
  <2>5. parti \in [lex : Lexer, partList : 0..MaxParametri, endingSemicolon : BOOLEAN,
                   multipleQueriesPrepare : BOOLEAN]
    BY <2>3 DEF SegnInv, SegnTipi, Parti
  <2>6. riscritta \in [lex : Lexer, partList : 0..MaxParametri,
                       sb : BOOLEAN, preValuePart1 : BOOLEAN, preValuePart2 : BOOLEAN,
                       postValuePart : BOOLEAN, isInParenthesis : Int,
                       isFirstChar : BOOLEAN, isInsert : BOOLEAN, semicolon : BOOLEAN,
                       reWritablePrepare : BOOLEAN, multipleQueriesPrepare : BOOLEAN]
    BY <2>4 DEF SegnInv, SegnTipi, Riscritte
  <2>7. noBackslashEscapes \in BOOLEAN /\ unione \in [lex : Lexer, endingSemicolon : BOOLEAN]
    BY DEF SegnInv, SegnTipi
  <2> QED BY <2>2, <2>5, <2>6, <2>7, Zenon DEF SegnTypeOK
<1> QED BY <1>1, SegnSempre, PTL

\* parameterParts finds the parameters MariaDB finds, in a text of any length.
THEOREM ParametriTrovatiSempre == Spec => []ParametriTrovati
<1>1. SegnInv => ParametriTrovati BY DEF SegnInv, ParametriTrovati
<1> QED BY <1>1, SegnSempre, PTL

\* The semicolon put after a query that canAggregateSemiColon accepts ends it.
THEOREM PuntoEVirgolaSeparaSempre == Spec => []PuntoEVirgolaSepara
<1>1. SegnInv => PuntoEVirgolaSepara
  <2> SUFFICES ASSUME SegnInv, Intera, Aggregabile
               PROVE  server.dove = "fuori" /\ server.vuota = "no"
    BY DEF PuntoEVirgolaSepara
  <2>1. server.dove \in Luoghi BY DEF SegnInv, SegnTipi, Server
  <2>2. server.dove \notin {"#", "--?", "--"} BY DEF SegnInv, Concorda, Aggregabile
  <2> QED BY <2>1, <2>2 DEF SegnInv, Aggregabile, Intera, Apici, Luoghi
<1> QED BY <1>1, SegnSempre, PTL

\* rewritableParts counts no parameter that MariaDB does not, and all of them,
\* whatever their number, if a VALUES on its own comes before the first.
THEOREM RiscrittiContatiSempre == Spec => []RiscrittiContati
<1>1. SegnInv => RiscrittiContati
  <2> SUFFICES ASSUME SegnInv, server.parametri > 0
               PROVE  /\ ParamCount <= server.parametri
                      /\ server.valori => ParamCount = server.parametri
    BY DEF RiscrittiContati
  <2>1. riscritta.partList \in Nat /\ server.parametri \in Nat
    BY SegnapostoAssumption DEF SegnInv, SegnTipi, Riscritte, Server
  <2>2. /\ riscritta.partList < server.parametri
        /\ server.valori => riscritta.partList + 1 = server.parametri
    BY DEF SegnInv, Contati
  <2> QED BY <2>1, <2>2 DEF ParamCount
<1> QED BY <1>1, SegnSempre, PTL

\* What a batch repeats by its values has, of what forbids it, nothing that
\* rewritableParts looks for: no other first word, no second query, no
\* LAST_INSERT_ID(), no SELECT before the group ends, no parameter after it.
THEOREM RiscrivibileUnGruppoSempre == Spec => []RiscrivibileUnGruppo
<1>1. SegnInv => RiscrivibileUnGruppo
  <2> SUFFICES ASSUME SegnInv, server.valori, Riscrivibile PROVE ~server.vietato
    BY DEF RiscrivibileUnGruppo
  <2> QED BY DEF SegnInv, Repliche, Riscrivibile
<1> QED BY <1>1, SegnSempre, PTL

\* What a batch repeats after a semicolon ends in no comment but one after #,
\* and in a semicolon only where a comment line follows it, for parameterParts.
THEOREM RipetibileSeparataSempre == Spec => []RipetibileSeparata
<1>1. SegnInv => RipetibileSeparata
  <2> SUFFICES ASSUME SegnInv, Intera
               PROVE  /\ riscritta.multipleQueriesPrepare =>
                           server.dove \in {"fuori", "#"} /\ server.vuota = "no"
                      /\ parti.multipleQueriesPrepare =>
                           server.dove \in {"fuori", "#"} /\ server.vuota \in {"no", "riga"}
    BY DEF RipetibileSeparata
  <2>1. server.dove \in Luoghi /\ server.vuota \in {"no", "si", "riga"}
    BY DEF SegnInv, SegnTipi, Server
  <2> QED BY <2>1 DEF SegnInv, Repliche, Intera, Apici, Luoghi
<1> QED BY <1>1, SegnSempre, PTL
=============================================================================
