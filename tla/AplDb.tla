-------------------------------- MODULE AplDb --------------------------------
(***************************************************************************)
(* The database `apl' of ConfigdB.sql and the SQL statements the handlers   *)
(* send to it.  A table is a function from its key to its contents, Null    *)
(* where there is no row.                                                   *)
(*                                                                          *)
(* Users are never deleted and Username is UNIQUE, so a user is named by    *)
(* its Username and the numeric Utenti.ID is left out; an account is never  *)
(* deleted or changed and UNIQUE(ID_utente, ID_gioco), so an account is the *)
(* pair <<utente, gioco>>.  Lobbies are deleted, so they keep the numeric   *)
(* ID that AUTO_INCREMENT gives them.  Passwords, notes, names and dates    *)
(* are data no property tells apart.                                        *)
(***************************************************************************)
EXTENDS Integers

CONSTANTS
  Utente,    \* usernames
  Email,     \* e-mail addresses
  Gioco,     \* the games of table Giochi
  Nickname,  \* nicknames in the games
  MaxLobby,  \* bound: ids AUTO_INCREMENT can give to lobbies
  Null       \* no row

\* The rows ConfigdB.sql puts in Giochi; no statement of the server changes them.
Giochi == {"League of Legends", "Teamfight Tactics", "Counter Strike Go"}

ASSUME AplDbAssumption ==
  /\ Gioco \subseteq Giochi
  /\ MaxLobby \in Nat \ {0}
  /\ Utente # {} /\ Email # {} /\ Gioco # {} /\ Nickname # {}
  /\ Null \notin Utente \cup Email \cup Nickname \cup {"Attesa", "Accettato"}

Account == Utente \X Gioco
LobbyId == 1..MaxLobby
Stato   == {"Attesa", "Accettato"}

Db == [ Utenti       : [Utente -> Email \cup {Null}],
        Account_Game : [Account -> Nickname \cup {Null}],
        Lobby        : [LobbyId -> Utente \cup {Null}],
        Prenotazioni : [Account \X LobbyId -> Stato \cup {Null}] ]

-----------------------------------------------------------------------------
(* The constraints of the tables: UNIQUE columns and foreign keys.          *)

EmailUniche(d) ==
  \A u, v \in Utente : d.Utenti[u] # Null /\ d.Utenti[u] = d.Utenti[v] => u = v

NicknameUnici(d) ==
  \A g \in Gioco : \A u, v \in Utente :
    /\ d.Account_Game[<<u, g>>] # Null
    /\ d.Account_Game[<<u, g>>] = d.Account_Game[<<v, g>>]
    => u = v

AccountDiUtenti(d) ==
  \A a \in Account : d.Account_Game[a] # Null => d.Utenti[a[1]] # Null

LobbyDiUtenti(d) ==
  \A l \in LobbyId : d.Lobby[l] # Null => d.Utenti[d.Lobby[l]] # Null

PrenotazioniReferenziate(d) ==
  \A a \in Account : \A l \in LobbyId :
    d.Prenotazioni[<<a, l>>] # Null => d.Account_Game[a] # Null /\ d.Lobby[l] # Null

Integrita(d) ==
  /\ EmailUniche(d)
  /\ NicknameUnici(d)
  /\ AccountDiUtenti(d)
  /\ LobbyDiUtenti(d)
  /\ PrenotazioniReferenziate(d)

-----------------------------------------------------------------------------
(* The queries.  Each reads one database.                                   *)

\* HMLogin: count(ID) is 1 for a registered Username with its password.
Presente(d, u, password) == d.Utenti[u] # Null /\ password

\* The account id of a user in a game: the query of HMPartecipaLobby.
HaAccount(d, u, g) == d.Utenti[u] # Null /\ d.Account_Game[<<u, g>>] # Null

\* The same question as HMInserisciLobby asks it: it joins Lobby as well.
HaAccountConLobby(d, u, g) ==
  HaAccount(d, u, g) /\ \E l \in LobbyId : d.Lobby[l] = u

\* Count(Nickname) of the three Stats handlers is not 0.
NicknameUsato(d, n, g) == \E u \in Utente : d.Account_Game[<<u, g>>] = n

\* A lobby is seen in a game through an accepted reservation of that game.
Vista(d, l, g) ==
  \E u \in Utente : d.Prenotazioni[<<<<u, g>>, l>>] = "Accettato"

\* The three lists of HMVisualizzaLobby.
Possedute(d, u, g) == {l \in LobbyId : d.Lobby[l] = u /\ Vista(d, l, g)}

LobbyPresente(d, u, g) ==
  {l \in LobbyId : /\ d.Lobby[l] \notin {u, Null}
                   /\ Vista(d, l, g)
                   /\ \E h \in Gioco : d.Prenotazioni[<<<<u, h>>, l>>] = "Accettato"}

Disponibili(d, u, g) ==
  {l \in LobbyId : /\ d.Lobby[l] \notin {u, Null}
                   /\ Vista(d, l, g)
                   /\ \A h \in Gioco : d.Prenotazioni[<<<<u, h>>, l>>] = Null}

-----------------------------------------------------------------------------
(* The statements.  ok: the server accepts it (no UNIQUE, key or foreign    *)
(* key refuses it); dopo: the database it leaves.                           *)

Lettura(d) == [ok |-> TRUE, dopo |-> d]

\* Mutated: the e-mail column is not UNIQUE.
InsertUtenteEmailDoppia(d, u, e) ==
  [ok |-> d.Utenti[u] = Null, dopo |-> [d EXCEPT !.Utenti[u] = e]]

InsertUtente(d, u, e) ==
  [ok   |-> d.Utenti[u] = Null /\ \A v \in Utente : d.Utenti[v] # e,
   dopo |-> [d EXCEPT !.Utenti[u] = e]]

\* Mutated: INSERT IGNORE, a refused row is silently left out.
InsertAccountIgnore(d, u, g, n) ==
  IF d.Account_Game[<<u, g>>] = Null /\ \A v \in Utente : d.Account_Game[<<v, g>>] # n
  THEN [ok |-> TRUE, dopo |-> [d EXCEPT !.Account_Game[<<u, g>>] = n]]
  ELSE Lettura(d)

\* Mutated: REPLACE in the place of INSERT.
InsertAccountReplace(d, u, g, n) ==
  IF d.Utenti[u] = Null
  THEN Lettura(d)
  ELSE [ok |-> ~NicknameUsato(d, n, g), dopo |-> [d EXCEPT !.Account_Game[<<u, g>>] = n]]

\* Mutated: UNIQUE(ID_utente, ID_gioco) alone, and two users share a nickname.
InsertAccountNicknameDoppio(d, u, g, n) ==
  IF d.Utenti[u] = Null
  THEN Lettura(d)
  ELSE [ok |-> d.Account_Game[<<u, g>>] = Null, dopo |-> [d EXCEPT !.Account_Game[<<u, g>>] = n]]

\* INSERT ... SELECT: an unknown Username selects no row and inserts none.
InsertAccount(d, u, g, n) ==
  IF d.Utenti[u] = Null
  THEN Lettura(d)
  ELSE [ok   |-> d.Account_Game[<<u, g>>] = Null /\ ~NicknameUsato(d, n, g),
        dopo |-> [d EXCEPT !.Account_Game[<<u, g>>] = n]]

InsertLobby(d, l, u) ==
  [ok   |-> l \in LobbyId /\ d.Utenti[u] # Null,
   dopo |-> [d EXCEPT !.Lobby = [k \in LobbyId |-> IF k = l THEN u ELSE d.Lobby[k]]]]

\* Mutated: no primary key, a new reservation replaces the old one.
InsertPrenotazioneSenzaChiave(d, a, l, s) ==
  [ok   |-> l \in LobbyId /\ d.Account_Game[a] # Null /\ d.Lobby[l] # Null,
   dopo |-> [d EXCEPT !.Prenotazioni =
              [k \in Account \X LobbyId |-> IF k = <<a, l>> THEN s ELSE d.Prenotazioni[k]]]]

\* The primary key is (ID_account, ID_lobby); both are foreign keys.
InsertPrenotazione(d, a, l, s) ==
  [ok   |-> /\ l \in LobbyId
            /\ d.Account_Game[a] # Null
            /\ d.Lobby[l] # Null
            /\ d.Prenotazioni[<<a, l>>] = Null,
   dopo |-> [d EXCEPT !.Prenotazioni =
              [k \in Account \X LobbyId |-> IF k = <<a, l>> THEN s ELSE d.Prenotazioni[k]]]]

\* Mutated: the reservation is created when there is none.
AccettaPrenotazioneNuova(d, a, l) ==
  [ok   |-> d.Account_Game[a] # Null /\ d.Lobby[l] # Null,
   dopo |-> [d EXCEPT !.Prenotazioni[<<a, l>>] = "Accettato"]]

\* Update ... where: no row matches when there is no such reservation.
AccettaPrenotazione(d, a, l) ==
  [ok   |-> TRUE,
   dopo |-> [d EXCEPT !.Prenotazioni[<<a, l>>] = IF @ = Null THEN Null ELSE "Accettato"]]

DeletePrenotazione(d, a, l) ==
  [ok |-> TRUE, dopo |-> [d EXCEPT !.Prenotazioni[<<a, l>>] = Null]]

\* Mutated: no ON DELETE CASCADE, and no foreign key to stop the deletion.
DeleteLobbySenzaCascade(d, l) ==
  [ok |-> TRUE, dopo |-> [d EXCEPT !.Lobby[l] = Null]]

\* ON DELETE CASCADE takes the reservations of the lobby with it.
DeleteLobby(d, l) ==
  [ok   |-> TRUE,
   dopo |-> [d EXCEPT
     !.Lobby[l] = Null,
     !.Prenotazioni = [k \in Account \X LobbyId |-> IF k[2] = l THEN Null ELSE d.Prenotazioni[k]]]]
=============================================================================
