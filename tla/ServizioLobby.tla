---------------------------- MODULE ServizioLobby ----------------------------
(***************************************************************************)
(* What the server promises to its clients, with no connection, statement,  *)
(* session or thread in it: the committed tables, and the steps by which    *)
(* they change.  LobbyServer is shown to implement it.                      *)
(***************************************************************************)
CONSTANTS Utente, Email, Gioco, Nickname, LobbyId, Null

VARIABLES
  utenti,        \* the e-mail of each registered user
  account,       \* the nickname of each user in each game
  lobby,         \* the owner of each open lobby
  prenotazioni,  \* the reservations of the accounts in the lobbies
  chiuse         \* ids of lobbies that will never be open (again)

vars == <<utenti, account, lobby, prenotazioni, chiuse>>

Init ==
  /\ utenti \in [Utente -> Email \cup {Null}]
  /\ account \in [Utente \X Gioco -> Nickname \cup {Null}]
  /\ lobby \in [LobbyId -> Utente \cup {Null}]
  /\ prenotazioni \in [(Utente \X Gioco) \X LobbyId -> {"Attesa", "Accettato", Null}]
  /\ chiuse \subseteq {l \in LobbyId : lobby[l] = Null}

\* A user registers, with an e-mail nobody has.
Registra(u, e) ==
  /\ utenti[u] = Null
  /\ \A v \in Utente : utenti[v] # e
  /\ utenti' = [utenti EXCEPT ![u] = e]
  /\ UNCHANGED <<account, lobby, prenotazioni, chiuse>>

\* A registered user takes a nickname nobody has in the game, for ever.
Collega(u, g, n) ==
  /\ utenti[u] # Null
  /\ account[<<u, g>>] = Null
  /\ \A v \in Utente : account[<<v, g>>] # n
  /\ account' = [account EXCEPT ![<<u, g>>] = n]
  /\ UNCHANGED <<utenti, lobby, prenotazioni, chiuse>>

\* A user opens a lobby and is in it from the first moment.
Apre(u, g, l) ==
  /\ account[<<u, g>>] # Null
  /\ lobby[l] = Null /\ l \notin chiuse
  /\ lobby' = [lobby EXCEPT ![l] = u]
  /\ prenotazioni' = [prenotazioni EXCEPT ![<<<<u, g>>, l>>] = "Accettato"]
  /\ UNCHANGED <<utenti, account, chiuse>>

\* The lobby without its owner in it, when no transaction joins the two writes...
ApreVuota(u, l) ==
  /\ utenti[u] # Null
  /\ lobby[l] = Null /\ l \notin chiuse
  /\ lobby' = [lobby EXCEPT ![l] = u]
  /\ UNCHANGED <<utenti, account, prenotazioni, chiuse>>

\* ... and its owner after it, who asks nobody.
EntraProprietario(g, l) == LET a == <<lobby[l], g>> IN
  /\ lobby[l] # Null
  /\ account[a] # Null
  /\ prenotazioni[<<a, l>>] = Null
  /\ prenotazioni' = [prenotazioni EXCEPT ![<<a, l>>] = "Accettato"]
  /\ UNCHANGED <<utenti, account, lobby, chiuse>>

\* A user asks to take part in a lobby, ...
Prenota(a, l) ==
  /\ account[a] # Null /\ lobby[l] # Null
  /\ prenotazioni[<<a, l>>] = Null
  /\ prenotazioni' = [prenotazioni EXCEPT ![<<a, l>>] = "Attesa"]
  /\ UNCHANGED <<utenti, account, lobby, chiuse>>

\* ... is accepted, ...
Accetta(a, l) ==
  /\ prenotazioni[<<a, l>>] = "Attesa"
  /\ prenotazioni' = [prenotazioni EXCEPT ![<<a, l>>] = "Accettato"]
  /\ UNCHANGED <<utenti, account, lobby, chiuse>>

\* ... or turned away, or leaves.
Ritira(a, l) ==
  /\ prenotazioni[<<a, l>>] # Null
  /\ prenotazioni' = [prenotazioni EXCEPT ![<<a, l>>] = Null]
  /\ UNCHANGED <<utenti, account, lobby, chiuse>>

\* A lobby is closed with all its reservations, and its id is not used again.
Chiude(l) ==
  /\ lobby[l] # Null
  /\ lobby' = [lobby EXCEPT ![l] = Null]
  /\ prenotazioni' = [p \in DOMAIN prenotazioni |-> IF p[2] = l THEN Null ELSE prenotazioni[p]]
  /\ chiuse' = chiuse \cup {l}
  /\ UNCHANGED <<utenti, account>>

\* An id is given to a lobby that is never opened.
Scarta(l) ==
  /\ lobby[l] = Null
  /\ chiuse' = chiuse \cup {l}
  /\ UNCHANGED <<utenti, account, lobby, prenotazioni>>

\* The steps that change each table.
UtentiCambia == \E u \in Utente : \E e \in Email : Registra(u, e)
AccountCambia == \E u \in Utente : \E g \in Gioco : \E n \in Nickname : Collega(u, g, n)
LobbyCambia ==
  \E l \in LobbyId :
    \/ Chiude(l)
    \/ \E u \in Utente : ApreVuota(u, l) \/ \E g \in Gioco : Apre(u, g, l)
PrenotazioniCambiano ==
  \E l \in LobbyId : \E g \in Gioco :
    \/ EntraProprietario(g, l)
    \/ \E u \in Utente : Prenota(<<u, g>>, l) \/ Accetta(<<u, g>>, l) \/ Ritira(<<u, g>>, l)

\* A step changes a table only by one of its steps.
Next ==
  \/ utenti' # utenti /\ UtentiCambia
  \/ account' # account /\ AccountCambia
  \/ lobby' # lobby /\ LobbyCambia
  \/ prenotazioni' # prenotazioni /\ PrenotazioniCambiano
  \/ chiuse' # chiuse /\ \E l \in LobbyId : Scarta(l)

Spec == Init /\ [][Next]_vars
=============================================================================
