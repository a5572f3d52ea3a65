---------------------------- MODULE MCLobbyServer ----------------------------
(***************************************************************************)
(* Instances of LobbyServer for TLC: the users, and the databases a server  *)
(* may find when it starts.  The tables outlive the process, so any         *)
(* database an earlier execution left is an initial one.                    *)
(***************************************************************************)
EXTENDS LobbyServer, TLC

CONSTANTS anna, bruno, ea, eb, n1, n2, w1, w2

\* A database with the users of E and the accounts of A, and no lobby.
DbCon(E, A) ==
  [ Utenti       |-> E,
    Account_Game |-> A,
    Lobby        |-> [l \in LobbyId |-> Null],
    Prenotazioni |-> [p \in Account \X LobbyId |-> Null] ]

Iscritti == [u \in Utente |-> IF u = anna THEN ea ELSE eb]

\* Anna has an account in every game; Bruno in every game, or in none.
TuttiConAccount ==
  [a \in Account |-> IF a[1] = anna THEN n1 ELSE n2]
AnnaConAccount ==
  [a \in Account |-> IF a[1] = anna THEN n1 ELSE Null]

\* Only Anna is registered, and nobody has an account.
DbNuovo == {DbCon([Iscritti EXCEPT ![bruno] = Null], [a \in Account |-> Null])}

\* Both are registered, with and without an account for Bruno.
DbIscritti == {DbCon(Iscritti, TuttiConAccount), DbCon(Iscritti, AnnaConAccount)}

\* The workers are alike.
Simmetria == Permutations(Worker)

\* Only Anna is registered, with an account.
DbAnna == {DbCon([Iscritti EXCEPT ![bruno] = Null], AnnaConAccount)}

\* Anna has a lobby and Bruno an account; or Bruno is not registered and neither
\* has an account, so that two messages may ask for the same nickname.
DbContesa ==
  {[DbCon(Iscritti, TuttiConAccount) EXCEPT
      !.Lobby = [l \in LobbyId |-> IF l = 1 THEN anna ELSE Null],
      !.Prenotazioni = [p \in Account \X LobbyId |->
         IF p[1][1] = anna /\ p[2] = 1 THEN "Accettato" ELSE Null]],
   DbCon([Iscritti EXCEPT ![bruno] = Null], [a \in Account |-> Null])}
=============================================================================
