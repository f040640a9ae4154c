----------------------------- MODULE UserWindow -----------------------------
(***************************************************************************)
(* The list of users in the server's window (IDC_LIST_USER), for one life  *)
(* of the process: LoginData appends the nick that signs in, CloseClient   *)
(* has DeleteUserList take it out again -- the first line that begins with *)
(* the nick, which is what FindString looks for.                           *)
(*                                                                         *)
(* The module adds the window to AccountStore.                             *)
(***************************************************************************)
EXTENDS AccountStore, SequencesExt

CONSTANTS
    Extended,   \* the pairs <<n, x>> of different ids such that x begins with n
    MaxLines    \* bound of the model: lines in the window

ASSUME ExtendedAssumption == Extended \subseteq {p \in Ids \X Ids : p[1] # p[2]}
ASSUME MaxLinesAssumption == MaxLines \in Nat

VARIABLE users      \* the lines of IDC_LIST_USER, which is not sorted

windowVars == <<vars, users>>

(* The first line that begins with n, 0 when there is none.                *)
FindString(lines, n) ==
    SelectInSeq(lines, LAMBDA x : x = n \/ <<n, x>> \in Extended)

DeleteUserList(lines, n) ==
    LET nFind == FindString(lines, n)
    IN  IF n = NoName \/ nFind = 0 THEN lines ELSE RemoveAt(lines, nFind)

LinesAfterLogin_KeepsTakenOver(n) == Append(users, n)

(* AddString, once the client that is taken over has been closed.          *)
LinesAfterLogin(n) ==
    Append(IF Named(n) = {} THEN users ELSE DeleteUserList(users, n), n)

WindowStep(s) ==
    \/ CloseClient(s) /\ users' = DeleteUserList(users, m_UserName[s])
    \/ \E n \in Ids :
          /\ LoginData(s, n)
          /\ Len(users) < MaxLines
          /\ users' = LinesAfterLogin(n)
    \/ /\ \/ AcceptClient(s)
          \/ \E n \in Ids : RegisterQuery(s, n)
          \/ \E n \in MayName : AddFriend(s, n) \/ DeleteFriend(s, n)
          \/ LoadFriends(s)
       /\ UNCHANGED users

WindowInit == Init /\ users = <<>>

WindowNext == \E s \in Socks : WindowStep(s)

WindowSpec == WindowInit /\ [][WindowNext]_windowVars

-----------------------------------------------------------------------------
(* What the window shows.                                                  *)

Lines(n) == {i \in DOMAIN users : users[i] = n}

(* Whatever the order of logins, takeovers and disconnections, a nick is   *)
(* shown once while it is signed in and not otherwise -- unless it is the  *)
(* beginning of another nick or another is the beginning of it: then one   *)
(* line may go in place of the other.                                      *)
UsersShown ==
    \A n \in Ids : (\A p \in Extended : n \notin {p[1], p[2]}) =>
        Cardinality(Lines(n)) = Cardinality(Named(n))
=============================================================================
