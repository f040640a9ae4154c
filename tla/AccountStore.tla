---------------------------- MODULE AccountStore ----------------------------
(***************************************************************************)
(* The MySQL tables `account` and `friend` as ChatSer.cpp reads and writes *)
(* them.  They outlive the process, so what a handler has written when the *)
(* process ends, or when a later statement fails, stays.                   *)
(*                                                                         *)
(* A handler is one action, as in ChatRooms, but each statement of it may  *)
(* fail (Sql_UpdateQuery returns -1, which most callers ignore), and the   *)
(* process may end between two statements.  ChatRooms says when a handler  *)
(* ends the process; here the process may end at any time.  A query that   *)
(* fails before the first write leaves nothing behind, like a refusal, and *)
(* is not listed; neither are the requests that only read.                 *)
(*                                                                         *)
(* A definition named X_Y is a slip Y that X could have contained.         *)
(***************************************************************************)
EXTENDS Integers, FiniteSets

CONSTANTS
    Socks,      \* addresses of CClientSock objects
    Ids,        \* the ids that may be registered
    NoName,     \* the nick of a socket that m_UserName does not hold
    Faults,     \* what may go wrong, a subset of AllFaults
    WellBehaved \* clients log in once, and before their other requests

(* statement: an UPDATE or INSERT may fail;  crash: the process may end.   *)
AllFaults == {"statement", "crash"}

Nick == Ids \cup {NoName}

ASSUME NoNameAssumption == NoName \notin Ids
ASSUME FaultsAssumption == Faults \subseteq AllFaults
ASSUME WellBehavedAssumption == WellBehaved \in BOOLEAN

VARIABLES
    account,        \* the ids with a row in `account`
    login,          \* the column `login` of each row
    friend,         \* the rows <<name, friend>> of `friend`
    m_UserList,     \* the sockets accepted and not deleted
    m_UserName,     \* the nick signed in on a socket address
    told,           \* whom the client at a socket was told it is friends with
    asked           \* the rows whose deletion was asked for since their insertion

vars == <<account, login, friend, m_UserList, m_UserName, told, asked>>

Named(n) == {t \in Socks : m_UserName[t] = n}

MayFail(fault) == fault \in Faults

-----------------------------------------------------------------------------
(* Accounts.                                                               *)

(* CServerSock::OnAccept -> AcceptClient, at any address not in use.       *)
AcceptClient(s) ==
    /\ s \notin m_UserList
    /\ m_UserList' = m_UserList \cup {s}
    /\ told' = [told EXCEPT ![s] = {}]
    /\ UNCHANGED <<account, login, friend, m_UserName, asked>>

(* LoginData "2" -> RegisterQuery: SELECT, then INSERT with login 0.       *)
RegisterQuery(s, n) ==
    /\ s \in m_UserList
    /\ n \notin account
    /\ account' = account \cup {n}
    /\ login' = [login EXCEPT ![n] = 0]
    /\ UNCHANGED <<friend, m_UserList, m_UserName, told, asked>>

UpdateQuery_Counts(flags, n, value) == {[flags EXCEPT ![n] = @ + 2 * value - 1]}

(* UpdateQuery with type & 2: the column of nick n as it may be afterwards. *)
UpdateQuery(flags, n, value) ==
    {[flags EXCEPT ![n] = value]} \cup (IF MayFail("statement") THEN {flags} ELSE {})

LoggedOut_Never(t) == {login}

(* CloseClient: UpdateQuery(2, m_UserName[t], 0).                          *)
LoggedOut(t) ==
    IF m_UserName[t] = NoName THEN {login}
    ELSE UpdateQuery(login, m_UserName[t], 0)

LoginFlags_UpdatedFirst(n) ==
    IF Named(n) = {} THEN UpdateQuery(login, n, 1)
    ELSE UNION {UpdateQuery(flags, n, 0) : flags \in UpdateQuery(login, n, 1)}

(* LoginData "0": the one signed in under n is closed, then               *)
(* UpdateQuery(3, n, 1).                                                   *)
LoginFlags(n) ==
    IF Named(n) = {} THEN UpdateQuery(login, n, 1)
    ELSE UNION {UpdateQuery(flags, n, 1) : flags \in UpdateQuery(login, n, 0)}

(* LoginData "0" with a correct password.  A client that repeats its own   *)
(* login is deleted, and its address bears the nick all the same.          *)
LoginData(s, n) ==
    /\ s \in m_UserList
    /\ n \in account
    /\ WellBehaved => m_UserName[s] = NoName
    /\ login' \in LoginFlags(n)
    /\ \/ /\ Named(n) = {}
          /\ m_UserName' = [m_UserName EXCEPT ![s] = n]
          /\ UNCHANGED m_UserList
       \/ \E t \in Named(n) :
             /\ m_UserName' = [m_UserName EXCEPT ![t] = NoName, ![s] = n]
             /\ m_UserList' = m_UserList \ {t}
    /\ UNCHANGED <<account, friend, told, asked>>

(* CClientSock::OnClose -> CloseClient.                                    *)
CloseClient(s) ==
    /\ s \in m_UserList
    /\ login' \in LoggedOut(s)
    /\ m_UserName' = [m_UserName EXCEPT ![s] = NoName]
    /\ m_UserList' = m_UserList \ {s}
    /\ UNCHANGED <<account, friend, told, asked>>

-----------------------------------------------------------------------------
(* Friends.                                                                *)

MayAsk(s) == s \in m_UserList /\ (WellBehaved => m_UserName[s] # NoName)
MayName == IF WellBehaved THEN Ids ELSE Nick

(* FriendQuery: the table with row <<a, b>>, or without it after a failure. *)
FriendQuery(rows, a, b) ==
    {rows \cup {<<a, b>>}} \cup (IF MayFail("statement") THEN {rows} ELSE {})

FriendRows_OneWay(a, b) == {friend \cup {<<a, b>>}}

(* FriendQuery(a, b) has succeeded; the result of FriendQuery(b, a) is     *)
(* ignored.                                                                *)
FriendRows(a, b) == FriendQuery(friend \cup {<<a, b>>}, b, a)

Addressed_Anyone(n) == Socks

(* Whom a friend request for n reaches: a socket that bears the name n in  *)
(* m_UserName, where lookups leave empty names for those not signed in.    *)
Addressed(n) == Named(n)

(* FriendData "0": n is signed in somewhere and not yet a friend; rows are *)
(* inserted both ways and both clients are told.                           *)
AddFriend(s, n) ==
    LET a == m_UserName[s]
    IN  /\ MayAsk(s)
        /\ n # a
        /\ <<a, n>> \notin friend
        /\ \E t \in Addressed(n) :
              told' = [told EXCEPT ![s] = @ \cup {n}, ![t] = @ \cup {a}]
        /\ friend' \in FriendRows(a, n)
        /\ asked' = asked \ (friend' \ friend)
        /\ UNCHANGED <<account, login, m_UserList, m_UserName>>

(* FriendData "3" -> FriendDelQuery: -1 when the SELECT finds the row.     *)
(* (When it does not: a DELETE with a column list, which MySQL refuses.)   *)
DeleteFriend(s, n) ==
    /\ MayAsk(s)
    /\ <<m_UserName[s], n>> \in friend
    /\ asked' = asked \cup {<<m_UserName[s], n>>}
    /\ UNCHANGED <<account, login, friend, m_UserList, m_UserName, told>>

(* FriendData "9" -> FriendLoadQuery.                                      *)
LoadFriends(s) ==
    /\ MayAsk(s)
    /\ told' = [told EXCEPT ![s] =
                  @ \cup {n \in Nick : <<m_UserName[s], n>> \in friend}]
    /\ UNCHANGED <<account, login, friend, m_UserList, m_UserName, asked>>

-----------------------------------------------------------------------------
(* The end of the process.                                                 *)

Ended ==
    /\ m_UserList' = {}
    /\ m_UserName' = [t \in Socks |-> NoName]
    /\ told' = [t \in Socks |-> {}]
    /\ UNCHANGED <<account, asked>>

(* It ends and is started again; Sql_Initialize resets nothing.            *)
Restart ==
    /\ MayFail("crash")
    /\ Ended
    /\ UNCHANGED <<login, friend>>

(* It ends within a handler: behind the UPDATE of CloseClient, which is    *)
(* also the first of a takeover, behind the last UPDATE of a login, or     *)
(* behind the first INSERT of a friendship.                                *)
EndsWithin ==
    /\ MayFail("crash")
    /\ Ended
    /\ \/ \E s \in m_UserList : login' \in LoggedOut(s) /\ UNCHANGED friend
       \/ /\ \E s \in m_UserList, n \in account : login' \in LoginFlags(n)
          /\ UNCHANGED friend
       \/ \E s \in m_UserList, t \in Socks :
             /\ MayAsk(s) /\ m_UserName[t] \in MayName \ {m_UserName[s]}
             /\ friend' = friend \cup {<<m_UserName[s], m_UserName[t]>>}
             /\ UNCHANGED login

Init ==
    /\ account = {}
    /\ login = [n \in Ids |-> 0]
    /\ friend = {}
    /\ m_UserList = {}
    /\ m_UserName = [t \in Socks |-> NoName]
    /\ told = [t \in Socks |-> {}]
    /\ asked = {}

ServerStep(s) ==
    \/ AcceptClient(s)
    \/ CloseClient(s)
    \/ \E n \in Ids : RegisterQuery(s, n) \/ LoginData(s, n)
    \/ \E n \in MayName : AddFriend(s, n) \/ DeleteFriend(s, n)
    \/ LoadFriends(s)

Next ==
    \/ \E s \in Socks : ServerStep(s)
    \/ Restart
    \/ EndsWithin

Spec == Init /\ [][Next]_vars

-----------------------------------------------------------------------------
(* What the tables promise.                                                *)

(* The tables hold what their columns may hold.                            *)
TypeOK ==
    /\ account \subseteq Ids
    /\ login \in [Ids -> {0, 1}]
    /\ friend \subseteq Nick \X Nick
    /\ m_UserList \subseteq Socks
    /\ m_UserName \in [Socks -> Nick]
    /\ told \in [Socks -> SUBSET Nick]
    /\ asked \subseteq Nick \X Nick

(* Both ends of a friendship are registered, and they are two.             *)
FriendsRegistered ==
    \A row \in friend : row[1] \in account /\ row[2] \in account /\ row[1] # row[2]

(* Whoever is signed in is so in the table: a takeover, which logs the nick *)
(* out before it logs it in, never leaves it out.                          *)
SignedInIsFlagged ==
    \A s \in Socks : m_UserName[s] # NoName => login[m_UserName[s]] = 1

(* And whoever is signed in in the table is so on some connected socket.   *)
FlaggedIsSignedIn ==
    \A n \in Ids : login[n] = 1 => Named(n) \cap m_UserList # {}

(* Friendship goes both ways.                                              *)
FriendsMutual ==
    \A row \in friend : <<row[2], row[1]>> \in friend

(* What a client was told of its friends is what the table says of the one *)
(* that is signed in there, and the next list will say so again.           *)
FriendNoticesTrue ==
    \A s \in m_UserList : \A n \in told[s] : <<m_UserName[s], n>> \in friend

-----------------------------------------------------------------------------
(* What comments say and the code does not keep.                           *)

(* ChatSer.cpp:901, 1029: "delete request", "delete a friend".             *)
DeletionsHonoured == friend \cap asked = {}

=============================================================================
