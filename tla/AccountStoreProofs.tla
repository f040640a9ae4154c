------------------------- MODULE AccountStoreProofs -------------------------
(***************************************************************************)
(* Theorems about AccountStore, for every set of sockets and ids and every *)
(* choice of Faults they name, and about the window above it (UserWindow). *)
(***************************************************************************)
EXTENDS UserWindow, SequenceFacts, FiniteSetTheorems

(* What an UPDATE that succeeds leaves behind.                             *)
LEMMA UpdateQueryResult ==
    ASSUME NEW flags \in [Ids -> {0, 1}], NEW n \in Ids, NEW value \in {0, 1},
           NEW after \in UpdateQuery(flags, n, value)
    PROVE  /\ after \in [Ids -> {0, 1}]
           /\ \A x \in Ids \ {n} : after[x] = flags[x]
           /\ "statement" \notin Faults => after[n] = value
BY DEF UpdateQuery, MayFail

LEMMA LoggedOutResult ==
    ASSUME TypeOK, NEW t \in Socks, NEW after \in LoggedOut(t)
    PROVE  /\ after \in [Ids -> {0, 1}]
           /\ \A x \in Ids \ {m_UserName[t]} : after[x] = login[x]
<1>1. CASE m_UserName[t] = NoName
  BY <1>1 DEF LoggedOut, TypeOK
<1>2. CASE m_UserName[t] # NoName
  BY <1>2, UpdateQueryResult DEF LoggedOut, TypeOK, Nick
<1> QED
  BY <1>1, <1>2

LEMMA LoginFlagsResult ==
    ASSUME TypeOK, NEW n \in Ids, NEW after \in LoginFlags(n)
    PROVE  /\ after \in [Ids -> {0, 1}]
           /\ \A x \in Ids \ {n} : after[x] = login[x]
           /\ "statement" \notin Faults => after[n] = 1
<1>1. CASE Named(n) = {}
  BY <1>1, UpdateQueryResult DEF LoginFlags, TypeOK
<1>2. CASE Named(n) # {}
  <2>1. PICK between \in UpdateQuery(login, n, 0) :
           after \in UpdateQuery(between, n, 1)
    BY <1>2 DEF LoginFlags
  <2>2. /\ between \in [Ids -> {0, 1}]
        /\ \A x \in Ids \ {n} : between[x] = login[x]
    BY UpdateQueryResult DEF TypeOK
  <2> QED
    BY <2>1, <2>2, UpdateQueryResult
<1> QED
  BY <1>1, <1>2

(* A friendship adds the row and perhaps its reverse.                      *)
LEMMA FriendRowsResult ==
    ASSUME NEW a, NEW b, NEW after \in FriendRows(a, b)
    PROVE  /\ after \in {friend \cup {<<a, b>>}, friend \cup {<<a, b>>, <<b, a>>}}
           /\ "statement" \notin Faults => after = friend \cup {<<a, b>>, <<b, a>>}
BY DEF FriendRows, FriendQuery, MayFail

-----------------------------------------------------------------------------
(* Type correctness.                                                       *)

LEMMA NextKeepsTypes ==
    ASSUME TypeOK, [Next]_vars
    PROVE  TypeOK'
<1> USE DEF TypeOK, Nick
<1>1. ASSUME NEW s \in Socks, AcceptClient(s) PROVE TypeOK'
  BY <1>1 DEF AcceptClient
<1>2. ASSUME NEW s \in Socks, CloseClient(s) PROVE TypeOK'
  <2>1. login' \in [Ids -> {0, 1}]
    BY <1>2, LoggedOutResult DEF CloseClient
  <2> QED
    BY <1>2, <2>1 DEF CloseClient
<1>3. ASSUME NEW s \in Socks, NEW n \in Ids, RegisterQuery(s, n) PROVE TypeOK'
  BY <1>3 DEF RegisterQuery
<1>4. ASSUME NEW s \in Socks, NEW n \in Ids, LoginData(s, n) PROVE TypeOK'
  <2>1. login' \in [Ids -> {0, 1}]
    BY <1>4, LoginFlagsResult DEF LoginData
  <2>2. m_UserName' \in [Socks -> Nick] /\ m_UserList' \subseteq Socks
    BY <1>4 DEF LoginData
  <2> QED
    BY <1>4, <2>1, <2>2 DEF LoginData
<1>5. ASSUME NEW s \in Socks, NEW n \in MayName, AddFriend(s, n) PROVE TypeOK'
  <2>1. n \in Nick /\ m_UserName[s] \in Nick
    BY DEF MayName
  <2>2. friend' \subseteq Nick \X Nick
    BY <1>5, <2>1, FriendRowsResult DEF AddFriend
  <2>3. \E t \in Socks : told' = [told EXCEPT ![s] = @ \cup {n},
                                             ![t] = @ \cup {m_UserName[s]}]
    BY <1>5 DEF AddFriend, Addressed, Named
  <2>4. told' \in [Socks -> SUBSET Nick]
    BY <2>1, <2>3
  <2> QED
    BY <1>5, <2>2, <2>4 DEF AddFriend
<1>6. ASSUME NEW s \in Socks, NEW n \in MayName, DeleteFriend(s, n) PROVE TypeOK'
  BY <1>6 DEF DeleteFriend
<1>7. ASSUME NEW s \in Socks, LoadFriends(s) PROVE TypeOK'
  BY <1>7 DEF LoadFriends
<1>8. CASE Restart
  BY <1>8 DEF Restart, Ended
<1>9. CASE EndsWithin
  <2>1. ASSUME NEW s \in m_UserList, login' \in LoggedOut(s)
        PROVE  login' \in [Ids -> {0, 1}]
    BY <2>1, LoggedOutResult
  <2>2. ASSUME NEW n \in account, login' \in LoginFlags(n)
        PROVE  login' \in [Ids -> {0, 1}]
    BY <2>2, LoginFlagsResult
  <2>3. login' \in [Ids -> {0, 1}]
    BY <1>9, <2>1, <2>2 DEF EndsWithin
  <2>4. friend' \subseteq Nick \X Nick
    BY <1>9 DEF EndsWithin
  <2> QED
    BY <1>9, <2>3, <2>4 DEF EndsWithin, Ended
<1>10. CASE UNCHANGED vars
  BY <1>10 DEF vars
<1> QED
  BY <1>1, <1>2, <1>3, <1>4, <1>5, <1>6, <1>7, <1>8, <1>9, <1>10
  DEF Next, ServerStep

(* The columns `account` and `friend`: in every reachable state, whatever  *)
(* fails and whenever the process ends, the tables hold values of their    *)
(* types.                                                                  *)
THEOREM TablesTyped == Spec => []TypeOK
<1>1. Init => TypeOK
  BY DEF Init, TypeOK, Nick
<1> QED
  BY <1>1, NextKeepsTypes, PTL DEF Spec

-----------------------------------------------------------------------------
(* The login column.  A logout clears the column of a nick, so nobody else *)
(* may be signed in under it, and a registration clears it too, so nobody  *)
(* may be signed in before: the invariant needs both.                      *)

NamesUnique ==
    \A s, t \in Socks : m_UserName[s] = m_UserName[t] /\ s # t =>
        m_UserName[s] = NoName

NamesRegistered ==
    \A s \in Socks : m_UserName[s] \in account \cup {NoName}

FlagsSound == NamesUnique /\ NamesRegistered /\ SignedInIsFlagged

LEMMA LogoutKeepsFlags ==
    ASSUME TypeOK, FlagsSound, NEW s \in Socks, CloseClient(s)
    PROVE  FlagsSound'
<1>1. /\ m_UserName' = [m_UserName EXCEPT ![s] = NoName]
      /\ account' = account
  BY DEF CloseClient
<1>2. \A x \in Ids \ {m_UserName[s]} : login'[x] = login[x]
  BY LoggedOutResult DEF CloseClient
<1>3. ASSUME NEW t \in Socks, m_UserName'[t] # NoName
      PROVE  login'[m_UserName'[t]] = 1
  <2>1. t # s /\ m_UserName'[t] = m_UserName[t] /\ m_UserName[t] \in Ids
    BY <1>1, <1>3 DEF TypeOK, Nick
  <2>2. m_UserName[t] # m_UserName[s]
    BY <1>3, <2>1 DEF FlagsSound, NamesUnique
  <2> QED
    BY <1>2, <1>3, <2>1, <2>2 DEF FlagsSound, SignedInIsFlagged
<1> QED
  BY <1>1, <1>3 DEF FlagsSound, NamesUnique, NamesRegistered, SignedInIsFlagged,
                    TypeOK

LEMMA LoginKeepsFlags ==
    ASSUME "statement" \notin Faults, TypeOK, FlagsSound,
           NEW s \in Socks, NEW n \in Ids, LoginData(s, n)
    PROVE  FlagsSound'
<1>1. /\ login'[n] = 1
      /\ \A x \in Ids \ {n} : login'[x] = login[x]
      /\ account' = account
      /\ n \in account
  BY LoginFlagsResult DEF LoginData
<1>2. /\ m_UserName'[s] = n
      /\ \A t \in Socks \ {s} :
            \/ m_UserName'[t] = NoName
            \/ m_UserName'[t] = m_UserName[t] /\ m_UserName[t] # n
  <2>1. CASE /\ Named(n) = {}
             /\ m_UserName' = [m_UserName EXCEPT ![s] = n]
    BY <2>1 DEF TypeOK, Named
  <2>2. ASSUME NEW t \in Named(n),
               m_UserName' = [m_UserName EXCEPT ![t] = NoName, ![s] = n]
        PROVE  /\ m_UserName'[s] = n
               /\ \A u \in Socks \ {s} :
                     \/ m_UserName'[u] = NoName
                     \/ m_UserName'[u] = m_UserName[u] /\ m_UserName[u] # n
    <3>1. t \in Socks /\ m_UserName[t] = n /\ n # NoName
      BY NoNameAssumption DEF Named
    <3>2. \A u \in Socks \ {t} : m_UserName[u] # n
      BY <3>1 DEF FlagsSound, NamesUnique
    <3> QED
      BY <2>2, <3>1, <3>2 DEF TypeOK
  <2> QED
    BY <2>1, <2>2 DEF LoginData
<1>3. NamesUnique' /\ NamesRegistered'
  BY <1>1, <1>2 DEF FlagsSound, NamesUnique, NamesRegistered
<1>4. SignedInIsFlagged'
  BY <1>1, <1>2 DEF FlagsSound, SignedInIsFlagged, TypeOK, Nick
<1> QED
  BY <1>3, <1>4 DEF FlagsSound

LEMMA NextKeepsFlags ==
    ASSUME "statement" \notin Faults, TypeOK, FlagsSound, [Next]_vars
    PROVE  FlagsSound'
<1>1. CASE UNCHANGED <<m_UserName, login, account>>
  BY <1>1 DEF FlagsSound, NamesUnique, NamesRegistered, SignedInIsFlagged
<1>2. ASSUME NEW s \in Socks, NEW n \in Ids, RegisterQuery(s, n)
      PROVE  FlagsSound'
  BY <1>2 DEF RegisterQuery, FlagsSound, NamesUnique, NamesRegistered,
              SignedInIsFlagged, TypeOK, Nick
<1>3. CASE Ended
  BY <1>3 DEF Ended, FlagsSound, NamesUnique, NamesRegistered, SignedInIsFlagged
<1> QED
  BY <1>1, <1>2, <1>3, LogoutKeepsFlags, LoginKeepsFlags
  DEF Next, ServerStep, AcceptClient, AddFriend, DeleteFriend, LoadFriends,
      Restart, EndsWithin, vars

(* LoginData: CloseClient logs the nick out before UpdateQuery logs it in. *)
(* If statements do not fail, whoever is signed in is so in the table.     *)
THEOREM SignedInAreFlagged ==
    ASSUME "statement" \notin Faults
    PROVE  Spec => []SignedInIsFlagged
<1>1. Init => FlagsSound
  BY DEF Init, FlagsSound, NamesUnique, NamesRegistered, SignedInIsFlagged
<1>2. FlagsSound => SignedInIsFlagged
  BY DEF FlagsSound
<1>3. TypeOK /\ FlagsSound /\ [Next]_vars => FlagsSound'
  BY NextKeepsFlags
<1> QED
  BY <1>1, <1>2, <1>3, TablesTyped, PTL DEF Spec

-----------------------------------------------------------------------------
(* Friendship.                                                             *)

LEMMA NextKeepsMutual ==
    ASSUME Faults = {}, TypeOK, FriendsMutual, [Next]_vars
    PROVE  FriendsMutual'
<1>1. CASE UNCHANGED friend
  BY <1>1 DEF FriendsMutual
<1>2. ASSUME NEW s \in Socks, NEW n \in MayName, AddFriend(s, n)
      PROVE  FriendsMutual'
  <2> DEFINE a == m_UserName[s]
  <2>1. friend' = friend \cup {<<a, n>>, <<n, a>>}
    BY <1>2, FriendRowsResult DEF AddFriend
  <2> HIDE DEF a
  <2> SUFFICES ASSUME NEW row \in friend'
               PROVE  <<row[2], row[1]>> \in friend'
    BY DEF FriendsMutual
  <2>2. CASE row \in friend
    BY <2>1, <2>2 DEF FriendsMutual
  <2>3. CASE row = <<a, n>>
    BY <2>1, <2>3
  <2>4. CASE row = <<n, a>>
    BY <2>1, <2>4
  <2> QED
    BY <2>1, <2>2, <2>3, <2>4
<1>3. ~Restart /\ ~EndsWithin
  BY DEF Restart, EndsWithin, MayFail
<1> QED
  BY <1>1, <1>2, <1>3 DEF Next, ServerStep, AcceptClient, CloseClient,
     RegisterQuery, LoginData, DeleteFriend, LoadFriends, vars

(* FriendData "0", FriendQuery both ways: if nothing fails and the process *)
(* does not end, friendship goes both ways.                                *)
THEOREM FriendshipMutual ==
    ASSUME Faults = {}
    PROVE  Spec => []FriendsMutual
<1>1. Init => FriendsMutual
  BY DEF Init, FriendsMutual
<1>2. TypeOK /\ FriendsMutual /\ [Next]_vars => FriendsMutual'
  BY NextKeepsMutual
<1> QED
  BY <1>1, <1>2, TablesTyped, PTL DEF Spec

-----------------------------------------------------------------------------
(* Names in friendships.                                                   *)

LEMMA NextKeepsNames ==
    ASSUME TypeOK, NamesRegistered, [Next]_vars
    PROVE  NamesRegistered'
<1>1. CASE UNCHANGED <<m_UserName, account>>
  BY <1>1 DEF NamesRegistered
<1>2. ASSUME NEW s \in Socks, NEW n \in Ids, RegisterQuery(s, n)
      PROVE  NamesRegistered'
  BY <1>2 DEF RegisterQuery, NamesRegistered
<1>3. ASSUME NEW s \in Socks, NEW n \in Ids, LoginData(s, n)
      PROVE  NamesRegistered'
  BY <1>3 DEF LoginData, NamesRegistered, TypeOK
<1>4. ASSUME NEW s \in Socks, CloseClient(s)
      PROVE  NamesRegistered'
  BY <1>4 DEF CloseClient, NamesRegistered, TypeOK
<1>5. CASE Ended
  BY <1>5 DEF Ended, NamesRegistered
<1> QED
  BY <1>1, <1>2, <1>3, <1>4, <1>5
  DEF Next, ServerStep, AcceptClient, AddFriend, DeleteFriend, LoadFriends,
      Restart, EndsWithin, vars

LEMMA NextKeepsFriendsRegistered ==
    ASSUME WellBehaved, TypeOK, NamesRegistered, FriendsRegistered, [Next]_vars
    PROVE  FriendsRegistered'
<1>1. account \subseteq account'
  BY DEF Next, ServerStep, AcceptClient, CloseClient, RegisterQuery, LoginData,
         AddFriend, DeleteFriend, LoadFriends, Restart, EndsWithin, Ended, vars
<1>2. CASE UNCHANGED friend
  BY <1>1, <1>2 DEF FriendsRegistered
<1>3. ASSUME NEW s \in Socks, NEW n \in MayName, AddFriend(s, n)
      PROVE  FriendsRegistered'
  <2> DEFINE a == m_UserName[s]
  <2>1. PICK t \in Socks : m_UserName[t] = n
    BY <1>3 DEF AddFriend, Addressed, Named
  <2>2. a \in account /\ n \in account /\ a # n
    BY <1>3, <2>1, NoNameAssumption
    DEF AddFriend, MayAsk, MayName, NamesRegistered
  <2>3. friend' \subseteq friend \cup {<<a, n>>, <<n, a>>}
    BY <1>3, FriendRowsResult DEF AddFriend
  <2> QED
    BY <1>1, <2>2, <2>3 DEF FriendsRegistered
<1>4. ASSUME EndsWithin, friend' # friend
      PROVE  FriendsRegistered'
  <2>1. PICK s \in m_UserList, t \in Socks :
           /\ MayAsk(s) /\ m_UserName[t] \in MayName \ {m_UserName[s]}
           /\ friend' = friend \cup {<<m_UserName[s], m_UserName[t]>>}
    BY <1>4 DEF EndsWithin
  <2>2. /\ m_UserName[s] \in account /\ m_UserName[t] \in account
        /\ m_UserName[s] # m_UserName[t]
    BY <2>1, NoNameAssumption DEF MayAsk, MayName, NamesRegistered, TypeOK
  <2> QED
    BY <1>1, <2>1, <2>2 DEF FriendsRegistered
<1> QED
  BY <1>2, <1>3, <1>4 DEF Next, ServerStep, AcceptClient, CloseClient,
     RegisterQuery, LoginData, DeleteFriend, LoadFriends, Restart, vars

(* FriendData "0" looks the friend up among those signed in: with clients  *)
(* that log in first, both ends of a friendship are accounts, and two,     *)
(* whatever fails and whenever the process ends.                           *)
THEOREM FriendsAreRegistered ==
    ASSUME WellBehaved
    PROVE  Spec => []FriendsRegistered
<1>1. Init => NamesRegistered /\ FriendsRegistered
  BY DEF Init, NamesRegistered, FriendsRegistered
<1>2. TypeOK /\ NamesRegistered /\ [Next]_vars => NamesRegistered'
  BY NextKeepsNames
<1>3. TypeOK /\ NamesRegistered /\ FriendsRegistered /\ [Next]_vars
        => FriendsRegistered'
  BY NextKeepsFriendsRegistered
<1> QED
  BY <1>1, <1>2, <1>3, TablesTyped, PTL DEF Spec

-----------------------------------------------------------------------------
(* The login column, the other way round.                                  *)

LEMMA LoginKeepsSignedIn ==
    ASSUME WellBehaved, TypeOK, FlaggedIsSignedIn,
           NEW s \in Socks, NEW n \in Ids, LoginData(s, n)
    PROVE  FlaggedIsSignedIn'
<1>1. /\ \A x \in Ids \ {n} : login'[x] = login[x]
      /\ s \in m_UserList
      /\ m_UserName[s] = NoName
  BY LoginFlagsResult DEF LoginData
<1>2. /\ m_UserName'[s] = n
      /\ s \in m_UserList'
      /\ \A t \in m_UserList : m_UserName[t] \notin {n, NoName}
            => t \in m_UserList' /\ m_UserName'[t] = m_UserName[t]
  BY <1>1, NoNameAssumption DEF LoginData, Named, TypeOK
<1> SUFFICES ASSUME NEW x \in Ids, login'[x] = 1
             PROVE  \E t \in Socks : t \in m_UserList' /\ m_UserName'[t] = x
  BY DEF FlaggedIsSignedIn, Named
<1>3. CASE x = n
  BY <1>2, <1>3
<1>4. CASE x # n
  <2>1. PICK t \in Socks : t \in m_UserList /\ m_UserName[t] = x
    BY <1>1, <1>4 DEF FlaggedIsSignedIn, Named
  <2> QED
    BY <1>2, <1>4, <2>1, NoNameAssumption
<1> QED
  BY <1>3, <1>4

LEMMA LogoutKeepsSignedIn ==
    ASSUME "statement" \notin Faults, TypeOK, FlaggedIsSignedIn,
           NEW s \in Socks, CloseClient(s)
    PROVE  FlaggedIsSignedIn'
<1>1. /\ \A x \in Ids \ {m_UserName[s]} : login'[x] = login[x]
      /\ \A x \in Ids : x = m_UserName[s] => login'[x] = 0
  <2>1. ASSUME m_UserName[s] \in Ids
        PROVE  login'[m_UserName[s]] = 0
    BY <2>1, NoNameAssumption, UpdateQueryResult DEF CloseClient, LoggedOut, TypeOK
  <2> QED
    BY <2>1, LoggedOutResult DEF CloseClient
<1> SUFFICES ASSUME NEW x \in Ids, login'[x] = 1
             PROVE  \E t \in Socks : t \in m_UserList' /\ m_UserName'[t] = x
  BY DEF FlaggedIsSignedIn, Named
<1>2. x # m_UserName[s]
  BY <1>1
<1>3. PICK t \in Socks : t \in m_UserList /\ m_UserName[t] = x
  BY <1>1, <1>2 DEF FlaggedIsSignedIn, Named
<1> QED
  BY <1>2, <1>3 DEF CloseClient, TypeOK

(* CloseClient and the takeover in LoginData clear the column: without     *)
(* faults, and with clients that log in once, whoever is marked in the     *)
(* table is signed in on a connected socket.                               *)
THEOREM FlaggedAreSignedIn ==
    ASSUME Faults = {}, WellBehaved
    PROVE  Spec => []FlaggedIsSignedIn
<1>1. Init => FlaggedIsSignedIn
  BY DEF Init, FlaggedIsSignedIn
<1>2. TypeOK /\ FlaggedIsSignedIn /\ [Next]_vars => FlaggedIsSignedIn'
  <2> SUFFICES ASSUME TypeOK, FlaggedIsSignedIn, [Next]_vars
               PROVE  FlaggedIsSignedIn'
    OBVIOUS
  <2>1. CASE UNCHANGED <<login, m_UserName>> /\ m_UserList \subseteq m_UserList'
    BY <2>1 DEF FlaggedIsSignedIn, Named
  <2>2. ASSUME NEW s \in Socks, NEW n \in Ids, RegisterQuery(s, n)
        PROVE  FlaggedIsSignedIn'
    BY <2>2 DEF RegisterQuery, FlaggedIsSignedIn, Named, TypeOK
  <2>3. ~Restart /\ ~EndsWithin
    BY DEF Restart, EndsWithin, MayFail
  <2> QED
    BY <2>1, <2>2, <2>3, LoginKeepsSignedIn, LogoutKeepsSignedIn
    DEF Next, ServerStep, AcceptClient, AddFriend, DeleteFriend, LoadFriends, vars
<1> QED
  BY <1>1, <1>2, TablesTyped, PTL DEF Spec

-----------------------------------------------------------------------------
(* What clients are told of friendships.  Nobody is told anything before   *)
(* it has signed in, so that the login of a socket leaves nothing false.   *)

NoticesSound ==
    /\ FriendNoticesTrue
    /\ \A s \in m_UserList : m_UserName[s] = NoName => told[s] = {}

LEMMA AddFriendKeepsNotices ==
    ASSUME "statement" \notin Faults, WellBehaved, TypeOK, NoticesSound,
           NEW s \in Socks, NEW n \in MayName, AddFriend(s, n)
    PROVE  NoticesSound'
<1> DEFINE a == m_UserName[s]
<1>1. PICK t \in Named(n) :
         told' = [told EXCEPT ![s] = @ \cup {n}, ![t] = @ \cup {a}]
  BY DEF AddFriend, Addressed
<1>2. friend' = friend \cup {<<a, n>>, <<n, a>>}
  BY FriendRowsResult DEF AddFriend
<1>3. /\ m_UserName[t] = n /\ t \in Socks
      /\ n # NoName /\ a # NoName /\ n # a
      /\ UNCHANGED <<m_UserList, m_UserName>>
  BY NoNameAssumption DEF Named, AddFriend, MayAsk, MayName
<1>4. ASSUME NEW u \in m_UserList
      PROVE  /\ \A x \in told'[u] : <<m_UserName[u], x>> \in friend'
             /\ m_UserName[u] = NoName => told'[u] = {}
  <2>1. CASE u = s
    <3>1. told'[u] = told[u] \cup {n}
      BY <1>1, <1>3, <2>1 DEF TypeOK
    <3> QED
      BY <1>2, <1>3, <2>1, <3>1 DEF NoticesSound, FriendNoticesTrue
  <2>2. CASE u = t
    <3>1. told'[u] = told[u] \cup {a}
      BY <1>1, <1>3, <2>2 DEF TypeOK
    <3> QED
      BY <1>2, <1>3, <2>2, <3>1 DEF NoticesSound, FriendNoticesTrue
  <2>3. CASE u \notin {s, t}
    <3>1. told'[u] = told[u]
      BY <1>1, <1>3, <2>3 DEF TypeOK
    <3> QED
      BY <1>2, <3>1 DEF NoticesSound, FriendNoticesTrue
  <2> QED
    BY <2>1, <2>2, <2>3
<1> QED
  BY <1>3, <1>4 DEF NoticesSound, FriendNoticesTrue

LEMMA NextKeepsNotices ==
    ASSUME "statement" \notin Faults, WellBehaved, TypeOK, NoticesSound,
           [Next]_vars
    PROVE  NoticesSound'
<1> USE DEF NoticesSound, FriendNoticesTrue
<1>1. CASE UNCHANGED <<friend, told, m_UserList, m_UserName>>
  BY <1>1
<1>2. ASSUME NEW s \in Socks, AcceptClient(s)
      PROVE  NoticesSound'
  BY <1>2 DEF AcceptClient, TypeOK
<1>3. ASSUME NEW s \in Socks, CloseClient(s)
      PROVE  NoticesSound'
  BY <1>3 DEF CloseClient, TypeOK
<1>4. ASSUME NEW s \in Socks, NEW n \in Ids, LoginData(s, n)
      PROVE  NoticesSound'
  <2>1. /\ told[s] = {}
        /\ UNCHANGED <<friend, told>>
        /\ m_UserList' \subseteq m_UserList
        /\ m_UserName'[s] = n
        /\ \A u \in m_UserList' \ {s} : m_UserName'[u] = m_UserName[u]
    BY <1>4, NoNameAssumption DEF LoginData, Named, TypeOK
  <2> QED
    BY <2>1, NoNameAssumption DEF TypeOK
<1>5. ASSUME NEW s \in Socks, LoadFriends(s)
      PROVE  NoticesSound'
  BY <1>5 DEF LoadFriends, MayAsk, TypeOK
<1>6. CASE Ended
  BY <1>6 DEF Ended
<1> HIDE DEF NoticesSound, FriendNoticesTrue
<1> QED
  BY <1>1, <1>2, <1>3, <1>4, <1>5, <1>6, AddFriendKeepsNotices
  DEF Next, ServerStep, RegisterQuery, DeleteFriend, Restart, EndsWithin, vars

(* FriendData "0" and "9": when statements do not fail and clients log in  *)
(* once and first, nobody is told of a friendship that the table does not  *)
(* have, through takeovers and reused addresses and ends of the process.   *)
THEOREM FriendNoticesAreTrue ==
    ASSUME "statement" \notin Faults, WellBehaved
    PROVE  Spec => []FriendNoticesTrue
<1>1. Init => NoticesSound
  BY DEF Init, NoticesSound, FriendNoticesTrue
<1>2. TypeOK /\ NoticesSound /\ [Next]_vars => NoticesSound'
  BY NextKeepsNotices
<1>3. NoticesSound => FriendNoticesTrue
  BY DEF NoticesSound
<1> QED
  BY <1>1, <1>2, <1>3, TablesTyped, PTL DEF Spec

-----------------------------------------------------------------------------
(* The window shows who is signed in, if clients are WellBehaved: one that *)
(* logs in twice under two nicks leaves the line of the first.             *)

(* A nick that begins no other and that no other begins.                   *)
Plain(n) == \A p \in Extended : n \notin {p[1], p[2]}

Has(lines, n) == \E i \in 1 .. Len(lines) : lines[i] = n

Once(lines, n) ==
    \A i, j \in 1 .. Len(lines) : lines[i] = n /\ lines[j] = n => i = j

-----------------------------------------------------------------------------
(* What the list box does to the lines of one nick.                        *)

LEMMA RemovingALine ==
    ASSUME NEW q \in Seq(Ids), NEW k \in 1 .. Len(q), NEW n, Once(q, n)
    PROVE  /\ Once(RemoveAt(q, k), n)
           /\ Has(RemoveAt(q, k), n) <=> Has(q, n) /\ q[k] # n
<1>1. PICK r \in Seq(Ids) : r = RemoveAt(q, k)
  BY RemoveAtEntries
<1>2. PICK m \in Nat : m = Len(q)
  BY LenProperties
<1>3. /\ Len(r) = m - 1 /\ k \in 1 .. m
      /\ \A i \in 1 .. m - 1 : r[i] = IF i < k THEN q[i] ELSE q[i+1]
  BY <1>1, <1>2, RemoveAtEntries
<1>4. \A i, j \in 1 .. m : q[i] = n /\ q[j] = n => i = j
  BY <1>2 DEF Once
<1> DEFINE old(i) == IF i < k THEN i ELSE i + 1
<1>5. \A i \in 1 .. m - 1 : old(i) \in 1 .. m /\ old(i) # k /\ r[i] = q[old(i)]
  BY <1>2, <1>3
<1>6. \A i, j \in 1 .. m - 1 : old(i) = old(j) => i = j
  BY <1>2, <1>3
<1> HIDE DEF old
<1>7. ASSUME NEW j \in 1 .. m, q[j] = n, q[k] # n
      PROVE  \E i \in 1 .. m - 1 : r[i] = n
  <2>1. CASE j < k
    BY <1>2, <1>3, <1>7, <2>1
  <2>2. CASE j > k
    <3>1. j - 1 \in 1 .. m - 1 /\ ~(j - 1 < k) /\ (j - 1) + 1 = j
      BY <1>2, <1>3, <2>2
    <3> QED
      BY <1>3, <1>7, <3>1
  <2> QED
    BY <1>3, <1>7, <2>1, <2>2
<1>8. Once(r, n)
  <2>1. SUFFICES ASSUME NEW i \in 1 .. m - 1, NEW j \in 1 .. m - 1, r[i] = n, r[j] = n
                 PROVE  i = j
    BY <1>3 DEF Once
  <2>2. old(i) = old(j)
    BY <1>4, <1>5, <2>1
  <2> QED
    BY <1>6, <2>2
<1>9. ASSUME Has(r, n) PROVE Has(q, n) /\ q[k] # n
  <2>1. PICK i \in 1 .. m - 1 : r[i] = n
    BY <1>3, <1>9 DEF Has
  <2>2. old(i) \in 1 .. m /\ old(i) # k /\ q[old(i)] = n
    BY <1>5, <2>1
  <2> QED
    BY <1>2, <1>3, <1>4, <2>2 DEF Has
<1>10. ASSUME Has(q, n), q[k] # n PROVE Has(r, n)
  BY <1>2, <1>3, <1>7, <1>10 DEF Has
<1> QED
  BY <1>1, <1>8, <1>9, <1>10

LEMMA AddingALine ==
    ASSUME NEW q \in Seq(Ids), NEW m \in Ids, NEW n, Once(q, n),
           m = n => ~Has(q, n)
    PROVE  /\ Append(q, m) \in Seq(Ids)
           /\ Once(Append(q, m), n)
           /\ Has(Append(q, m), n) <=> Has(q, n) \/ m = n
<1>1. PICK r \in Seq(Ids) : r = Append(q, m)
  BY AppendProperties
<1>2. PICK l \in Nat : l = Len(q)
  BY LenProperties
<1>3. Len(r) = l + 1 /\ r[l + 1] = m /\ \A i \in 1 .. l : r[i] = q[i]
  BY <1>1, <1>2, AppendProperties
<1> QED
  BY <1>1, <1>2, <1>3 DEF Once, Has

(* DeleteUserList(m): the first line that m begins is no line of a plain   *)
(* nick other than m, and when m is plain it is the line of m.             *)
LEMMA DeletingALine ==
    ASSUME NEW q \in Seq(Ids), NEW m \in Nick
    PROVE  /\ DeleteUserList(q, m) \in Seq(Ids)
           /\ \A n \in Ids : Plain(n) /\ Once(q, n) =>
                 /\ Once(DeleteUserList(q, m), n)
                 /\ Has(DeleteUserList(q, m), n) <=> Has(q, n) /\ m # n
<1> DEFINE Begins(x) == x = m \/ <<m, x>> \in Extended
           I == {i \in 1 .. Len(q) : Begins(q[i])}
           k == SelectInSeq(q, LAMBDA x : x = m \/ <<m, x>> \in Extended)
<1>1. I \in SUBSET Nat
  BY LenProperties
<1>2. k = IF I = {} THEN 0 ELSE Min(I)
  BY DEF SelectInSeq
<1>3. DeleteUserList(q, m) = IF m = NoName \/ k = 0 THEN q ELSE RemoveAt(q, k)
  BY DEF DeleteUserList, FindString
<1>4. CASE I = {}
  BY <1>2, <1>3, <1>4 DEF Has
<1>5. CASE I # {} /\ m = NoName
  BY <1>3, <1>5, NoNameAssumption
<1>6. CASE I # {} /\ m # NoName
  <2>1. k \in 1 .. Len(q) /\ Begins(q[k])
    BY <1>1, <1>2, <1>6, LeastNatural
  <2>2. DeleteUserList(q, m) = RemoveAt(q, k)
    BY <1>3, <1>6, <2>1
  <2>3. \A n \in Ids : Plain(n) => (q[k] = n <=> m = n)
    BY <2>1 DEF Plain
  <2> HIDE DEF k
  <2> QED
    BY <2>1, <2>2, <2>3, RemovingALine, RemoveAtEntries
<1> QED
  BY <1>4, <1>5, <1>6

-----------------------------------------------------------------------------
(* The window.                                                             *)

(* A plain nick has one line at most, and one exactly when it is signed in. *)
LinesSound ==
    \A n \in Ids : Plain(n) =>
        /\ Once(users, n)
        /\ Has(users, n) <=> Named(n) # {}

WindowSound == users \in Seq(Ids) /\ LinesSound

LEMMA ClosingKeepsWindow ==
    ASSUME TypeOK, NamesUnique, WindowSound, NEW s \in Socks, CloseClient(s),
           users' = DeleteUserList(users, m_UserName[s])
    PROVE  WindowSound'
<1>1. m_UserName[s] \in Nick /\ m_UserName' = [m_UserName EXCEPT ![s] = NoName]
  BY DEF CloseClient, TypeOK
<1>2. ASSUME NEW n \in Ids
      PROVE  Named(n)' # {} <=> Named(n) # {} /\ m_UserName[s] # n
  BY <1>1, NoNameAssumption DEF Named, NamesUnique, TypeOK
<1> QED
  BY <1>1, <1>2, DeletingALine DEF WindowSound, LinesSound

(* The line of a client that is taken over goes before the new one comes.  *)
LEMMA LoginKeepsWindow ==
    ASSUME WellBehaved, TypeOK, NamesUnique, WindowSound,
           NEW s \in Socks, NEW m \in Ids, LoginData(s, m),
           users' = LinesAfterLogin(m)
    PROVE  WindowSound'
<1> DEFINE lines == IF Named(m) = {} THEN users ELSE DeleteUserList(users, m)
<1>1. /\ lines \in Seq(Ids)
      /\ \A n \in Ids : Plain(n) =>
            /\ Once(lines, n)
            /\ Has(lines, n) <=> Named(n) # {} /\ m # n
  BY DeletingALine DEF WindowSound, LinesSound, Nick
<1>2. users' = Append(lines, m)
  BY DEF LinesAfterLogin
<1> HIDE DEF lines
<1>3. m_UserName[s] = NoName
  BY DEF LoginData
<1>4. ASSUME NEW n \in Ids PROVE Named(n)' # {} <=> Named(n) # {} \/ m = n
  BY <1>3, NoNameAssumption DEF LoginData, Named, NamesUnique, TypeOK
<1>5. users' \in Seq(Ids)
  BY <1>1, <1>2, AppendProperties
<1>6. ASSUME NEW n \in Ids, Plain(n)
      PROVE  Once(users', n) /\ (Has(users', n) <=> Named(n) # {} \/ m = n)
  BY <1>1, <1>2, <1>6, AddingALine
<1> QED
  BY <1>4, <1>5, <1>6 DEF WindowSound, LinesSound

LEMMA SameLinesKeepWindow ==
    ASSUME WindowSound, UNCHANGED <<users, m_UserName>>
    PROVE  WindowSound'
BY DEF WindowSound, LinesSound, Named

(* A nick is on one socket, whatever becomes of the statements.            *)
LEMMA NextKeepsUnique ==
    ASSUME TypeOK, NamesUnique, [Next]_vars
    PROVE  NamesUnique'
<1>1. CASE UNCHANGED m_UserName
  BY <1>1 DEF NamesUnique
<1>2. ASSUME NEW s \in Socks, NEW n \in Ids, LoginData(s, n)
      PROVE  NamesUnique'
  BY <1>2, NoNameAssumption DEF LoginData, Named, NamesUnique, TypeOK
<1>3. ASSUME NEW s \in Socks, CloseClient(s) PROVE NamesUnique'
  BY <1>3 DEF CloseClient, NamesUnique, TypeOK
<1>4. CASE Ended
  BY <1>4 DEF Ended, NamesUnique
<1> QED
  BY <1>1, <1>2, <1>3, <1>4
  DEF Next, ServerStep, AcceptClient, RegisterQuery, AddFriend, DeleteFriend,
      LoadFriends, Restart, EndsWithin, vars

LEMMA WindowStepIsStep == [WindowNext]_windowVars => [Next]_vars
BY DEF WindowNext, WindowStep, Next, ServerStep, windowVars

LEMMA NextKeepsWindow ==
    ASSUME WellBehaved, TypeOK, NamesUnique, WindowSound, [WindowNext]_windowVars
    PROVE  WindowSound'
<1>1. ASSUME NEW s \in Socks, WindowStep(s) PROVE WindowSound'
  BY <1>1, ClosingKeepsWindow, LoginKeepsWindow, SameLinesKeepWindow
  DEF WindowStep, AcceptClient, RegisterQuery, AddFriend,
      DeleteFriend, LoadFriends
<1> QED
  BY <1>1, SameLinesKeepWindow DEF WindowNext, windowVars, vars

(* One line, or none, is what UsersShown counts.                           *)
LEMMA SoundWindowShowsUsers ==
    ASSUME NamesUnique, WindowSound
    PROVE  UsersShown
<1> SUFFICES ASSUME NEW n \in Ids, Plain(n)
             PROVE  Cardinality(Lines(n)) = Cardinality(Named(n))
  BY DEF UsersShown, Plain
<1>1. /\ Once(users, n)
      /\ Has(users, n) <=> Named(n) # {}
      /\ DOMAIN users = 1 .. Len(users)
  BY LenProperties DEF WindowSound, LinesSound
<1>2. CASE Named(n) = {}
  BY <1>1, <1>2 DEF Has, Lines
<1>3. CASE Named(n) # {}
  <2>1. PICK t : Named(n) = {t}
    BY <1>3, NoNameAssumption DEF Named, NamesUnique
  <2>2. PICK i : Lines(n) = {i}
    BY <1>1, <1>3 DEF Has, Once, Lines
  <2> QED
    BY <2>1, <2>2, FS_Singleton
<1> QED
  BY <1>2, <1>3

(* LoginData, CloseClient and FindString: whatever the order of logins,    *)
(* takeovers and disconnections, and whichever statements fail, the window *)
(* shows a plain nick once while it is signed in and not otherwise.        *)
THEOREM WindowShowsUsers ==
    ASSUME WellBehaved
    PROVE  WindowSpec => []UsersShown
<1>1. WindowInit => NamesUnique /\ WindowSound
  BY NoNameAssumption
  DEF WindowInit, Init, NamesUnique, WindowSound, LinesSound, Has, Once, Named
<1>2. WindowSpec => Spec
  BY WindowStepIsStep, PTL DEF WindowSpec, WindowInit, Spec
<1>3. TypeOK /\ NamesUnique /\ [WindowNext]_windowVars => NamesUnique'
  BY NextKeepsUnique, WindowStepIsStep
<1>4. TypeOK /\ NamesUnique /\ WindowSound /\ [WindowNext]_windowVars => WindowSound'
  BY NextKeepsWindow
<1>5. NamesUnique /\ WindowSound => UsersShown
  BY SoundWindowShowsUsers
<1> QED
  BY <1>1, <1>2, <1>3, <1>4, <1>5, TablesTyped, PTL DEF WindowSpec
=============================================================================
