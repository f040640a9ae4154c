----------------------------- MODULE Membership -----------------------------
(***************************************************************************)
(* What rooms are to those who use them, without indexes that wrap, lists  *)
(* with repeated entries, keys or bans: who is there, who is inside which  *)
(* room, and who is its host.  ChatRooms implements it (MembershipKept)    *)
(* whenever clients do not enter a room they are in.                       *)
(*                                                                         *)
(* It says of every implementation that nobody is inside who is not        *)
(* present, that whoever leaves the server leaves all rooms in that very   *)
(* step, that a room opens only where there is none, for its host or for a *)
(* pair that has no host, that others come in one at a time, that nobody   *)
(* is put out by what another does, and that a host is succeeded only on   *)
(* leaving, by somebody inside.                                            *)
(***************************************************************************)
CONSTANTS
    Person,
    Place,
    NOBODY

VARIABLES
    present,    \* those who are connected
    inside,     \* those who are in a room, by place
    host        \* the host of a room, by place

vars == <<present, inside, host>>

Init ==
    /\ present = {}
    /\ inside = [p \in Place |-> {}]
    /\ host = [p \in Place |-> NOBODY]

Arrive(x) ==
    /\ x \notin present
    /\ present' = present \cup {x}
    /\ UNCHANGED <<inside, host>>

Open(x, p) ==
    /\ x \in present
    /\ inside[p] = {}
    /\ inside' = [inside EXCEPT ![p] = {x}]
    /\ host' = [host EXCEPT ![p] = x]
    /\ UNCHANGED present

OpenForTwo(x, y, p) ==
    /\ x \in present /\ y \in present /\ x # y
    /\ inside[p] = {}
    /\ inside' = [inside EXCEPT ![p] = {x, y}]
    /\ UNCHANGED <<present, host>>

Join(x, p) ==
    /\ x \in present
    /\ x \notin inside[p]
    /\ inside[p] # {}
    /\ inside' = [inside EXCEPT ![p] = @ \cup {x}]
    /\ UNCHANGED <<present, host>>

(* x is no longer in any place of P, and has a successor where it was host *)
(* and is not the last to go.                                              *)
Vacate(x, P) ==
    /\ inside' = [p \in Place |-> IF p \in P THEN inside[p] \ {x} ELSE inside[p]]
    /\ host' \in [Place -> Person \cup {NOBODY}]
    /\ \A p \in Place :
          IF inside'[p] = {} THEN host'[p] = NOBODY
          ELSE IF p \in P /\ host[p] = x THEN host'[p] \in inside'[p]
          ELSE host'[p] = host[p]

Leave(x, p) ==
    /\ x \in inside[p]
    /\ Vacate(x, {p})
    /\ UNCHANGED present

Depart(x) ==
    /\ x \in present
    /\ Vacate(x, Place)
    /\ present' = present \ {x}

(* The server ends, and everything it held is lost.                        *)
End ==
    /\ present' = {}
    /\ inside' = [p \in Place |-> {}]
    /\ host' = [p \in Place |-> NOBODY]

Next ==
    \/ \E x \in Person : Arrive(x) \/ Depart(x)
    \/ \E x \in Person, p \in Place : Open(x, p) \/ Join(x, p) \/ Leave(x, p)
    \/ \E x, y \in Person, p \in Place : OpenForTwo(x, y, p)
    \/ End

Spec == Init /\ [][Next]_vars
=============================================================================
