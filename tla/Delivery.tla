------------------------------ MODULE Delivery ------------------------------
(***************************************************************************)
(* What a client may rely on when it talks to the server: a pipe, while it *)
(* is open, yields the requests put into it, all of them, unaltered, once  *)
(* and in order.  Wire implements it (RequestsKept) with blocks of bytes,  *)
(* session keys and a limit on requests per block.                         *)
(***************************************************************************)
EXTENDS Sequences

CONSTANTS Client, Request

VARIABLES
    open,       \* the clients whose connection stands
    pipe        \* the requests of a client that are not yet served

Init ==
    /\ open = {}
    /\ pipe = [c \in Client |-> <<>>]

Put(q) == {Append(q, r) : r \in Request}

Serve(q) == IF q = <<>> THEN {} ELSE {Tail(q)}

(* A pipe that is and stays open is left alone, put into or served; the    *)
(* others are empty.                                                       *)
Next ==
    /\ open' \subseteq Client
    /\ DOMAIN pipe' = Client
    /\ \A c \in Client :
          IF c \in open \cap open'
          THEN pipe'[c] \in {pipe[c]} \cup Put(pipe[c]) \cup Serve(pipe[c])
          ELSE pipe'[c] = <<>>

Spec == Init /\ [][Next]_<<open, pipe>>
=============================================================================
