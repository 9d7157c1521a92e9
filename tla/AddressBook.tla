----------------------------- MODULE AddressBook -----------------------------
(***************************************************************************)
(* What the accounts promise the rest of the system, which finds a buyer   *)
(* by the address of an order: an address belongs to one account at a      *)
(* time, and an account, once there, stays.                                *)
(***************************************************************************)
CONSTANTS Users, Emails, None

VARIABLE address        \* the address of an account, None before it is made

Taken == {address[u] : u \in Users} \ {None}

TypeOK == address \in [Users -> Emails \cup {None}]

Init == address = [u \in Users |-> None]

(* A new account takes an address nobody has. *)
Open(u, e) ==
    /\ address[u] = None
    /\ e \notin Taken
    /\ address' = [address EXCEPT ![u] = e]

(* An account moves to an address nobody has. *)
Move(u, e) ==
    /\ address[u] # None
    /\ e \notin Taken
    /\ address' = [address EXCEPT ![u] = e]

Next == \E u \in Users, e \in Emails : Open(u, e) \/ Move(u, e)

Spec == Init /\ [][Next]_address

(* Nobody shares an address. *)
OneOwner == \A u, v \in Users : address[u] = address[v] /\ address[u] # None => u = v
=============================================================================
