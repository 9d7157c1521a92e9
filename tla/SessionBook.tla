----------------------------- MODULE SessionBook -----------------------------
(***************************************************************************)
(* What signing in promises: a session is opened for one account, may be   *)
(* renewed for that account any number of times while it is open, and ends *)
(* once.  What has ended is never opened, renewed or handed on again.      *)
(***************************************************************************)

CONSTANTS Sessions,         \* documents a session can be kept in
          Users, None

VARIABLES owner,            \* the account a session was opened for, None before
          open              \* the sessions that are open

Init ==
    /\ owner = [s \in Sessions |-> None]
    /\ open = {}

SignIn(s, u) ==
    /\ owner[s] = None
    /\ owner' = [owner EXCEPT ![s] = u]
    /\ open' = open \cup {s}

(* By signing out, by time, or because all sessions of its owner are ended. *)
End(T) ==
    /\ T \subseteq open
    /\ open' = open \ T
    /\ UNCHANGED owner

Next ==
    \/ \E s \in Sessions, u \in Users : SignIn(s, u)
    \/ \E T \in SUBSET open : End(T)

Spec == Init /\ [][Next]_<<owner, open>>
=============================================================================
