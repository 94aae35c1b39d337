------------------------------ MODULE Directory ------------------------------
(***************************************************************************)
(* What the route table promises to the rest of the router: a directory of *)
(* backends, one entry for each route and address, that names the          *)
(* container behind it.  Registering a container puts its entry in the     *)
(* place of whatever stood at that address of its route; taking a          *)
(* container out takes one of its entries away, if it has any.  Each is    *)
(* one atomic step and no other step changes the directory.                *)
(*                                                                         *)
(* RouteTable implements this specification; Discovery uses it in the      *)
(* place of the table.                                                     *)
(***************************************************************************)

CONSTANTS Containers, Addresses, Keys, RouteOf

VARIABLE entries

Entry == [key: Keys, addr: Addresses, cid: Containers]

EntriesOf(c) == {e \in entries : e.cid = c}

Init == entries = {}

\* Container c is reachable at address a.
Announce(c, a) ==
  entries' = {e \in entries : e.key # RouteOf[c] \/ e.addr # a}
               \cup {[key |-> RouteOf[c], addr |-> a, cid |-> c]}

\* Container c is gone.
Withdraw(c) ==
  IF EntriesOf(c) = {}
  THEN UNCHANGED entries
  ELSE \E e \in EntriesOf(c) : entries' = entries \ {e}

Next ==
  \E c \in Containers :
    \/ \E a \in Addresses : Announce(c, a)
    \/ Withdraw(c)

Spec == Init /\ [][Next]_entries

=============================================================================
