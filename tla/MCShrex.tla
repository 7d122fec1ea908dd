------------------------------ MODULE MCShrex ------------------------------
(* A bootnode and another peer, both full nodes.                           *)
EXTENDS Shrex
CONSTANTS b, f

\* The second connection of a peer is one both sides dialled.
MCConns == [p \in Peers |-> IF p = f THEN {1, 2} ELSE {1}]
Load(shrex, ofB, ofF, asked, tries, stored) ==
    [shrex |-> shrex, announced |-> [p \in Peers |-> IF p = b THEN ofB ELSE ofF],
     asked |-> asked, tries |-> tries, stored |-> stored]

\* The peers alone; announcements while the store is empty; announcements, of two empty
\* blocks among others, and a request; requests that are tried again.
MCWorkloads == {
    Load(FALSE, 0, 0, {}, 1, {}), Load(TRUE, 0, 1, {}, 1, {}),
    Load(TRUE, 1, 2, {3}, 1, {2}), Load(TRUE, 1, 1, {2, 4}, 2, {2, 3})}
=============================================================================
