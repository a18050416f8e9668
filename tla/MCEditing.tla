----------------------------- MODULE MCEditing ------------------------------
(* A small instance of Editing: two tabs, one unknown key.                   *)
EXTENDS Editing, TLC

CONSTANTS tab1, tab2, peer1, peer2, key1

MCTabs == {tab1, tab2}
MCPeers == {peer1, peer2}
MCUnknown == {key1}
MCSettings == {0, 1}
(* The first file: bare, or with everything an operator may put there.       *)
Bare == [setting |-> 0, fieldless |-> FALSE, nested |-> FALSE, peers |-> <<>>, extra |-> {}]
Full == [setting |-> 1, fieldless |-> TRUE, nested |-> TRUE, peers |-> <<peer1>>, extra |-> MCUnknown]
MCFirst == {Bare, Full}
Symmetry == Permutations(MCTabs)
=============================================================================
