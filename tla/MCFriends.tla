------------------------------ MODULE MCFriends ------------------------------
(* Instances of Friends for TLC. *)
EXTENDS Friends, TLC

CONSTANTS k1, k2, n1

NoNames == [k \in Keys |-> NoName]
NoPeers == [k \in Keys |-> {}]
NewStore == [schema |-> 1, exists |-> FALSE, names |-> NoNames, shared |-> {}, owners |-> {}]

\* A new server; a router with the old route, beside a friend on record; the same with a friend
\* nobody recorded and no file; a server that has been migrated.
MCStart ==
    LET router == [NoPeers EXCEPT ![k1] = {Ip(1), Lan}]
        both   == [router EXCEPT ![k2] = {Ip(2)}]
        onFile == [NewStore EXCEPT !.exists = TRUE, !.names[k2] = n1, !.shared = {k2}]
    IN  {[peers |-> NoPeers, store |-> NewStore], [peers |-> router, store |-> NewStore],
         [peers |-> both, store |-> onFile],
         [peers |-> both, store |-> NewStore],
         [peers |-> both, store |-> [onFile EXCEPT !.schema = 2, !.owners = {k1}]]}
=============================================================================
