---------------------------- MODULE MappingStore ----------------------------
(***************************************************************************)
(* What the commands promise about the mappings when one command runs at   *)
(* a time: a table indexed by domain and port, which a command changes at  *)
(* one key at most, or clears.  An update may only add a certificate.      *)
(* A store that is Lossy may lose the table as a whole: it may not lose or *)
(* alter part of it.                                                       *)
(***************************************************************************)
CONSTANTS
    StoreKey,  \* the keys: domain and port
    Entry,     \* what a key maps to
    HasCert(_),\* whether an entry has a certificate
    Lost,      \* the table after its loss
    Lossy      \* whether a save may be interrupted

VARIABLE table

\* The next table is over the keys of D and agrees with this one on all those
\* that are in both, except possibly on k.
Over(D, k) ==
    /\ table' \in [D -> Entry]
    /\ \A j \in (D \cap DOMAIN table) \ {k} : table'[j] = table[j]

Insert == \E k \in StoreKey \ DOMAIN table : Over(DOMAIN table \cup {k}, k)

Change ==
    \E k \in DOMAIN table :
        /\ Over(DOMAIN table, k)
        /\ HasCert(table[k]) => HasCert(table'[k])

Remove == \E k \in DOMAIN table : Over(DOMAIN table \ {k}, k)

Clear == table' = [k \in {} |-> Lost]

Lose == Lossy /\ table' = Lost

\* A lost table stays lost: no command reads the file any more.
StoreInit == table = [k \in {} |-> Lost]

StoreNext == table # Lost /\ (Insert \/ Change \/ Remove \/ Clear \/ Lose)

StoreSpec == StoreInit /\ [][StoreNext]_table
=============================================================================
