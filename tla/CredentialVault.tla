--------------------------- MODULE CredentialVault ---------------------------
(***************************************************************************)
(* What the generated credentials of a Site promise: a key, once issued,   *)
(* keeps its value until somebody revokes it, and a revoked key is issued  *)
(* anew.  WordPress's salts sign the sessions of its users and DB_PASSWORD *)
(* is the password of a MariaDB account, so a value that changed by itself *)
(* would log everybody out or lock the site out of its database.           *)
(***************************************************************************)
CONSTANTS
    Keys,
    Values,
    NoValue

VARIABLE vault    \* the value of each key, or NoValue

TypeOK == vault \in [ Keys -> Values \cup { NoValue } ]

Init == vault = [ key \in Keys |-> NoValue ]

\* Keys without a value may get one; no other key changes.
Issue ==
    /\ TypeOK'
    /\ \A key \in Keys : vault[key] # NoValue => vault'[key] = vault[key]

\* Keys may lose their value; no key gets another one.
Revoke ==
    /\ TypeOK'
    /\ \A key \in Keys : vault'[key] \in { vault[key], NoValue }

Next == Issue \/ Revoke

Spec == Init /\ [][Next]_vault
=============================================================================
