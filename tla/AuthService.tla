---------------------------- MODULE AuthService ----------------------------
(***************************************************************************)
(* API keys (packages/core/src/auth-service.js): what a key may do, how it *)
(* is issued and revoked, and how the list of keys is kept in memory and   *)
(* in its namespace of the database.                                       *)
(*                                                                         *)
(* The role and the workspaces of a key never change, so they are          *)
(* functions of its id, and a token is as good as the id of its key.  The  *)
(* actions are composed with the rest of the server in ControlPlane.       *)
(***************************************************************************)
EXTENDS FiniteSets

CONSTANTS
  KeyIds,     \* ids of keys that may come to exist
  Bootstrap,  \* the key made from the bootstrap token
  Role,       \* the role of each key
  Scope,      \* the workspaces of each key; those of "*" are all of them
  Workspaces

ASSUME AuthAssumption ==
  /\ Bootstrap \in KeyIds
  /\ Role \in [KeyIds -> {"viewer", "operator", "admin"}]
  /\ Role[Bootstrap] = "admin"
  /\ Scope \in [KeyIds -> SUBSET Workspaces]

VARIABLES
  keys,      \* the keys in memory
  keysSaved, \* the keys in the database
  issued,    \* history: every key there ever was
  revoked    \* history: keys whose revocation was answered with success

authVars == <<keys, keysSaved, issued, revoked>>

(* A write of a namespace replaces it, or throws and leaves it.            *)
Written(ok, memory, saved) == IF ok THEN memory ELSE saved

(* ROLE_PERMISSIONS, those that change something.                          *)
RolePermissions(role) ==
  IF role = "operator"
  THEN {"context:write", "organization:write", "vault:write", "memory:write", "mission:create"}
  ELSE {}

(* authorize: an administrator may do everything.                          *)
Permitted(k, permission) == Role[k] = "admin" \/ permission \in RolePermissions(Role[k])

(* authorizeWorkspace.                                                     *)
InScope(k, ws) == ws \in Scope[k]

AuthInit ==
  /\ keys = {}
  /\ keysSaved = {}
  /\ issued = {}
  /\ revoked = {}

(* Mutant: the bootstrap key is restored whenever it is missing.           *)
LoadKeysWithBootstrap ==
  /\ keys' = keysSaved \cup {Bootstrap}
  /\ keysSaved' = keys'
  /\ issued' = issued \cup keys'
  /\ UNCHANGED revoked

(* The constructor: the saved keys, or the bootstrap key if there are      *)
(* none.  If its write throws, the process does not start.                 *)
LoadKeys ==
  /\ keys' = IF keysSaved = {} THEN {Bootstrap} ELSE keysSaved
  /\ keysSaved' = keys'
  /\ issued' = issued \cup keys'
  /\ UNCHANGED revoked

(* Mutant: a token is checked against every key that was ever issued.      *)
AuthenticateIssued(k) ==
  /\ k \in issued
  /\ keysSaved' = keys
  /\ UNCHANGED <<keys, issued, revoked>>

(* authenticateHeader: the time of use is written, and with it every       *)
(* change of the keys that an earlier write did not save.                  *)
Authenticate(k) ==
  /\ k \in keys
  /\ keysSaved' = keys
  /\ UNCHANGED <<keys, issued, revoked>>

(* createKey: ids are fresh.                                               *)
CreateKey(actor, k, ok) ==
  /\ Permitted(actor, "api-key:write")
  /\ k \notin issued
  /\ keys' = keys \cup {k}
  /\ keysSaved' = Written(ok, keys', keysSaved)
  /\ issued' = issued \cup {k}
  /\ UNCHANGED revoked

(* Mutant: a key may revoke itself.                                        *)
RevokeAnyKey(actor, k, ok) ==
  /\ actor \in keys
  /\ Permitted(actor, "api-key:write")
  /\ k \in keys
  /\ keys' = keys \ {k}
  /\ keysSaved' = Written(ok, keys', keys)
  /\ revoked' = IF ok THEN revoked \cup {k} ELSE revoked
  /\ UNCHANGED issued

(* DELETE of a key: nothing is awaited between authenticateHeader and      *)
(* revokeKey.  No key revokes itself.                                      *)
RevokeKey(actor, k, ok) ==
  /\ actor \in keys
  /\ Permitted(actor, "api-key:write")
  /\ k \in keys \ {actor}
  /\ keys' = keys \ {k}
  /\ keysSaved' = Written(ok, keys', keys)
  /\ revoked' = IF ok THEN revoked \cup {k} ELSE revoked
  /\ UNCHANGED issued
=============================================================================
