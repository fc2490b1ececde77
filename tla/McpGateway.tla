---------------------------- MODULE McpGateway -----------------------------
(***************************************************************************)
(* The registry (packages/core/src/registry.js), the services that write   *)
(* to it, and the grants of the MCP gateway                                *)
(* (packages/mcp/src/mcp-gateway.js) that refer to it.                     *)
(*                                                                         *)
(* A definition is reduced to the parts it declares: the tools of an MCP   *)
(* service, the roster of a hub, the runtimes of a persona.  None of them  *)
(* may be empty, so the empty set stands for an entry that is not there.   *)
(* A grant is kept per service, runtime and workspace; the runtimes are    *)
(* seeded and never leave, and the model has one.                          *)
(***************************************************************************)
EXTENDS AuthService

CONSTANTS
  Services, \* ids of MCP services
  Others,   \* ids of other entries: hubs, personas
  Parts,    \* what a definition may declare
  Seeds,    \* the entries of initialCatalog
  Catalog   \* and their definitions

Entries == Services \cup Others

Definitions == SUBSET Parts \ {{}}

Absent == {}

ASSUME CatalogAssumption ==
  /\ Services \cap Others = {}
  /\ Seeds \subseteq Entries
  /\ Catalog \in [Seeds -> Definitions]

VARIABLES
  registry,      \* the entries in memory
  registrySaved, \* the entries in the database
  grants,        \* the tools granted, by service and workspace
  grantsSaved,   \* the grants in the database
  acknowledged,  \* history: the last definition a client was told is stored
  doubtful,      \* history: entries with a later change that was answered by an error
  narrowed       \* history: services re-registered with fewer tools, or doubtful once

registryVars == <<registry, registrySaved, acknowledged, doubtful, narrowed>>

grantVars == <<grants, grantsSaved>>

RegistryInit ==
  /\ registry = [e \in Entries |-> Absent]
  /\ registrySaved = registry
  /\ grants = [s \in Services |-> [ws \in Workspaces |-> {}]]
  /\ grantsSaved = grants
  /\ acknowledged = registry
  /\ doubtful = {}
  /\ narrowed = {}

Narrower(e, d) == ~(registry[e] \subseteq d)

(* Mutant: the entry is written and not the snapshot of the registry.      *)
ReplaceUnsaved(e, d, ok) ==
  /\ registry' = [registry EXCEPT ![e] = d]
  /\ UNCHANGED registrySaved
  /\ acknowledged' = IF ok THEN [acknowledged EXCEPT ![e] = d] ELSE acknowledged
  /\ doubtful' = IF ok THEN doubtful \ {e} ELSE doubtful \cup {e}
  /\ narrowed' = IF ok /\ ~Narrower(e, d) THEN narrowed ELSE narrowed \cup {e}

(* replace: memory first, then the whole registry is written.              *)
Replace(e, d, ok) ==
  /\ registry' = [registry EXCEPT ![e] = d]
  /\ registrySaved' = Written(ok, registry', registrySaved)
  /\ acknowledged' = IF ok THEN [acknowledged EXCEPT ![e] = d] ELSE acknowledged
  /\ doubtful' = IF ok THEN doubtful \ {e} ELSE doubtful \cup {e}
  /\ narrowed' = IF ok /\ ~Narrower(e, d) THEN narrowed ELSE narrowed \cup {e}

(* register: the same for an entry that is not there.                      *)
Register(e, d, ok) == registry[e] = Absent /\ Replace(e, d, ok)

(* registerService: a service with tools, new or not; earlier grants stay. *)
RegisterService(s, d, ok) == s \in Services /\ Replace(s, d, ok)

(* saveHub: a hub with a roster, new or not.                               *)
SaveHub(h, d, ok) == h \in Others /\ Replace(h, d, ok)

(* importAgency: every persona of the document in turn, each with a write; *)
(* the first write that throws, for e, ends it.                            *)
ImportAgency(d, document) ==
  /\ registry' = [e \in Entries |-> IF e \in document THEN d ELSE registry[e]]
  /\ registrySaved' = registry'
  /\ acknowledged' = [e \in Entries |-> IF e \in document THEN d ELSE acknowledged[e]]
  /\ doubtful' = doubtful \ document
  /\ UNCHANGED narrowed

ImportAgencyFails(d, imported, e) ==
  /\ registrySaved' = [x \in Entries |->
       IF imported = {} THEN registrySaved[x] ELSE IF x \in imported THEN d ELSE registry[x]]
  /\ registry' = [x \in Entries |-> IF x \in imported \cup {e} THEN d ELSE registry[x]]
  /\ doubtful' = doubtful \cup imported \cup {e}
  /\ UNCHANGED <<acknowledged, narrowed>>

(* Mutant: the tools are not compared with those of the service.           *)
GrantAny(s, ws, tools, ok) ==
  /\ registry[s] # Absent
  /\ tools # {}
  /\ grants' = [grants EXCEPT ![s][ws] = tools]
  /\ grantsSaved' = Written(ok, grants', grantsSaved)

(* grant: tools the service declares now, in place of an earlier grant.    *)
Grant(s, ws, tools, ok) ==
  /\ registry[s] # Absent
  /\ tools # {} /\ tools \subseteq registry[s]
  /\ grants' = [grants EXCEPT ![s][ws] = tools]
  /\ grantsSaved' = Written(ok, grants', grantsSaved)

(* createPersistentServices writes the entries of initialCatalog over the  *)
(* saved registry, one write each, of which those in done succeed.  An     *)
(* empty database gets all of them in one write.                           *)
Seeded(done) ==
  [e \in Entries |-> IF e \in done THEN Catalog[e] ELSE registrySaved[e]]

LoadRegistry(done) ==
  /\ (\A e \in Entries : registrySaved[e] = Absent) => done \in {{}, Seeds}
  /\ registry' = Seeded(done)
  /\ registrySaved' = Seeded(done)
  /\ narrowed' = narrowed \cup {s \in done \cap Services : Narrower(s, Catalog[s])}
  /\ grants' = grantsSaved
  /\ UNCHANGED <<grantsSaved, acknowledged, doubtful>>
=============================================================================
