---------------------------- MODULE ControlPlane ---------------------------
(***************************************************************************)
(* Requests to the control plane (apps/control-plane/src/app.js) on the    *)
(* stores of AuthService, McpGateway and OrganizationStore, with the start *)
(* of the server (packages/core/src/control-plane.js) and its end at any   *)
(* moment.                                                                 *)
(*                                                                         *)
(* A request with a body is in two stretches: it is authenticated, and     *)
(* authorised as far as the route does that first, then its body is        *)
(* awaited and other requests run, and at last the operation is carried    *)
(* out for the principal of the beginning.  A body that is refused ends    *)
(* the request without an effect.                                          *)
(*                                                                         *)
(* A write of the database may throw (it is locked while `npm run backup`  *)
(* checkpoints it, or the disk is full).  The request is then answered     *)
(* with an error, but the store has already changed its memory.            *)
(*                                                                         *)
(* Of the missions (MissionAuthority) only what they do to conversations   *)
(* is here: a mission is announced in one and reports to it at its end,    *)
(* from a pass and not from a request.                                     *)
(***************************************************************************)
EXTENDS McpGateway, OrganizationStore

CONSTANTS
  Slots,       \* requests in flight at a time
  Idle,        \* no request
  MaxRequests, \* bound: requests ever received
  MaxFailures, \* bound: writes that throw
  MaxCrashes   \* bound: deaths of the process

(* The routes with a body, and what each asks for before it reads it.      *)
Permission ==
  [keys |-> "", entries |-> "registry:write", services |-> "mcp:write", grants |-> "mcp:write",
   records |-> "organization:write", messages |-> "organization:write",
   missions |-> "mission:create"]

Routes == DOMAIN Permission

Request == [key : KeyIds, route : Routes, about : Conversations \cup {Nobody}]

ASSUME RequestAssumption ==
  /\ Idle \notin Request
  /\ {MaxRequests, MaxFailures, MaxCrashes} \subseteq Nat

VARIABLES
  reported, \* conversations of the missions there ever were
  up,       \* the server listens
  requests, \* the requests whose bodies are awaited
  received, \* how many requests were received
  failures, \* how many writes have thrown
  crashes   \* how often the process died

serverVars == <<up, requests, received, failures, crashes>>

vars == <<authVars, registryVars, grantVars, organizationVars, reported, serverVars>>

Awaited(k, route, about) == [key |-> k, route |-> route, about |-> about]

InFlight(k) == {q \in Slots : requests[q] # Idle /\ requests[q].key = k}

Init ==
  /\ AuthInit
  /\ RegistryInit
  /\ OrganizationInit
  /\ reported = {}
  /\ up = FALSE
  /\ requests = [q \in Slots |-> Idle]
  /\ received = 0
  /\ failures = 0
  /\ crashes = 0

-----------------------------------------------------------------------------
(* The first stretch of a request.  That of a message looks up the         *)
(* conversation and its workspace before the body is read.                 *)
Receive(q, k, route, about) ==
  /\ up /\ requests[q] = Idle /\ received < MaxRequests
  /\ Authenticate(k)
  /\ route # "keys" => Permitted(k, Permission[route])
  /\ IF route = "messages"
     THEN about \in Conversations /\ InScope(k, Conversation(about).ws)
     ELSE about = Nobody
  /\ requests' = [requests EXCEPT ![q] = Awaited(k, route, about)]
  /\ received' = received + 1
  /\ UNCHANGED <<registryVars, grantVars, organizationVars, up, failures, crashes, reported>>

(* The last stretch, of a route, with the outcome of its write.            *)
Answer(q, route, ok) ==
  /\ up /\ requests[q] # Idle /\ requests[q].route = route
  /\ ok \/ failures < MaxFailures
  /\ requests' = [requests EXCEPT ![q] = Idle]
  /\ failures' = IF ok THEN failures ELSE failures + 1
  /\ UNCHANGED <<up, received, crashes>>

(* The body is no JSON, too long or never comes, or is refused.            *)
Refuse(q) ==
  /\ up /\ requests[q] # Idle
  /\ requests' = [requests EXCEPT ![q] = Idle]
  /\ UNCHANGED <<authVars, registryVars, grantVars, organizationVars, up, received, failures, crashes, reported>>

PostKey(q, k, ok) ==
  /\ Answer(q, "keys", ok)
  /\ CreateKey(requests[q].key, k, ok)
  /\ UNCHANGED <<registryVars, grantVars, organizationVars, reported>>

PostEntry(q, e, d, ok) ==
  /\ Answer(q, "entries", ok)
  /\ Register(e, d, ok)
  /\ UNCHANGED <<authVars, grantVars, organizationVars, reported>>

PostHub(q, h, d, ok) ==
  /\ Answer(q, "entries", ok)
  /\ SaveHub(h, d, ok)
  /\ UNCHANGED <<authVars, grantVars, organizationVars, reported>>

PostAgency(q, d, document) ==
  /\ Answer(q, "entries", TRUE)
  /\ ImportAgency(d, document)
  /\ UNCHANGED <<authVars, grantVars, organizationVars, reported>>

PostAgencyFails(q, d, imported, e) ==
  /\ Answer(q, "entries", FALSE)
  /\ ImportAgencyFails(d, imported, e)
  /\ UNCHANGED <<authVars, grantVars, organizationVars, reported>>

PostService(q, s, d, ok) ==
  /\ Answer(q, "services", ok)
  /\ RegisterService(s, d, ok)
  /\ UNCHANGED <<authVars, grantVars, organizationVars, reported>>

(* Mutant: the workspace in the body is not authorised.                    *)
PostGrantAnywhere(q, s, ws, tools, ok) ==
  /\ Answer(q, "grants", ok)
  /\ Grant(s, ws, tools, ok)
  /\ UNCHANGED <<authVars, registryVars, organizationVars, reported>>

PostGrant(q, s, ws, tools, ok) ==
  /\ Answer(q, "grants", ok)
  /\ InScope(requests[q].key, ws)
  /\ Grant(s, ws, tools, ok)
  /\ UNCHANGED <<authVars, registryVars, organizationVars, reported>>

PostProject(q, p, ws, ok) ==
  /\ Answer(q, "records", ok)
  /\ InScope(requests[q].key, ws)
  /\ CreateProject(p, ws, ok)
  /\ UNCHANGED <<authVars, registryVars, grantVars, reported>>

PostConversation(q, c, ws, p, ok) ==
  /\ Answer(q, "records", ok)
  /\ InScope(requests[q].key, ws)
  /\ CreateConversation(c, ws, p, ok)
  /\ UNCHANGED <<authVars, registryVars, grantVars, reported>>

PostMessage(q, ok) ==
  /\ Answer(q, "messages", ok)
  /\ AppendMessage(requests[q].about, ok)
  /\ UNCHANGED <<authVars, registryVars, grantVars, reported>>

(* create of a mission of ws: announced in a conversation of ws, if the    *)
(* body names one, and in the default conversation otherwise, whatever ws. *)
(* The mission is there although the write of the message throws.          *)
PostMission(q, ws, c, ok) ==
  /\ Answer(q, "missions", ok)
  /\ InScope(requests[q].key, ws)
  /\ c = DefaultConversation \/ Conversation(c).ws = ws
  /\ AppendMessage(c, ok)
  /\ reported' = reported \cup {c}
  /\ UNCHANGED <<authVars, registryVars, grantVars>>

(* The pass completes a mission and reports to its conversation, on behalf *)
(* of no request.  A mission that a restart forgot reports no more; here   *)
(* it may.                                                                 *)
MissionReports(c, ok) ==
  /\ up /\ c \in reported
  /\ ok \/ failures < MaxFailures
  /\ AppendMessage(c, ok)
  /\ failures' = IF ok THEN failures ELSE failures + 1
  /\ UNCHANGED <<authVars, registryVars, grantVars, reported, up, requests, received, crashes>>

(* DELETE has no body, and so no await.                                    *)
DeleteKey(actor, k, ok) ==
  /\ up /\ received < MaxRequests
  /\ ok \/ failures < MaxFailures
  /\ RevokeKey(actor, k, ok)
  /\ received' = received + 1
  /\ failures' = IF ok THEN failures ELSE failures + 1
  /\ UNCHANGED <<registryVars, grantVars, organizationVars, up, requests, crashes, reported>>

(* The process ends and takes its memory and its requests along.           *)
Crash ==
  /\ up /\ crashes < MaxCrashes
  /\ up' = FALSE
  /\ requests' = [q \in Slots |-> Idle]
  /\ crashes' = crashes + 1
  /\ keys' = keysSaved
  /\ registry' = registrySaved
  /\ grants' = grantsSaved
  /\ organization' = organizationSaved
  /\ UNCHANGED <<keysSaved, issued, revoked, registrySaved, acknowledged, doubtful, narrowed,
                 grantsSaved, organizationSaved, received, failures, reported>>

(* createPersistentServices, up to server.listen.                          *)
Start ==
  /\ ~up
  /\ LoadRegistry(Seeds)
  /\ LoadKeys
  /\ LoadOrganization
  /\ up' = TRUE
  /\ UNCHANGED <<requests, received, failures, crashes, reported>>

(* The same, when the process dies or a write throws on the way.           *)
StartFails(done) ==
  /\ ~up /\ crashes < MaxCrashes
  /\ LoadRegistry(done)
  /\ crashes' = crashes + 1
  /\ UNCHANGED <<authVars, organizationVars, up, requests, received, failures, reported>>

(* The end of a request, whatever its route.                               *)
Post(q, ok) ==
  \/ \E k \in KeyIds : PostKey(q, k, ok)
  \/ \E e \in Entries, d \in Definitions : PostEntry(q, e, d, ok) \/ PostHub(q, e, d, ok)
  \/ \E s \in Services, d \in Definitions : PostService(q, s, d, ok)
  \/ \E s \in Services, ws \in Workspaces, tools \in Definitions : PostGrant(q, s, ws, tools, ok)
  \/ \E p \in Projects, ws \in Workspaces : PostProject(q, p, ws, ok)
  \/ \E c \in Conversations, ws \in Workspaces, p \in Projects \cup {Nobody} :
       PostConversation(q, c, ws, p, ok)
  \/ PostMessage(q, ok)
  \/ \E ws \in Workspaces, c \in Conversations : PostMission(q, ws, c, ok)

Next ==
  \/ \E q \in Slots, k \in KeyIds, route \in Routes, about \in Conversations \cup {Nobody} :
       Receive(q, k, route, about)
  \/ \E q \in Slots : Refuse(q)
  \/ \E q \in Slots, ok \in BOOLEAN : Post(q, ok)
  \/ \E q \in Slots, d \in Definitions, document \in SUBSET Others \ {{}} : PostAgency(q, d, document)
  \/ \E q \in Slots, d \in Definitions, imported \in SUBSET Others :
       \E e \in Others \ imported : PostAgencyFails(q, d, imported, e)
  \/ \E actor, k \in KeyIds, ok \in BOOLEAN : DeleteKey(actor, k, ok)
  \/ \E c \in Conversations, ok \in BOOLEAN : MissionReports(c, ok)
  \/ Crash
  \/ Start
  \/ \E done \in SUBSET Seeds : StartFails(done)

Spec == Init /\ [][Next]_vars

-----------------------------------------------------------------------------
Organization ==
  [projects : [Projects -> Workspaces \cup {Nobody}],
   conversations : [Conversations ->
     [ws : Workspaces \cup {Nobody}, project : Projects \cup {Nobody}, messages : 0 .. MaxMessages]]]

TypeOK ==
  /\ {keys, keysSaved, issued, revoked} \subseteq SUBSET KeyIds
  /\ {registry, registrySaved, acknowledged} \subseteq [Entries -> SUBSET Parts]
  /\ {grants, grantsSaved} \subseteq [Services -> [Workspaces -> SUBSET Parts]]
  /\ doubtful \subseteq Entries /\ narrowed \subseteq Entries
  /\ {organization, organizationSaved} \subseteq Organization
  /\ reported \subseteq Conversations
  /\ up \in BOOLEAN
  /\ requests \in [Slots -> Request \cup {Idle}]
  /\ received \in 0 .. MaxRequests
  /\ failures \in 0 .. MaxFailures
  /\ crashes \in 0 .. MaxCrashes

(* Nobody locks everybody out: whatever keys are issued and revoked, by    *)
(* whom and with what luck on disk, a running server has an administrator, *)
(* and so has the next one (revokeKey, CANNOT_REVOKE_CURRENT_KEY).         *)
AdminRemains ==
  up => \A ks \in {keys, keysSaved} : \E k \in ks : Role[k] = "admin"

(* A revocation answered with success is for ever: no restart, no late     *)
(* write and no bootstrap token brings the key back.                       *)
RevokedStaysRevoked == revoked \cap (keys \cup keysSaved) = {}

(* A revoked key finishes the requests that were waiting for their bodies  *)
(* when it was revoked, and begins no other.                               *)
RevokedOnlyFinishes == [][\A k \in revoked : InFlight(k)' \subseteq InFlight(k)]_vars

(* What a client was told is stored is what the registry and the database  *)
(* hold, through failed writes of other entries and restarts; except for   *)
(* the entries of the catalog, which every start writes anew, and entries  *)
(* with a later change that failed.                                        *)
AcknowledgedKept ==
  up => \A e \in Entries \ (Seeds \cup doubtful) :
          registry[e] = acknowledged[e] /\ registrySaved[e] = acknowledged[e]

(* A grant exceeds what its service declares only after the service was    *)
(* registered again with fewer tools, or with a write that failed: grants  *)
(* and services are saved apart, and no restart may part them.             *)
GrantsDeclared ==
  \A s \in Services \ narrowed, ws \in Workspaces :
    grants[s][ws] \subseteq registry[s] /\ grantsSaved[s][ws] \subseteq registrySaved[s]

(* A conversation and its project are of one workspace, in memory and in   *)
(* the database, whatever was lost or created in between.                  *)
ConversationsAtHome ==
  \A o \in {organization, organizationSaved} : \A c \in Conversations :
    LET conv == o.conversations[c]
    IN  conv.project # Nobody => o.projects[conv.project] = conv.ws

(* What belongs to a workspace.                                            *)
Belongings(ws) ==
  [granted |-> [s \in Services |-> grants[s][ws]],
   projects |-> {p \in Projects : Project(p) = ws},
   conversations |-> {<<c, Conversation(c)>> : c \in {x \in Conversations : Conversation(x).ws = ws}}]

(* One message more in c, and no other change.                             *)
OneMoreMessage(c) ==
  /\ organization' = [organization EXCEPT !.conversations[c].messages = @ + 1]
  /\ grants' = grants

(* While the server runs, what belongs to a workspace is changed only at   *)
(* the end of a request whose key has the workspace in its scope; except   *)
(* for the messages of missions, one at a time, which go to the default    *)
(* conversation although the mission is of another workspace, and come     *)
(* from the pass without a request (create, #completeMission).             *)
ScopedChanges ==
  [][up /\ up' => \A ws \in Workspaces :
       Belongings(ws)' # Belongings(ws) =>
         \/ \E q \in Slots :
              /\ requests[q] # Idle /\ requests'[q] = Idle
              /\ \/ InScope(requests[q].key, ws)
                 \/ requests[q].route = "missions" /\ OneMoreMessage(DefaultConversation)
         \/ \E c \in reported : OneMoreMessage(c)]_vars
=============================================================================
