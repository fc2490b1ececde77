------------------------- MODULE OrganizationStore -------------------------
(***************************************************************************)
(* Projects and conversations of workspaces                                *)
(* (packages/organization/src/organization-store.js).  Records are created *)
(* once and never changed or removed; a conversation collects messages.    *)
(* Organizations and teams are created in the same way and nothing refers  *)
(* to them; workspaces are those of the constant.  Missions report to      *)
(* conversations; that is in ControlPlane.                                 *)
(***************************************************************************)
EXTENDS AuthService, Naturals

CONSTANTS
  Projects,            \* ids of projects
  Conversations,       \* ids of conversations
  DefaultWorkspace,    \* the workspace, the project and the conversation
  DefaultProject,      \* that are there from the beginning
  DefaultConversation,
  Nobody,              \* no workspace, no project
  MaxMessages          \* bound: messages of a conversation

ASSUME OrganizationAssumption ==
  /\ Nobody \notin Workspaces \cup Projects \cup Conversations
  /\ DefaultWorkspace \in Workspaces
  /\ DefaultProject \in Projects
  /\ DefaultConversation \in Conversations
  /\ MaxMessages \in Nat

VARIABLES
  organization,     \* the records in memory
  organizationSaved \* the records in the database

organizationVars == <<organization, organizationSaved>>

(* A conversation as it is created.                                        *)
Opened(ws, p) == [ws |-> ws, project |-> p, messages |-> 0]

(* DEFAULT_STATE: what an empty database is read as.                       *)
OrganizationInit ==
  /\ organization =
       [projects |-> [p \in Projects |-> IF p = DefaultProject THEN DefaultWorkspace ELSE Nobody],
        conversations |-> [c \in Conversations |->
          IF c = DefaultConversation THEN Opened(DefaultWorkspace, DefaultProject)
                                     ELSE Opened(Nobody, Nobody)]]
  /\ organizationSaved = organization

Project(p) == organization.projects[p]

Conversation(c) == organization.conversations[c]

Store(new, ok) ==
  /\ organization' = new
  /\ organizationSaved' = Written(ok, new, organizationSaved)

CreateProject(p, ws, ok) ==
  /\ Project(p) = Nobody
  /\ Store([organization EXCEPT !.projects[p] = ws], ok)

(* Mutant: the workspace of the project is not compared.                   *)
CreateConversationAnywhere(c, ws, p, ok) ==
  /\ Conversation(c).ws = Nobody
  /\ p # Nobody => Project(p) # Nobody
  /\ Store([organization EXCEPT !.conversations[c] = Opened(ws, p)], ok)

(* Mutant: the workspace and the project are swapped.                      *)
CreateConversationSwapped(c, ws, p, ok) ==
  /\ Conversation(c).ws = Nobody
  /\ p # Nobody => Project(p) = ws
  /\ Store([organization EXCEPT !.conversations[c] = Opened(p, ws)], ok)

(* create, #validateParent: the project, if any, is of the workspace.      *)
CreateConversation(c, ws, p, ok) ==
  /\ Conversation(c).ws = Nobody
  /\ p # Nobody => Project(p) = ws
  /\ Store([organization EXCEPT !.conversations[c] = Opened(ws, p)], ok)

AppendMessage(c, ok) ==
  /\ Conversation(c).ws # Nobody /\ Conversation(c).messages < MaxMessages
  /\ Store([organization EXCEPT !.conversations[c].messages = @ + 1], ok)

LoadOrganization ==
  /\ organization' = organizationSaved
  /\ UNCHANGED organizationSaved
=============================================================================
