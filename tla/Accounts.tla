------------------------------ MODULE Accounts ------------------------------
(***************************************************************************)
(* Accounts, workspaces, projects and project API keys of the proxy        *)
(* (proxy/auth.py, proxy/projects.py, proxy/api_keys.py and their handlers *)
(* in proxy/main.py).  A signup commits the user and its workspace in two  *)
(* transactions, so a request may come in between or the signup may die    *)
(* there; whoever finds no workspace makes one.  Handlers run in a thread  *)
(* pool, each query and commit is a step.                                  *)
(*                                                                         *)
(* A person knows one password, so a password hash is the person who chose *)
(* it, and a token is the account it names.  Left out: the rate limit of   *)
(* signup and login (AuthLimiter), the expiry of tokens, which is as good  *)
(* as not using them, and names and times of rows.                         *)
(***************************************************************************)
EXTENDS Naturals, Sequences, FiniteSets

CONSTANTS Thread,       \* request threads
          Client,       \* the people
          Spelling,     \* the ways addresses are typed
          lower,        \* str.lower on them
          JwtSecretSet, \* JWT_SECRET is configured: tokens outlive the process
          MaxProjects,  \* bound: rows of projects
          MaxKeys       \* bound: rows of project_api_keys

ASSUME AccountsAssumption ==
  /\ IsFiniteSet(Thread)
  /\ lower \in [Spelling -> Spelling]
  /\ \A s \in Spelling : lower[lower[s]] = lower[s]
  /\ JwtSecretSet \in BOOLEAN
  /\ MaxProjects \in Nat /\ MaxKeys \in Nat

VARIABLES users,      \* the users table: the row with id u is users[u]
          workspaces, \* the owner of each workspace
          projects,
          keys,       \* project_api_keys
          tokens,     \* the accounts each person has a valid token for
          job         \* what each request thread still has to do

vars == <<users, workspaces, projects, keys, tokens, job>>

User == [email : Spelling, password : Client]
Project == [workspace : Nat, editor : Client]   \* editor: who wrote the row last
Key == [project : Nat, revoked : BOOLEAN, used : BOOLEAN]

Idle == [do |-> "idle"]

Init ==
  /\ users = <<>> /\ workspaces = <<>> /\ projects = <<>> /\ keys = <<>>
  /\ tokens = [c \in Client |-> {}]
  /\ job = [t \in Thread |-> Idle]

Goto(t, j) == job' = [job EXCEPT ![t] = j]

-----------------------------------------------------------------------------
(* Signup and login                                                        *)

\* Both request models lower the case.
Email(s) == lower[s]

Registered(email) == {u \in DOMAIN users : users[u].email = email}

\* create_workspace_for_user, a commit of its own.
AddWorkspace(u) == workspaces' = Append(workspaces, u)

Grant(c, u) == tokens' = [tokens EXCEPT ![c] = @ \cup {u}]

\* The lookup of signup.  A taken address (409) ends it.
LookupEmail(t, c, s) ==
  /\ job[t] = Idle
  /\ Registered(Email(s)) = {}
  /\ Goto(t, [do |-> "insert", client |-> c, email |-> Email(s)])
  /\ UNCHANGED <<users, workspaces, projects, keys, tokens>>

\* Seeded defect: who runs into the unique constraint gets the account that is there.
LostRaceFetches(t) ==
  /\ \E u \in Registered(job[t].email) : Grant(job[t].client, u)
  /\ Goto(t, Idle)

\* The unique constraint raises, and the client gets a 500.
LostRace(t) == Goto(t, Idle) /\ UNCHANGED tokens

\* The hash and the first commit of signup.
InsertUser(t) ==
  /\ job[t].do = "insert"
  /\ \/ /\ Registered(job[t].email) # {}
        /\ LostRace(t)
        /\ UNCHANGED users
     \/ /\ Registered(job[t].email) = {}
        /\ users' = Append(users, [email |-> job[t].email, password |-> job[t].client])
        /\ Goto(t, [do |-> "workspace", client |-> job[t].client, user |-> Len(users) + 1])
        /\ UNCHANGED tokens
  /\ UNCHANGED <<workspaces, projects, keys>>

\* The second commit of signup, and the answer.
InsertWorkspace(t) ==
  /\ job[t].do = "workspace"
  /\ AddWorkspace(job[t].user)
  /\ Grant(job[t].client, job[t].user)
  /\ Goto(t, Idle)
  /\ UNCHANGED <<users, projects, keys>>

\* An unknown address or a wrong password (401) changes nothing.
Login(c, s) ==
  /\ \E u \in Registered(Email(s)) : users[u].password = c /\ Grant(c, u)
  /\ UNCHANGED <<users, workspaces, projects, keys, job>>

-----------------------------------------------------------------------------
(* Projects                                                                *)

\* get_current_user: the request carries a valid token of the account.
SignedIn(c, u) == u \in tokens[c]

WorkspacesOf(u) == {w \in DOMAIN workspaces : workspaces[w] = u}

ProjectsIn(w) == {p \in DOMAIN projects : projects[p].workspace = w}

OwnerOf(p) == workspaces[projects[p].workspace]

ProjectsOf(u) == {p \in DOMAIN projects : OwnerOf(p) = u}

\* Seeded defect: it is enough to have an account.
OwnsAnything(u, p) == p \in DOMAIN projects

\* owned_project: a project that is not there or not one's own is a 404.
Owns(u, p) == p \in DOMAIN projects /\ OwnerOf(p) = u

\* require_project.
MayAct(c, u, p) == SignedIn(c, u) /\ Owns(u, p)

\* Seeded defect: the query joins the projects, and misses a workspace without any.
FoundByJoin(u) == {w \in WorkspacesOf(u) : ProjectsIn(w) # {}}

\* Seeded defect: the query does not ask for the owner.
FoundUnfiltered(u) == DOMAIN workspaces

\* What a handler's query for the workspace of its user may return: some of them, for it
\* has no order.
FoundWorkspaces(u) == WorkspacesOf(u)

\* create_project, its lookup.
LookupWorkspace(t, c, u) ==
  /\ job[t] = Idle /\ SignedIn(c, u)
  /\ \/ /\ FoundWorkspaces(u) = {}
        /\ Goto(t, [do |-> "spare", client |-> c, user |-> u])
     \/ \E w \in FoundWorkspaces(u) :
          Goto(t, [do |-> "project", client |-> c, user |-> u, workspace |-> w])
  /\ UNCHANGED <<users, workspaces, projects, keys, tokens>>

\* No workspace was found: it makes one, in a commit of its own.
InsertSpareWorkspace(t) ==
  /\ job[t].do = "spare"
  /\ AddWorkspace(job[t].user)
  /\ Goto(t, [do |-> "project", client |-> job[t].client, user |-> job[t].user,
              workspace |-> Len(workspaces) + 1])
  /\ UNCHANGED <<users, projects, keys, tokens>>

InsertProject(t) ==
  /\ job[t].do = "project"
  /\ Len(projects) < MaxProjects
  /\ projects' = Append(projects, [workspace |-> job[t].workspace, editor |-> job[t].client])
  /\ Goto(t, Idle)
  /\ UNCHANGED <<users, workspaces, keys, tokens>>

UpdateProject(c, u, p) ==
  /\ MayAct(c, u, p)
  /\ projects' = [projects EXCEPT ![p].editor = c]
  /\ UNCHANGED <<users, workspaces, keys, tokens, job>>

\* list_projects, its lookup.  Without a workspace the list is empty.
BeginList(t, c, u) ==
  /\ job[t] = Idle /\ SignedIn(c, u)
  /\ \E w \in FoundWorkspaces(u) :
       Goto(t, [do |-> "list", client |-> c, user |-> u, workspace |-> w,
                before |-> ProjectsOf(u)])
  /\ UNCHANGED <<users, workspaces, projects, keys, tokens>>

\* Seeded defect: the id of the user where the id of the workspace belongs.
ListedByUser(j) == ProjectsIn(j.user)

Listed(j) == ProjectsIn(j.workspace)

\* Its second query.
ReadList(t) ==
  /\ job[t].do = "list"
  /\ Goto(t, [do |-> "listed", client |-> job[t].client, user |-> job[t].user,
              projects |-> Listed(job[t]), before |-> job[t].before])
  /\ UNCHANGED <<users, workspaces, projects, keys, tokens>>

-----------------------------------------------------------------------------
(* API keys                                                                *)

\* create_api_key.
AddKey(p) == keys' = Append(keys, [project |-> p, revoked |-> FALSE, used |-> FALSE])

CreateKey(c, u, p) ==
  /\ MayAct(c, u, p)
  /\ Len(keys) < MaxKeys
  /\ AddKey(p)
  /\ UNCHANGED <<users, workspaces, projects, tokens, job>>

\* revoke_api_key: a key of another project is a 404.
Revoke(p, k) == keys[k].project = p /\ keys' = [keys EXCEPT ![k].revoked = TRUE]

RevokeKey(c, u, p, k) ==
  /\ MayAct(c, u, p)
  /\ Revoke(p, k)
  /\ UNCHANGED <<users, workspaces, projects, tokens, job>>

\* verify_api_key, its queries: whoever holds key k asks for project p.  A revoked key
\* is a 401.
VerifyKey(t, k, p) ==
  /\ job[t] = Idle
  /\ ~keys[k].revoked
  /\ Goto(t, [do |-> "stamp", key |-> k, project |-> p, row |-> keys[k]])
  /\ UNCHANGED <<users, workspaces, projects, keys, tokens>>

\* Seeded defect: the commit writes the row as it was loaded.
StampedWhole(j) == [keys EXCEPT ![j.key] = [j.row EXCEPT !.used = TRUE]]

\* The commit writes the one column that changed.
Stamped(j) == [keys EXCEPT ![j.key].used = TRUE]

\* require_project_or_api_key: the project of the key must be the one of the request (404).
Opens(j) == j.row.project = j.project

\* The commit of verify_api_key, whose failure is swallowed.
StampKey(t) ==
  LET j == job[t]
  IN  /\ j.do = "stamp"
      /\ keys' = Stamped(j) \/ UNCHANGED keys
      /\ Goto(t, IF Opens(j)
                 THEN [do |-> "serve", key |-> j.key, project |-> j.project]
                 ELSE Idle)
      /\ UNCHANGED <<users, workspaces, projects, tokens>>

\* The answer to a list, and the work of a request with a key.
Finish(t) ==
  /\ job[t].do \in {"listed", "serve"}
  /\ Goto(t, Idle)
  /\ UNCHANGED <<users, workspaces, projects, keys, tokens>>

-----------------------------------------------------------------------------
(* Failures                                                                *)

\* A query or a commit raises; what was committed stays.
Die(t) ==
  /\ job[t] # Idle
  /\ Goto(t, Idle)
  /\ UNCHANGED <<users, workspaces, projects, keys, tokens>>

\* Every request dies, and without a configured secret every token with them.
Restart ==
  /\ job' = [t \in Thread |-> Idle]
  /\ tokens' = IF JwtSecretSet THEN tokens ELSE [c \in Client |-> {}]
  /\ UNCHANGED <<users, workspaces, projects, keys>>

Work(t) ==
  \/ InsertUser(t) \/ InsertWorkspace(t) \/ InsertSpareWorkspace(t) \/ InsertProject(t)
  \/ ReadList(t) \/ StampKey(t) \/ Finish(t)

Next ==
  \/ \E t \in Thread :
       \/ Work(t)
       \/ Die(t)
       \/ \E c \in Client :
            \/ \E s \in Spelling : LookupEmail(t, c, s)
            \/ \E u \in DOMAIN users : LookupWorkspace(t, c, u) \/ BeginList(t, c, u)
       \/ \E k \in DOMAIN keys, p \in DOMAIN projects : VerifyKey(t, k, p)
  \/ \E c \in Client :
       \/ \E s \in Spelling : Login(c, s)
       \/ \E u \in DOMAIN users, p \in DOMAIN projects :
            \/ UpdateProject(c, u, p)
            \/ CreateKey(c, u, p)
            \/ \E k \in DOMAIN keys : RevokeKey(c, u, p, k)
  \/ Restart

Spec == Init /\ [][Next]_vars

-----------------------------------------------------------------------------
(* Properties                                                              *)

InsertJob == [do : {"insert"}, client : Client, email : Spelling]
OwnJob == [do : {"workspace", "spare"}, client : Client, user : Nat]
ProjectJob == [do : {"project"}, client : Client, user : Nat, workspace : Nat]
ListJob == [do : {"list"}, client : Client, user : Nat, workspace : Nat,
            before : SUBSET Nat]
ListedJob == [do : {"listed"}, client : Client, user : Nat, projects : SUBSET Nat,
              before : SUBSET Nat]
StampJob == [do : {"stamp"}, key : Nat, project : Nat, row : Key]
ServeJob == [do : {"serve"}, key : Nat, project : Nat]

Job == {Idle} \cup InsertJob \cup OwnJob \cup ProjectJob \cup ListJob \cup ListedJob
         \cup StampJob \cup ServeJob

TypeOK ==
  /\ users \in Seq(User)
  /\ workspaces \in Seq(Nat)
  /\ projects \in Seq(Project)
  /\ keys \in Seq(Key)
  /\ tokens \in [Client -> SUBSET Nat]
  /\ job \in [Thread -> Job]

\* One address, one account, one person: however signups of one address interleave and
\* whichever way it is typed, there is one account for it, and whoever holds a token
\* for an account chose its password.
AccountsSeparate ==
  /\ \A u, v \in DOMAIN users : lower[users[u].email] = lower[users[v].email] => u = v
  /\ \A c \in Client : \A u \in tokens[c] : u \in DOMAIN users /\ users[u].password = c

\* "A request for Project A must never return Project B data" (proxy/projects.py): what
\* a person lists or has written belongs to an account of theirs, although the projects
\* of an account may lie in several workspaces, and what a key serves is its project.
PersonOf(p) == users[OwnerOf(p)].password

ProjectsIsolated ==
  /\ \A p \in DOMAIN projects : projects[p].editor = PersonOf(p)
  /\ \A t \in Thread :
       /\ job[t].do = "listed" => \A p \in job[t].projects : PersonOf(p) = job[t].client
       /\ job[t].do = "serve" => keys[job[t].key].project = job[t].project

\* A user may end up with more than one workspace: who logs in between the commits of a
\* signup, or creates two projects at once after a signup that died, makes another.
\* But there are never more than request threads, whatever dies and however often.
WorkspacesBounded ==
  \A u \in DOMAIN users : Cardinality(WorkspacesOf(u)) <= Cardinality(Thread)

\* A list is that of one workspace of the user, and whole: every project that was in it
\* when the list began, whatever is added meanwhile, and none of another one, even of the
\* several a user may end up with.  With one workspace it shows all there was.
ListComplete ==
  \A t \in Thread :
    job[t].do = "listed" =>
      \E w \in WorkspacesOf(job[t].user) :
        /\ \A p \in job[t].before : projects[p].workspace = w => p \in job[t].projects
        /\ job[t].projects \subseteq ProjectsIn(w)

\* Once a key is revoked it stays so, and only the requests that had read its row before
\* go on with it: none brings it back by what it writes, and none is admitted later.
Uses(j, k) == j.do \in {"stamp", "serve"} /\ j.key = k

RevocationHolds ==
  [][\A k \in DOMAIN keys :
       keys[k].revoked =>
         /\ k \in DOMAIN keys' /\ keys'[k].revoked
         /\ \A t \in Thread : Uses(job'[t], k) => Uses(job[t], k)]_vars

\* Seen from outside the handlers are the abstract registry: every commit is one of its steps
\* or changes nothing there.  So an account, a project and a key belong to whom they belonged
\* from the first, whichever workspace a project was put in, whatever overtakes a request
\* between its commits, dies half-way, or is written back by the stamp of a key.
Promised == INSTANCE AccountRegistry
              WITH Address <- {lower[s] : s \in Spelling}, Forgetful <- ~JwtSecretSet,
                   accounts <- users, signedIn <- tokens,
                   owned <- [p \in DOMAIN projects |-> [owner  |-> OwnerOf(p),
                                                        editor |-> projects[p].editor]],
                   passes <- [k \in DOMAIN keys |-> [project |-> keys[k].project,
                                                     revoked |-> keys[k].revoked]]

ImplementsRegistry == Promised!Spec
=============================================================================
