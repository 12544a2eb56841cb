-------------------------- MODULE Accounts_proofs --------------------------
(***************************************************************************)
(* What holds of accounts, workspaces, projects and keys for any number of *)
(* people, request threads and spellings of an address, whatever dies.     *)
(***************************************************************************)
EXTENDS Accounts, TLAPS, FiniteSetTheorems

-----------------------------------------------------------------------------
(* Tables and jobs                                                         *)

LEMMA Appended ==
  ASSUME NEW S, NEW table \in Seq(S), NEW row \in S
  PROVE  /\ Append(table, row) \in Seq(S)
         /\ DOMAIN Append(table, row) = DOMAIN table \cup {Len(table) + 1}
         /\ Len(table) + 1 \notin DOMAIN table /\ Len(table) + 1 \in Nat
         /\ \A i \in DOMAIN table : Append(table, row)[i] = table[i]
         /\ Append(table, row)[Len(table) + 1] = row
  OBVIOUS

LEMMA Updated ==
  ASSUME NEW S, NEW table \in Seq(S), NEW i \in DOMAIN table, NEW row \in S
  PROVE  /\ [table EXCEPT ![i] = row] \in Seq(S)
         /\ DOMAIN [table EXCEPT ![i] = row] = DOMAIN table
         /\ [table EXCEPT ![i] = row][i] = row
         /\ \A k \in DOMAIN table : k # i => [table EXCEPT ![i] = row][k] = table[k]
  OBVIOUS

LEMMA JobKinds ==
  ASSUME NEW j \in Job
  PROVE  /\ j.do = "idle" => j = Idle
         /\ j.do = "insert" => j \in InsertJob
         /\ j.do \in {"workspace", "spare"} => j \in OwnJob
         /\ j.do = "project" => j \in ProjectJob
         /\ j.do = "list" => j \in ListJob
         /\ j.do = "listed" => j \in ListedJob
         /\ j.do = "stamp" => j \in StampJob
         /\ j.do = "serve" => j \in ServeJob
         /\ j.do \in {"idle", "insert", "workspace", "spare", "project", "list", "listed",
                      "stamp", "serve"}
  BY DEF Job, Idle, InsertJob, OwnJob, ProjectJob, ListJob, ListedJob, StampJob, ServeJob

LEMMA IdleJob == Idle \in Job /\ Idle.do = "idle"
  BY DEF Job, Idle

\* A thread that goes on to a job of its kind keeps the threads well typed.
LEMMA GotoType ==
  ASSUME TypeOK, NEW t \in Thread, NEW j \in Job, Goto(t, j)
  PROVE  /\ job' \in [Thread -> Job]
         /\ job'[t] = j
         /\ \A s \in Thread : s # t => job'[s] = job[s]
  BY DEF TypeOK, Goto

\* The commit that stamps a key changes nothing else of it; a stamp on a row that is
\* not there writes nothing.
LEMMA StampedKeys ==
  ASSUME TypeOK, NEW t \in Thread, StampKey(t)
  PROVE  /\ keys' \in Seq(Key) /\ DOMAIN keys' = DOMAIN keys
         /\ \A k \in DOMAIN keys : /\ keys'[k].project = keys[k].project
                                   /\ keys'[k].revoked = keys[k].revoked
<1> DEFINE n == job[t].key
           row == [keys[n] EXCEPT !.used = TRUE]
<1>1. CASE keys' = Stamped(job[t]) /\ n \in DOMAIN keys
  <2>1. row \in Key /\ row.project = keys[n].project /\ row.revoked = keys[n].revoked
    <3>1. keys[n] \in Key
      BY <1>1 DEF TypeOK
    <3> QED BY <3>1 DEF Key
  <2>2. keys' = [keys EXCEPT ![n] = row]
    BY <1>1 DEF Stamped
  <2> HIDE DEF row
  <2> QED BY <1>1, <2>1, <2>2, Updated DEF TypeOK
<1>2. CASE n \notin DOMAIN keys \/ UNCHANGED keys
  BY <1>2 DEF StampKey, Stamped, TypeOK, Opens
<1> QED BY <1>1, <1>2 DEF StampKey, Opens

-----------------------------------------------------------------------------
(* Type correctness                                                        *)

LEMMA DomainsAreNat ==
  ASSUME TypeOK
  PROVE  /\ DOMAIN users \subseteq Nat /\ DOMAIN workspaces \subseteq Nat
         /\ DOMAIN projects \subseteq Nat /\ DOMAIN keys \subseteq Nat
         /\ Len(users) + 1 \in Nat /\ Len(workspaces) + 1 \in Nat
  BY DEF TypeOK

LEMMA TypePreserved == TypeOK /\ [Next]_vars => TypeOK'
<1> SUFFICES ASSUME TypeOK, [Next]_vars PROVE TypeOK'
  OBVIOUS
<1> USE AccountsAssumption
<1>d. /\ DOMAIN users \subseteq Nat /\ DOMAIN workspaces \subseteq Nat
      /\ DOMAIN projects \subseteq Nat /\ DOMAIN keys \subseteq Nat
      /\ Len(users) + 1 \in Nat /\ Len(workspaces) + 1 \in Nat
  BY DomainsAreNat
<1>1. ASSUME NEW t \in Thread, NEW c \in Client, NEW s \in Spelling, LookupEmail(t, c, s)
      PROVE  TypeOK'
  <2>1. [do |-> "insert", client |-> c, email |-> Email(s)] \in Job
    BY DEF Job, InsertJob, Email
  <2> QED BY <1>1, <2>1, GotoType DEF TypeOK, LookupEmail
<1>2. ASSUME NEW t \in Thread, InsertUser(t) PROVE TypeOK'
  <2>0. job[t] \in InsertJob
    BY <1>2, JobKinds DEF TypeOK, InsertUser
  <2>1. CASE LostRace(t) /\ UNCHANGED users
    BY <1>2, <2>1, IdleJob, GotoType DEF TypeOK, InsertUser, LostRace
  <2>2. CASE ~(LostRace(t) /\ UNCHANGED users)
    <3> DEFINE row == [email |-> job[t].email, password |-> job[t].client]
               j == [do |-> "workspace", client |-> job[t].client, user |-> Len(users) + 1]
    <3>1. users' = Append(users, row) /\ Goto(t, j) /\ UNCHANGED tokens
      BY <1>2, <2>2 DEF InsertUser
    <3>2. row \in User
      BY <2>0 DEF User, InsertJob
    <3>3. j \in Job
      BY <2>0, <1>d DEF Job, OwnJob, InsertJob
    <3> HIDE DEF row, j
    <3>4. users' \in Seq(User)
      BY <3>1, <3>2, Appended DEF TypeOK
    <3> QED BY <1>2, <3>1, <3>3, <3>4, GotoType DEF TypeOK, InsertUser
  <2> QED BY <2>1, <2>2
<1>3. ASSUME NEW t \in Thread, InsertWorkspace(t) PROVE TypeOK'
  <2>0. job[t] \in OwnJob
    BY <1>3, JobKinds DEF TypeOK, InsertWorkspace, AddWorkspace
  <2>1. workspaces' \in Seq(Nat)
    BY <1>3, <2>0, Appended DEF TypeOK, InsertWorkspace, OwnJob, AddWorkspace
  <2>2. tokens' \in [Client -> SUBSET Nat]
    BY <1>3, <2>0 DEF TypeOK, InsertWorkspace, OwnJob, Grant, AddWorkspace
  <2> QED BY <1>3, <2>1, <2>2, IdleJob, GotoType DEF TypeOK, InsertWorkspace, AddWorkspace
<1>4. ASSUME NEW t \in Thread, InsertSpareWorkspace(t) PROVE TypeOK'
  <2>0. job[t] \in OwnJob
    BY <1>4, JobKinds DEF TypeOK, InsertSpareWorkspace, AddWorkspace
  <2>1. workspaces' \in Seq(Nat)
    BY <1>4, <2>0, Appended DEF TypeOK, InsertSpareWorkspace, OwnJob, AddWorkspace
  <2> DEFINE j == [do |-> "project", client |-> job[t].client, user |-> job[t].user,
                   workspace |-> Len(workspaces) + 1]
  <2>2. j \in Job
    BY <2>0, <1>d DEF Job, ProjectJob, OwnJob
  <2>3. Goto(t, j)
    BY <1>4 DEF InsertSpareWorkspace, AddWorkspace
  <2> HIDE DEF j
  <2> QED BY <1>4, <2>1, <2>2, <2>3, GotoType DEF TypeOK, InsertSpareWorkspace, AddWorkspace
<1>5. ASSUME NEW t \in Thread, InsertProject(t) PROVE TypeOK'
  <2>0. job[t] \in ProjectJob
    BY <1>5, JobKinds DEF TypeOK, InsertProject
  <2> DEFINE row == [workspace |-> job[t].workspace, editor |-> job[t].client]
  <2>1. row \in Project
    BY <2>0 DEF Project, ProjectJob
  <2>2. projects' = Append(projects, row)
    BY <1>5 DEF InsertProject
  <2> HIDE DEF row
  <2>3. projects' \in Seq(Project)
    BY <2>1, <2>2, Appended DEF TypeOK
  <2> QED BY <1>5, <2>3, IdleJob, GotoType DEF TypeOK, InsertProject
<1>6. ASSUME NEW t \in Thread, ReadList(t) PROVE TypeOK'
  <2>0. job[t] \in ListJob
    BY <1>6, JobKinds DEF TypeOK, ReadList
  <2> DEFINE j == [do |-> "listed", client |-> job[t].client, user |-> job[t].user,
                   projects |-> Listed(job[t]), before |-> job[t].before]
  <2>1. j \in Job
    BY <2>0, <1>d DEF Job, ListedJob, ListJob, Listed, ProjectsIn
  <2>2. Goto(t, j)
    BY <1>6 DEF ReadList
  <2> HIDE DEF j
  <2> QED BY <1>6, <2>1, <2>2, GotoType DEF TypeOK, ReadList
<1>7. ASSUME NEW t \in Thread, StampKey(t) PROVE TypeOK'
  <2>0. job[t] \in StampJob
    BY <1>7, JobKinds DEF TypeOK, StampKey, Opens
  <2>1. keys' \in Seq(Key)
    BY <1>7, StampedKeys
  <2> DEFINE j == [do |-> "serve", key |-> job[t].key, project |-> job[t].project]
  <2>2. j \in Job
    BY <2>0 DEF Job, ServeJob, StampJob
  <2>3. Goto(t, j) \/ Goto(t, Idle)
    BY <1>7 DEF StampKey, Opens
  <2> HIDE DEF j
  <2>4. job' \in [Thread -> Job]
    BY <2>2, <2>3, IdleJob, GotoType
  <2> QED BY <1>7, <2>1, <2>4 DEF TypeOK, StampKey, Opens
<1>8. ASSUME NEW t \in Thread, Finish(t) \/ Die(t) PROVE TypeOK'
  BY <1>8, IdleJob, GotoType DEF TypeOK, Finish, Die
<1>9. ASSUME NEW t \in Thread, NEW c \in Client, NEW u \in DOMAIN users, LookupWorkspace(t, c, u)
      PROVE  TypeOK'
  <2>1. [do |-> "spare", client |-> c, user |-> u] \in Job
    BY <1>d DEF Job, OwnJob
  <2>2. ASSUME NEW w \in FoundWorkspaces(u)
        PROVE  [do |-> "project", client |-> c, user |-> u, workspace |-> w] \in Job
    BY <1>d, <2>2 DEF Job, ProjectJob, FoundWorkspaces, WorkspacesOf
  <2>3. job' \in [Thread -> Job]
    BY <1>9, <2>1, <2>2, GotoType DEF LookupWorkspace, SignedIn
  <2> QED BY <1>9, <2>3 DEF TypeOK, LookupWorkspace, SignedIn
<1>10. ASSUME NEW t \in Thread, NEW c \in Client, NEW u \in DOMAIN users, BeginList(t, c, u)
       PROVE  TypeOK'
  <2>1. ASSUME NEW w \in FoundWorkspaces(u)
        PROVE  [do |-> "list", client |-> c, user |-> u, workspace |-> w,
                before |-> ProjectsOf(u)] \in Job
    BY <1>d, <2>1 DEF Job, ListJob, FoundWorkspaces, WorkspacesOf, ProjectsOf
  <2>2. job' \in [Thread -> Job]
    BY <1>10, <2>1, GotoType DEF BeginList, SignedIn
  <2> QED BY <1>10, <2>2 DEF TypeOK, BeginList, SignedIn
<1>11. ASSUME NEW t \in Thread, NEW k \in DOMAIN keys, NEW p \in DOMAIN projects, VerifyKey(t, k, p)
       PROVE  TypeOK'
  <2> DEFINE j == [do |-> "stamp", key |-> k, project |-> p, row |-> keys[k]]
  <2>1. j \in Job
    BY <1>d DEF Job, StampJob, TypeOK
  <2>2. Goto(t, j)
    BY <1>11 DEF VerifyKey
  <2> HIDE DEF j
  <2> QED BY <1>11, <2>1, <2>2, GotoType DEF TypeOK, VerifyKey
<1>12. ASSUME NEW c \in Client, NEW s \in Spelling, Login(c, s) PROVE TypeOK'
  BY <1>12, <1>d DEF TypeOK, Login, Grant, Registered
<1>13. ASSUME NEW c \in Client, NEW u \in DOMAIN users, NEW p \in DOMAIN projects,
              UpdateProject(c, u, p)
       PROVE  TypeOK'
  <2> DEFINE row == [projects[p] EXCEPT !.editor = c]
  <2>3. projects[p] \in Project
    BY DEF TypeOK
  <2>0. row \in Project
    BY <2>3 DEF Project
  <2>2. projects' = [projects EXCEPT ![p] = row]
    BY <1>13 DEF UpdateProject, MayAct, SignedIn
  <2> HIDE DEF row
  <2>1. projects' \in Seq(Project)
    BY <2>0, <2>2, Updated DEF TypeOK
  <2> QED BY <1>13, <2>1 DEF TypeOK, UpdateProject, MayAct, SignedIn
<1>14. ASSUME NEW c \in Client, NEW u \in DOMAIN users, NEW p \in DOMAIN projects,
              CreateKey(c, u, p)
       PROVE  TypeOK'
  <2> DEFINE row == [project |-> p, revoked |-> FALSE, used |-> FALSE]
  <2>1. row \in Key
    BY <1>d DEF Key
  <2>2. keys' = Append(keys, row)
    BY <1>14 DEF CreateKey, MayAct, SignedIn, AddKey
  <2> HIDE DEF row
  <2>3. keys' \in Seq(Key)
    BY <2>1, <2>2, Appended DEF TypeOK
  <2> QED BY <1>14, <2>3 DEF TypeOK, CreateKey, MayAct, SignedIn, AddKey
<1>15. ASSUME NEW c \in Client, NEW u \in DOMAIN users, NEW p \in DOMAIN projects,
              NEW k \in DOMAIN keys, RevokeKey(c, u, p, k)
       PROVE  TypeOK'
  <2> DEFINE row == [keys[k] EXCEPT !.revoked = TRUE]
  <2>3. keys[k] \in Key
    BY DEF TypeOK
  <2>0. row \in Key
    BY <2>3 DEF Key
  <2>2. keys' = [keys EXCEPT ![k] = row]
    BY <1>15 DEF RevokeKey, MayAct, SignedIn, Revoke
  <2> HIDE DEF row
  <2>1. keys' \in Seq(Key)
    BY <2>0, <2>2, Updated DEF TypeOK
  <2> QED BY <1>15, <2>1 DEF TypeOK, RevokeKey, MayAct, SignedIn, Revoke
<1>16. CASE Restart
  BY <1>16, IdleJob DEF TypeOK, Restart
<1>17. CASE UNCHANGED vars
  BY <1>17 DEF TypeOK, vars
<1> QED
  BY <1>1, <1>2, <1>3, <1>4, <1>5, <1>6, <1>7, <1>8, <1>9, <1>10, <1>11, <1>12, <1>13,
     <1>14, <1>15, <1>16, <1>17 DEF Next, Work

\* The tables, the tokens and the threads always hold what they may hold.
THEOREM TypeCorrect == Spec => []TypeOK
<1>1. Init => TypeOK
  BY IdleJob DEF Init, TypeOK
<1> QED BY <1>1, TypePreserved, PTL DEF Spec

-----------------------------------------------------------------------------
(* What the rows and the threads know                                      *)

\* Addresses are stored in lower case and once, workspaces have an owner, projects lie
\* in a workspace and were last written by its owner, tokens are the person's own.
UserRows ==
  /\ \A u \in DOMAIN users : lower[users[u].email] = users[u].email
  /\ \A u, v \in DOMAIN users : users[u].email = users[v].email => u = v

Owners == \A w \in DOMAIN workspaces : workspaces[w] \in DOMAIN users

Homes == \A p \in DOMAIN projects : projects[p].workspace \in DOMAIN workspaces

Editors == \A p \in DOMAIN projects : projects[p].editor = PersonOf(p)

Tokens ==
  \A c \in Client : \A u \in tokens[c] : u \in DOMAIN users /\ users[u].password = c

Rows == UserRows /\ Owners /\ Homes /\ Editors /\ Tokens

\* What a request thread carries from one step to the next is still so.
OwnProjects(ps, u) == \A p \in ps : p \in DOMAIN projects /\ OwnerOf(p) = u

CompleteFor(w, before, ps) ==
  /\ \A p \in before : projects[p].workspace = w => p \in ps
  /\ ps \subseteq ProjectsIn(w)

JobOK(j) ==
  /\ j.do = "insert" => lower[j.email] = j.email
  /\ j.do \in {"workspace", "spare", "project", "list", "listed"} =>
       j.user \in DOMAIN users /\ users[j.user].password = j.client
  /\ j.do \in {"project", "list"} =>
       j.workspace \in DOMAIN workspaces /\ workspaces[j.workspace] = j.user
  /\ j.do \in {"list", "listed"} => OwnProjects(j.before, j.user)
  /\ j.do = "listed" =>
       /\ OwnProjects(j.projects, j.user)
       /\ \E w \in WorkspacesOf(j.user) : CompleteFor(w, j.before, j.projects)
  /\ j.do = "stamp" => j.key \in DOMAIN keys /\ keys[j.key].project = j.row.project
  /\ j.do = "serve" => j.key \in DOMAIN keys /\ keys[j.key].project = j.project

JobsOK == \A t \in Thread : JobOK(job[t])

\* Rows are only ever added, and keep what they belong to.
Grown ==
  /\ \A u \in DOMAIN users : u \in DOMAIN users' /\ users'[u] = users[u]
  /\ \A w \in DOMAIN workspaces : w \in DOMAIN workspaces' /\ workspaces'[w] = workspaces[w]
  /\ \A p \in DOMAIN projects :
       p \in DOMAIN projects' /\ projects'[p].workspace = projects[p].workspace
  /\ \A k \in DOMAIN keys : k \in DOMAIN keys' /\ keys'[k].project = keys[k].project

LEMMA TablesGrow ==
  ASSUME TypeOK, [Next]_vars
  PROVE  Grown
<1>1. ASSUME NEW t \in Thread, InsertUser(t) PROVE Grown
  <2>1. CASE UNCHANGED users
    BY <1>1, <2>1 DEF InsertUser, Grown
  <2>2. CASE ~UNCHANGED users
    <3>1. users' = Append(users, [email |-> job[t].email, password |-> job[t].client])
      BY <1>1, <2>2 DEF InsertUser
    <3>2. [email |-> job[t].email, password |-> job[t].client] \in User
      BY <1>1, JobKinds DEF TypeOK, InsertUser, InsertJob, User
    <3>3. \A u \in DOMAIN users : u \in DOMAIN users' /\ users'[u] = users[u]
      BY <3>1, <3>2, Appended DEF TypeOK
    <3> QED BY <1>1, <3>3 DEF InsertUser, Grown
  <2> QED BY <2>1, <2>2
<1>2. ASSUME NEW t \in Thread, InsertWorkspace(t) \/ InsertSpareWorkspace(t) PROVE Grown
  <2>1. job[t].user \in Nat /\ workspaces' = Append(workspaces, job[t].user)
    BY <1>2, JobKinds DEF TypeOK, InsertWorkspace, InsertSpareWorkspace, OwnJob, AddWorkspace
  <2>2. \A w \in DOMAIN workspaces : w \in DOMAIN workspaces' /\ workspaces'[w] = workspaces[w]
    BY <2>1, Appended DEF TypeOK
  <2> QED BY <1>2, <2>2 DEF InsertWorkspace, InsertSpareWorkspace, Grown, AddWorkspace
<1>3. ASSUME NEW t \in Thread, InsertProject(t) PROVE Grown
  <2> DEFINE row == [workspace |-> job[t].workspace, editor |-> job[t].client]
  <2>1. row \in Project
    BY <1>3, JobKinds DEF TypeOK, InsertProject, ProjectJob, Project
  <2>2. projects' = Append(projects, row)
    BY <1>3 DEF InsertProject
  <2> HIDE DEF row
  <2>3. \A p \in DOMAIN projects : p \in DOMAIN projects' /\ projects'[p] = projects[p]
    BY <2>1, <2>2, Appended DEF TypeOK
  <2> QED BY <1>3, <2>3 DEF InsertProject, Grown
<1>4. ASSUME NEW t \in Thread, StampKey(t) PROVE Grown
  BY <1>4, StampedKeys DEF StampKey, Grown, Opens
<1>5. ASSUME NEW c \in Client, NEW u \in DOMAIN users, NEW p \in DOMAIN projects,
             UpdateProject(c, u, p)
      PROVE  Grown
  <2>1. projects[p] \in Project
    BY DEF TypeOK
  <2>2. [projects[p] EXCEPT !.editor = c].workspace = projects[p].workspace
    BY <2>1 DEF Project
  <2>3. projects' = [projects EXCEPT ![p] = [projects[p] EXCEPT !.editor = c]]
    BY <1>5 DEF UpdateProject, MayAct, SignedIn
  <2>4. \A q \in DOMAIN projects :
          q \in DOMAIN projects' /\ projects'[q].workspace = projects[q].workspace
    BY <2>2, <2>3 DEF TypeOK
  <2> QED BY <1>5, <2>4 DEF UpdateProject, Grown, MayAct, SignedIn
<1>6. ASSUME NEW c \in Client, NEW u \in DOMAIN users, NEW p \in DOMAIN projects,
             CreateKey(c, u, p)
      PROVE  Grown
  <2> DEFINE row == [project |-> p, revoked |-> FALSE, used |-> FALSE]
  <2>1. row \in Key
    BY DomainsAreNat DEF Key
  <2>2. keys' = Append(keys, row)
    BY <1>6 DEF CreateKey, MayAct, SignedIn, AddKey
  <2> HIDE DEF row
  <2>3. \A k \in DOMAIN keys : k \in DOMAIN keys' /\ keys'[k] = keys[k]
    BY <2>1, <2>2, Appended DEF TypeOK
  <2> QED BY <1>6, <2>3 DEF CreateKey, Grown, MayAct, SignedIn, AddKey
<1>7. ASSUME NEW c \in Client, NEW u \in DOMAIN users, NEW p \in DOMAIN projects,
             NEW k \in DOMAIN keys, RevokeKey(c, u, p, k)
      PROVE  Grown
  <2>1. keys[k] \in Key
    BY DEF TypeOK
  <2>2. [keys[k] EXCEPT !.revoked = TRUE].project = keys[k].project
    BY <2>1 DEF Key
  <2>3. keys' = [keys EXCEPT ![k] = [keys[k] EXCEPT !.revoked = TRUE]]
    BY <1>7 DEF RevokeKey, MayAct, SignedIn, Revoke
  <2>4. \A n \in DOMAIN keys : n \in DOMAIN keys' /\ keys'[n].project = keys[n].project
    BY <2>2, <2>3 DEF TypeOK
  <2> QED BY <1>7, <2>4 DEF RevokeKey, Grown, MayAct, SignedIn, Revoke
<1>8. CASE UNCHANGED <<users, workspaces, projects, keys>>
  BY <1>8 DEF Grown
<1> QED
  BY <1>1, <1>2, <1>3, <1>4, <1>5, <1>6, <1>7, <1>8
  DEF Next, Work, vars, LookupEmail, ReadList, Finish, Die, LookupWorkspace, BeginList,
      VerifyKey, Login, Restart, SignedIn

\* What a thread knows stays so while tables grow.
LEMMA OwnProjectsStay ==
  ASSUME Homes, Grown, NEW ps, NEW u, OwnProjects(ps, u)
  PROVE  OwnProjects(ps, u)'
  BY DEF Homes, Grown, OwnProjects, OwnerOf

LEMMA JobStays ==
  ASSUME Homes, Grown, NEW j \in Job, JobOK(j)
  PROVE  JobOK(j)'
<1>1. j.do \in {"workspace", "spare", "project", "list", "listed"} =>
        j.user \in DOMAIN users' /\ users'[j.user].password = j.client
  BY DEF JobOK, Grown
<1>2. j.do \in {"project", "list"} =>
        j.workspace \in DOMAIN workspaces' /\ workspaces'[j.workspace] = j.user
  BY DEF JobOK, Grown
<1>3. j.do \in {"list", "listed"} => OwnProjects(j.before, j.user)'
  BY OwnProjectsStay DEF JobOK
<1>4. ASSUME j.do = "listed"
      PROVE  /\ OwnProjects(j.projects, j.user)'
             /\ \E w \in WorkspacesOf(j.user)' : CompleteFor(w, j.before, j.projects)'
  <2>1. OwnProjects(j.projects, j.user)'
    BY <1>4, OwnProjectsStay DEF JobOK
  <2>2. PICK w \in WorkspacesOf(j.user) : CompleteFor(w, j.before, j.projects)
    BY <1>4 DEF JobOK
  <2>3. w \in WorkspacesOf(j.user)'
    BY DEF WorkspacesOf, Grown
  <2>4. OwnProjects(j.before, j.user)
    BY <1>4 DEF JobOK
  <2>5. CompleteFor(w, j.before, j.projects)'
    BY <2>2, <2>4 DEF CompleteFor, OwnProjects, Grown, ProjectsIn
  <2> QED BY <2>1, <2>3, <2>5
<1>5. /\ j.do = "stamp" => j.key \in DOMAIN keys' /\ keys'[j.key].project = j.row.project
      /\ j.do = "serve" => j.key \in DOMAIN keys' /\ keys'[j.key].project = j.project
  BY DEF JobOK, Grown
<1> QED BY <1>1, <1>2, <1>3, <1>4, <1>5 DEF JobOK

-----------------------------------------------------------------------------
(* Every step keeps the rows                                               *)

LEMMA UserRowsKept ==
  ASSUME TypeOK, UserRows, JobsOK, [Next]_vars
  PROVE  UserRows'
<1>1. ASSUME NEW t \in Thread, InsertUser(t), ~UNCHANGED users PROVE UserRows'
  <2> DEFINE row == [email |-> job[t].email, password |-> job[t].client]
  <2>1. users' = Append(users, row) /\ Registered(row.email) = {}
    BY <1>1 DEF InsertUser
  <2>2. row \in User
    BY <1>1, JobKinds DEF TypeOK, InsertUser, InsertJob, User
  <2>3. lower[row.email] = row.email
    BY <1>1 DEF JobsOK, JobOK, InsertUser
  <2> HIDE DEF row
  <2>4. \A u \in DOMAIN users : users[u].email # row.email
    BY <2>1 DEF Registered
  <2>5. /\ DOMAIN users' = DOMAIN users \cup {Len(users) + 1}
        /\ \A u \in DOMAIN users : users'[u] = users[u]
        /\ users'[Len(users) + 1] = row
    BY <2>1, <2>2, Appended DEF TypeOK
  <2> QED BY <2>3, <2>4, <2>5 DEF UserRows
<1>2. CASE UNCHANGED users
  BY <1>2 DEF UserRows
<1> QED
  BY <1>1, <1>2
  DEF Next, Work, vars, InsertWorkspace, InsertSpareWorkspace, InsertProject, StampKey,
      UpdateProject, CreateKey, RevokeKey, LookupEmail, ReadList, Finish, Die,
      LookupWorkspace, BeginList, VerifyKey, Login, Restart, AddWorkspace, Opens, MayAct,
      SignedIn, AddKey, Revoke

LEMMA OwnersKept ==
  ASSUME TypeOK, Owners, JobsOK, [Next]_vars
  PROVE  Owners'
<1>0. Grown
  BY TablesGrow
<1>1. ASSUME NEW t \in Thread, InsertWorkspace(t) \/ InsertSpareWorkspace(t) PROVE Owners'
  <2>1. job[t].user \in Nat /\ workspaces' = Append(workspaces, job[t].user)
    BY <1>1, JobKinds DEF TypeOK, InsertWorkspace, InsertSpareWorkspace, OwnJob, AddWorkspace
  <2>2. job[t].user \in DOMAIN users
    BY <1>1 DEF JobsOK, JobOK, InsertWorkspace, InsertSpareWorkspace, AddWorkspace
  <2>3. /\ DOMAIN workspaces' = DOMAIN workspaces \cup {Len(workspaces) + 1}
        /\ \A w \in DOMAIN workspaces : workspaces'[w] = workspaces[w]
        /\ workspaces'[Len(workspaces) + 1] = job[t].user
    BY <2>1, Appended DEF TypeOK
  <2> QED BY <1>0, <2>2, <2>3 DEF Owners, Grown
<1>2. CASE UNCHANGED workspaces
  BY <1>0, <1>2 DEF Owners, Grown
<1> QED
  BY <1>1, <1>2
  DEF Next, Work, vars, InsertUser, InsertProject, StampKey,
      UpdateProject, CreateKey, RevokeKey, LookupEmail, ReadList, Finish, Die,
      LookupWorkspace, BeginList, VerifyKey, Login, Restart, Opens, MayAct, SignedIn, AddKey, Revoke

\* The owner of a project stays the same person.
LEMMA PersonStays ==
  ASSUME Owners, Homes, Grown, NEW p \in DOMAIN projects
  PROVE  PersonOf(p)' = PersonOf(p) /\ OwnerOf(p)' = OwnerOf(p)
  BY DEF Owners, Homes, Grown, PersonOf, OwnerOf

LEMMA ProjectRowsKept ==
  ASSUME TypeOK, Rows, JobsOK, [Next]_vars
  PROVE  Homes' /\ Editors'
<1>0. Grown
  BY TablesGrow
<1>1. ASSUME NEW t \in Thread, InsertProject(t) PROVE Homes' /\ Editors'
  <2> DEFINE row == [workspace |-> job[t].workspace, editor |-> job[t].client]
             n == Len(projects) + 1
  <2>1. row \in Project
    BY <1>1, JobKinds DEF TypeOK, InsertProject, ProjectJob, Project
  <2>2. projects' = Append(projects, row) /\ UNCHANGED <<users, workspaces>>
    BY <1>1 DEF InsertProject
  <2>3. /\ row.workspace \in DOMAIN workspaces
        /\ users[workspaces[row.workspace]].password = row.editor
    BY <1>1 DEF JobsOK, JobOK, InsertProject
  <2> HIDE DEF row
  <2>4. /\ DOMAIN projects' = DOMAIN projects \cup {n}
        /\ \A p \in DOMAIN projects : projects'[p] = projects[p]
        /\ projects'[n] = row
    BY <2>1, <2>2, Appended DEF TypeOK
  <2>5. Homes'
    BY <2>2, <2>3, <2>4 DEF Rows, Homes
  <2>6. Editors'
    BY <2>2, <2>3, <2>4 DEF Rows, Editors, PersonOf, OwnerOf
  <2> QED BY <2>5, <2>6
<1>2. ASSUME NEW c \in Client, NEW u \in DOMAIN users, NEW p \in DOMAIN projects,
             UpdateProject(c, u, p)
      PROVE  Homes' /\ Editors'
  <2>1. projects[p] \in Project
    BY DEF TypeOK
  <2>2. [projects[p] EXCEPT !.editor = c].editor = c
    BY <2>1 DEF Project
  <2>3. projects' = [projects EXCEPT ![p] = [projects[p] EXCEPT !.editor = c]]
    BY <1>2 DEF UpdateProject, MayAct, SignedIn
  <2>4. /\ DOMAIN projects' = DOMAIN projects /\ projects'[p].editor = c
        /\ \A q \in DOMAIN projects \ {p} : projects'[q] = projects[q]
    BY <2>2, <2>3 DEF TypeOK
  <2>5. PersonOf(p) = c
    BY <1>2 DEF UpdateProject, Owns, Rows, Tokens, PersonOf, MayAct, SignedIn
  <2>6. Homes'
    BY <1>0, <2>4 DEF Rows, Homes, Grown
  <2>7. Editors'
    BY <1>0, <2>4, <2>5, PersonStays DEF Rows, Editors
  <2> QED BY <2>6, <2>7
<1>3. CASE UNCHANGED projects
  <2>1. Homes'
    BY <1>0, <1>3 DEF Rows, Homes, Grown
  <2>2. Editors'
    BY <1>0, <1>3, PersonStays DEF Rows, Editors
  <2> QED BY <2>1, <2>2
<1> QED
  BY <1>1, <1>2, <1>3
  DEF Next, Work, vars, InsertUser, InsertWorkspace, InsertSpareWorkspace, StampKey,
      CreateKey, RevokeKey, LookupEmail, ReadList, Finish, Die,
      LookupWorkspace, BeginList, VerifyKey, Login, Restart, AddWorkspace, Opens, MayAct,
      SignedIn, AddKey, Revoke

LEMMA TokensKept ==
  ASSUME TypeOK, Tokens, JobsOK, [Next]_vars
  PROVE  Tokens'
<1>0. Grown
  BY TablesGrow
<1>1. ASSUME NEW c \in Client, NEW u \in DOMAIN users, users[u].password = c, Grant(c, u)
      PROVE  Tokens'
  <2>1. /\ tokens'[c] = tokens[c] \cup {u}
        /\ \A d \in Client \ {c} : tokens'[d] = tokens[d]
    BY <1>1 DEF TypeOK, Grant
  <2> QED BY <1>0, <1>1, <2>1 DEF Tokens, Grown
<1>2. ASSUME NEW t \in Thread, InsertWorkspace(t) PROVE Tokens'
  <2>1. /\ job[t].user \in DOMAIN users /\ users[job[t].user].password = job[t].client
        /\ job[t].client \in Client
    BY <1>2, JobKinds DEF TypeOK, JobsOK, JobOK, InsertWorkspace, OwnJob, AddWorkspace
  <2> QED BY <1>1, <1>2, <2>1 DEF InsertWorkspace, AddWorkspace
<1>3. ASSUME NEW c \in Client, NEW s \in Spelling, Login(c, s) PROVE Tokens'
  BY <1>1, <1>3 DEF Login, Registered
<1>4. CASE Restart
  BY <1>0, <1>4 DEF Restart, Tokens, Grown
<1>5. CASE UNCHANGED tokens
  BY <1>0, <1>5 DEF Tokens, Grown
<1> QED
  BY <1>2, <1>3, <1>4, <1>5
  DEF Next, Work, vars, InsertUser, LostRace, InsertSpareWorkspace, InsertProject, StampKey,
      UpdateProject, CreateKey, RevokeKey, LookupEmail, ReadList, Finish, Die,
      LookupWorkspace, BeginList, VerifyKey, AddWorkspace, Opens, MayAct, SignedIn, AddKey, Revoke

LEMMA RowsKept == TypeOK /\ Rows /\ JobsOK /\ [Next]_vars => Rows'
  BY UserRowsKept, OwnersKept, ProjectRowsKept, TokensKept DEF Rows

-----------------------------------------------------------------------------
(* Every step keeps what the threads know                                  *)

LEMMA GotoKnown ==
  ASSUME TypeOK, Homes, Grown, JobsOK,
         NEW t \in Thread, NEW j \in Job, Goto(t, j), JobOK(j)'
  PROVE  JobsOK'
<1>1. ASSUME NEW s \in Thread PROVE JobOK(job[s])'
  <2>1. PICK k \in Job : k = job'[s] /\ (k = j \/ k = job[s])
    BY GotoType
  <2>2. JobOK(k)'
    BY <2>1, JobStays DEF TypeOK, JobsOK
  <2> QED BY <2>1, <2>2 DEF JobOK
<1> QED BY <1>1 DEF JobsOK

LEMMA IdleKnows == JobOK(Idle)'
  BY DEF JobOK, Idle

LEMMA JobsOKKept == TypeOK /\ Rows /\ JobsOK /\ [Next]_vars => JobsOK'
<1> SUFFICES ASSUME TypeOK, Rows, JobsOK, [Next]_vars PROVE JobsOK'
  OBVIOUS
<1>0. Homes /\ Owners /\ Grown
  BY TablesGrow DEF Rows
<1>d. /\ DOMAIN users \subseteq Nat /\ DOMAIN workspaces \subseteq Nat
      /\ DOMAIN projects \subseteq Nat /\ DOMAIN keys \subseteq Nat
      /\ Len(users) + 1 \in Nat /\ Len(workspaces) + 1 \in Nat
  BY DomainsAreNat
<1>i. ASSUME NEW t \in Thread, Goto(t, Idle) PROVE JobsOK'
  BY <1>0, <1>i, IdleJob, IdleKnows, GotoKnown
<1>1. ASSUME NEW t \in Thread, NEW c \in Client, NEW s \in Spelling, LookupEmail(t, c, s)
      PROVE  JobsOK'
  <2>1. PICK j \in InsertJob : Goto(t, j) /\ j.email = lower[s]
    BY <1>1, AccountsAssumption DEF LookupEmail, Email, InsertJob
  <2>2. j \in Job /\ JobOK(j)'
    BY <2>1, AccountsAssumption DEF Job, InsertJob, JobOK
  <2> QED BY <1>0, <2>1, <2>2, GotoKnown
<1>2. ASSUME NEW t \in Thread, InsertUser(t) PROVE JobsOK'
  <2>1. CASE Goto(t, Idle)
    BY <1>i, <2>1
  <2>2. CASE ~Goto(t, Idle)
    <3>0. job[t] \in InsertJob
      BY <1>2, JobKinds DEF TypeOK, InsertUser
    <3> DEFINE row == [email |-> job[t].email, password |-> job[t].client]
    <3>1. users' = Append(users, row)
      BY <1>2, <2>2 DEF InsertUser, LostRace
    <3>2. row \in User /\ row.password = job[t].client
      BY <3>0 DEF User, InsertJob
    <3> HIDE DEF row
    <3>3. /\ Len(users) + 1 \in DOMAIN users'
          /\ users'[Len(users) + 1].password = job[t].client
      BY <3>1, <3>2, Appended DEF TypeOK
    <3>4. PICK j \in OwnJob : /\ Goto(t, j) /\ j.do = "workspace"
                              /\ j.user = Len(users) + 1 /\ j.client = job[t].client
      BY <1>2, <1>d, <2>2, <3>0 DEF InsertUser, LostRace, OwnJob, InsertJob
    <3>5. j \in Job /\ JobOK(j)'
      BY <3>3, <3>4 DEF Job, JobOK
    <3> QED BY <1>0, <3>4, <3>5, GotoKnown
  <2> QED BY <2>1, <2>2
<1>3. ASSUME NEW t \in Thread,
             InsertWorkspace(t) \/ InsertProject(t) \/ Finish(t) \/ Die(t)
      PROVE  JobsOK'
  BY <1>i, <1>3 DEF InsertWorkspace, InsertProject, Finish, Die, AddWorkspace
<1>4. ASSUME NEW t \in Thread, InsertSpareWorkspace(t) PROVE JobsOK'
  <2>0. job[t] \in OwnJob
    BY <1>4, JobKinds DEF TypeOK, InsertSpareWorkspace, AddWorkspace
  <2>1. workspaces' = Append(workspaces, job[t].user) /\ job[t].user \in Nat
    BY <1>4, <2>0 DEF InsertSpareWorkspace, OwnJob, AddWorkspace
  <2>2. /\ Len(workspaces) + 1 \in DOMAIN workspaces'
        /\ workspaces'[Len(workspaces) + 1] = job[t].user
    BY <2>1, Appended DEF TypeOK
  <2>3. job[t].user \in DOMAIN users /\ users[job[t].user].password = job[t].client
    BY <1>4 DEF JobsOK, JobOK, InsertSpareWorkspace, AddWorkspace
  <2>4. PICK j \in ProjectJob : /\ Goto(t, j) /\ j.user = job[t].user
                                /\ j.client = job[t].client
                                /\ j.workspace = Len(workspaces) + 1
    BY <1>4, <1>d, <2>0 DEF InsertSpareWorkspace, ProjectJob, OwnJob, AddWorkspace
  <2>5. users' = users
    BY <1>4 DEF InsertSpareWorkspace, AddWorkspace
  <2>6. j \in Job /\ JobOK(j)'
    BY <2>2, <2>3, <2>4, <2>5 DEF Job, ProjectJob, JobOK
  <2> QED BY <1>0, <2>4, <2>6, GotoKnown
<1>5. ASSUME NEW t \in Thread, ReadList(t) PROVE JobsOK'
  <2>0. job[t] \in ListJob
    BY <1>5, JobKinds DEF TypeOK, ReadList
  <2>1. /\ job[t].user \in DOMAIN users /\ users[job[t].user].password = job[t].client
        /\ job[t].workspace \in DOMAIN workspaces
        /\ workspaces[job[t].workspace] = job[t].user
        /\ OwnProjects(job[t].before, job[t].user)
    BY <1>5 DEF JobsOK, JobOK, ReadList
  <2>2. UNCHANGED <<users, workspaces, projects>>
    BY <1>5 DEF ReadList
  <2>3. PICK j \in ListedJob : /\ Goto(t, j) /\ j.user = job[t].user
                               /\ j.client = job[t].client /\ j.before = job[t].before
                               /\ j.projects = ProjectsIn(job[t].workspace)
    <3>1. ProjectsIn(job[t].workspace) \in SUBSET Nat
      BY <1>d DEF ProjectsIn
    <3> QED BY <1>5, <2>0, <3>1 DEF ReadList, ListedJob, ListJob, Listed
  <2>4. PICK w \in DOMAIN workspaces : w = job[t].workspace
    BY <2>1
  <2>5. OwnProjects(j.before, j.user)' /\ OwnProjects(j.projects, j.user)'
    BY <2>1, <2>2, <2>3 DEF OwnProjects, OwnerOf, ProjectsIn
  <2>6. w \in WorkspacesOf(j.user)' /\ CompleteFor(w, j.before, j.projects)'
    BY <2>1, <2>2, <2>3, <2>4 DEF WorkspacesOf, CompleteFor, OwnProjects, ProjectsIn
  <2>7. j \in Job /\ JobOK(j)'
    BY <2>1, <2>2, <2>3, <2>5, <2>6 DEF Job, ListedJob, JobOK
  <2> QED BY <1>0, <2>3, <2>7, GotoKnown
<1>6. ASSUME NEW t \in Thread, StampKey(t) PROVE JobsOK'
  <2>1. CASE Goto(t, Idle)
    BY <1>i, <2>1
  <2>2. CASE ~Goto(t, Idle)
    <3>0. job[t] \in StampJob
      BY <1>6, JobKinds DEF TypeOK, StampKey, Opens
    <3>1. PICK j \in ServeJob : /\ Goto(t, j) /\ j.key = job[t].key
                                /\ j.project = job[t].row.project
      BY <1>6, <2>2, <3>0 DEF StampKey, ServeJob, StampJob, Opens
    <3>2. job[t].key \in DOMAIN keys /\ keys[job[t].key].project = job[t].row.project
      BY <1>6 DEF JobsOK, JobOK, StampKey, Opens
    <3>3. j \in Job /\ JobOK(j)'
      BY <1>0, <3>1, <3>2 DEF Job, ServeJob, JobOK, Grown
    <3> QED BY <1>0, <3>1, <3>3, GotoKnown
  <2> QED BY <2>1, <2>2
<1>7. ASSUME NEW t \in Thread, NEW c \in Client, NEW u \in DOMAIN users, LookupWorkspace(t, c, u)
      PROVE  JobsOK'
  <2>1. users[u].password = c
    BY <1>7 DEF Rows, Tokens, LookupWorkspace, SignedIn
  <2>2. UNCHANGED <<users, workspaces>>
    BY <1>7 DEF LookupWorkspace, SignedIn
  <2>3. CASE Goto(t, [do |-> "spare", client |-> c, user |-> u])
    <3>1. PICK j \in OwnJob : Goto(t, j) /\ j.do = "spare" /\ j.client = c /\ j.user = u
      BY <1>d, <2>3 DEF OwnJob
    <3>2. j \in Job /\ JobOK(j)'
      BY <2>1, <2>2, <3>1 DEF Job, JobOK
    <3> QED BY <1>0, <3>1, <3>2, GotoKnown
  <2>4. ASSUME NEW w \in FoundWorkspaces(u),
               Goto(t, [do |-> "project", client |-> c, user |-> u, workspace |-> w])
        PROVE  JobsOK'
    <3>0. w \in DOMAIN workspaces /\ workspaces[w] = u
      BY <2>4 DEF FoundWorkspaces, WorkspacesOf
    <3>1. PICK j \in ProjectJob : /\ Goto(t, j) /\ j.client = c /\ j.user = u
                                  /\ j.workspace = w
      BY <1>d, <2>4, <3>0 DEF ProjectJob
    <3>2. j \in Job /\ JobOK(j)'
      BY <2>1, <2>2, <3>0, <3>1 DEF Job, ProjectJob, JobOK
    <3> QED BY <1>0, <3>1, <3>2, GotoKnown
  <2> QED BY <1>7, <2>3, <2>4 DEF LookupWorkspace, SignedIn
<1>8. ASSUME NEW t \in Thread, NEW c \in Client, NEW u \in DOMAIN users, BeginList(t, c, u)
      PROVE  JobsOK'
  <2>1. users[u].password = c
    BY <1>8 DEF Rows, Tokens, BeginList, SignedIn
  <2>2. UNCHANGED <<users, workspaces, projects>>
    BY <1>8 DEF BeginList, SignedIn
  <2>3. PICK w \in FoundWorkspaces(u) :
          Goto(t, [do |-> "list", client |-> c, user |-> u, workspace |-> w,
                   before |-> ProjectsOf(u)])
    BY <1>8 DEF BeginList, SignedIn
  <2>4. w \in DOMAIN workspaces /\ workspaces[w] = u
    BY <2>3 DEF FoundWorkspaces, WorkspacesOf
  <2>5. ProjectsOf(u) \in SUBSET Nat
    BY <1>d DEF ProjectsOf
  <2>6. PICK j \in ListJob : /\ Goto(t, j) /\ j.client = c /\ j.user = u
                             /\ j.workspace = w /\ j.before = ProjectsOf(u)
    BY <1>d, <2>3, <2>4, <2>5 DEF ListJob
  <2>7. OwnProjects(j.before, j.user)'
    BY <2>2, <2>6 DEF OwnProjects, OwnerOf, ProjectsOf
  <2>8. j \in Job /\ JobOK(j)'
    BY <2>1, <2>2, <2>4, <2>6, <2>7 DEF Job, ListJob, JobOK
  <2> QED BY <1>0, <2>6, <2>8, GotoKnown
<1>9. ASSUME NEW t \in Thread, NEW k \in DOMAIN keys, NEW p \in DOMAIN projects, VerifyKey(t, k, p)
      PROVE  JobsOK'
  <2>0. keys[k] \in Key
    BY DEF TypeOK
  <2>1. PICK j \in StampJob : Goto(t, j) /\ j.key = k /\ j.row = keys[k]
    BY <1>9, <1>d, <2>0 DEF VerifyKey, StampJob
  <2>2. j \in Job /\ JobOK(j)'
    BY <1>9, <2>1 DEF Job, StampJob, JobOK, VerifyKey
  <2> QED BY <1>0, <2>1, <2>2, GotoKnown
<1>10. CASE Restart
  BY <1>10, IdleKnows DEF Restart, JobsOK, JobOK, Idle
<1>11. CASE UNCHANGED job
  <2>1. ASSUME NEW s \in Thread PROVE JobOK(job[s])'
    <3>1. PICK k \in Job : k = job'[s] /\ k = job[s]
      BY <1>11 DEF TypeOK
    <3>2. JobOK(k)'
      BY <1>0, <3>1, JobStays DEF JobsOK
    <3> QED BY <3>1, <3>2 DEF JobOK
  <2> QED BY <2>1 DEF JobsOK
<1> QED
  BY <1>1, <1>2, <1>3, <1>4, <1>5, <1>6, <1>7, <1>8, <1>9, <1>10, <1>11
  DEF Next, Work, vars, Login, UpdateProject, CreateKey, RevokeKey, MayAct, SignedIn, AddKey, Revoke

THEOREM ThreadsKnow == Spec => [](TypeOK /\ Rows /\ JobsOK)
<1>1. Init => TypeOK /\ Rows /\ JobsOK
  BY IdleJob DEF Init, TypeOK, Rows, UserRows, Owners, Homes, Editors, Tokens, JobsOK, JobOK,
                 Idle
<1>2. TypeOK /\ Rows /\ JobsOK /\ [Next]_vars => (TypeOK /\ Rows /\ JobsOK)'
  BY TypePreserved, RowsKept, JobsOKKept
<1> QED BY <1>1, <1>2, PTL DEF Spec

-----------------------------------------------------------------------------
(* What follows from it                                                    *)

\* What a step may make a thread do next.
LEMMA NewJobs ==
  ASSUME TypeOK, [Next]_vars, NEW s \in Thread
  PROVE  \/ job'[s] = job[s]
         \/ job'[s] = Idle
         \/ job'[s].do \in {"insert", "project", "list", "listed"}
         \/ job'[s].do = "workspace" /\ job'[s].user = Len(users) + 1
         \/ job'[s].do = "spare" /\ WorkspacesOf(job'[s].user) = {}
         \/ job'[s].do = "stamp" /\ ~keys[job'[s].key].revoked
         \/ /\ job'[s].do = "serve" /\ job[s].do = "stamp"
            /\ job'[s].key = job[s].key
<1> DEFINE G == \/ job'[s] = job[s]
                \/ job'[s] = Idle
                \/ job'[s].do \in {"insert", "project", "list", "listed"}
                \/ job'[s].do = "workspace" /\ job'[s].user = Len(users) + 1
                \/ job'[s].do = "spare" /\ WorkspacesOf(job'[s].user) = {}
                \/ job'[s].do = "stamp" /\ ~keys[job'[s].key].revoked
                \/ /\ job'[s].do = "serve" /\ job[s].do = "stamp"
                   /\ job'[s].key = job[s].key
<1>g. ASSUME NEW t \in Thread, NEW j, Goto(t, j)
      PROVE  job'[s] = job[s] \/ (s = t /\ job'[s] = j)
  BY <1>g DEF TypeOK, Goto
<1>i. ASSUME NEW t \in Thread, Goto(t, Idle) PROVE G
  BY <1>g, <1>i
<1>1. ASSUME NEW t \in Thread,
             InsertWorkspace(t) \/ InsertProject(t) \/ Finish(t) \/ Die(t)
      PROVE  G
  BY <1>i, <1>1 DEF InsertWorkspace, InsertProject, Finish, Die, AddWorkspace
<1>2. ASSUME NEW t \in Thread, InsertUser(t), ~Goto(t, Idle) PROVE G
  <2>1. Goto(t, [do |-> "workspace", client |-> job[t].client, user |-> Len(users) + 1])
    BY <1>2 DEF InsertUser, LostRace
  <2> QED BY <1>g, <2>1
<1>3. ASSUME NEW t \in Thread, InsertSpareWorkspace(t) PROVE G
  BY <1>g, <1>3 DEF InsertSpareWorkspace, AddWorkspace
<1>4. ASSUME NEW t \in Thread, ReadList(t) PROVE G
  BY <1>g, <1>4 DEF ReadList
<1>5. ASSUME NEW t \in Thread, StampKey(t), ~Goto(t, Idle) PROVE G
  <2>1. /\ job[t].do = "stamp"
        /\ Goto(t, [do |-> "serve", key |-> job[t].key, project |-> job[t].project])
    BY <1>5 DEF StampKey, Opens
  <2> QED BY <1>g, <2>1
<1>6. ASSUME NEW t \in Thread, NEW c \in Client, NEW z \in Spelling, LookupEmail(t, c, z)
      PROVE  G
  BY <1>g, <1>6 DEF LookupEmail
<1>7. ASSUME NEW t \in Thread, NEW c \in Client, NEW u \in DOMAIN users, LookupWorkspace(t, c, u)
      PROVE  G
  <2>1. CASE /\ WorkspacesOf(u) = {}
             /\ Goto(t, [do |-> "spare", client |-> c, user |-> u])
    BY <1>g, <2>1
  <2>2. ASSUME NEW w,
               Goto(t, [do |-> "project", client |-> c, user |-> u, workspace |-> w])
        PROVE  G
    BY <1>g, <2>2
  <2> QED BY <1>7, <2>1, <2>2 DEF LookupWorkspace, FoundWorkspaces, SignedIn
<1>8. ASSUME NEW t \in Thread, NEW c \in Client, NEW u \in DOMAIN users, BeginList(t, c, u)
      PROVE  G
  BY <1>g, <1>8 DEF BeginList, SignedIn
<1>9. ASSUME NEW t \in Thread, NEW n \in DOMAIN keys, NEW p \in DOMAIN projects, VerifyKey(t, n, p)
      PROVE  G
  <2>1. /\ ~keys[n].revoked
        /\ Goto(t, [do |-> "stamp", key |-> n, project |-> p, row |-> keys[n]])
    BY <1>9 DEF VerifyKey
  <2> QED BY <1>g, <2>1
<1>10. ASSUME Restart PROVE G
  BY <1>10 DEF Restart
<1>11. ASSUME UNCHANGED job PROVE G
  BY <1>11
<1> HIDE DEF G
<1>12. ASSUME NEW t \in Thread, Work(t) PROVE G
  BY <1>i, <1>1, <1>2, <1>3, <1>4, <1>5, <1>12 DEF Work
<1>13. ASSUME UNCHANGED vars \/ Restart PROVE G
  BY <1>10, <1>11, <1>13 DEF vars
<1>14. ASSUME NEW c \in Client,
              \/ \E z \in Spelling : Login(c, z)
              \/ \E u \in DOMAIN users, p \in DOMAIN projects :
                   \/ UpdateProject(c, u, p)
                   \/ CreateKey(c, u, p)
                   \/ \E n \in DOMAIN keys : RevokeKey(c, u, p, n)
       PROVE  G
  BY <1>11, <1>14 DEF Login, UpdateProject, CreateKey, RevokeKey, MayAct, SignedIn, AddKey, Revoke
<1>15. G
  BY <1>1, <1>6, <1>7, <1>8, <1>9, <1>12, <1>13, <1>14 DEF Next
<1> QED BY <1>15 DEF G

\* One account for one address, however signups of it interleave, and a token is only
\* ever for an account whose password its holder chose.
THEOREM AccountsStaySeparate == Spec => []AccountsSeparate
<1>1. TypeOK /\ Rows /\ JobsOK => AccountsSeparate
  BY DEF Rows, UserRows, Tokens, AccountsSeparate
<1> QED BY <1>1, ThreadsKnow, PTL

\* What a person lists or has written is their own, and a key serves its project only.
THEOREM ProjectsStayIsolated == Spec => []ProjectsIsolated
<1>1. ASSUME TypeOK, Rows, JobsOK PROVE ProjectsIsolated
  <2>1. ASSUME NEW t \in Thread, job[t].do = "listed", NEW p \in job[t].projects
        PROVE  PersonOf(p) = job[t].client
    BY <1>1, <2>1 DEF JobsOK, JobOK, OwnProjects, PersonOf
  <2>2. ASSUME NEW t \in Thread, job[t].do = "serve"
        PROVE  keys[job[t].key].project = job[t].project
    BY <1>1, <2>2 DEF JobsOK, JobOK
  <2> QED BY <1>1, <2>1, <2>2 DEF Rows, Editors, ProjectsIsolated
<1> QED BY <1>1, ThreadsKnow, PTL

\* A list shows one workspace of its user, and the whole of it.
THEOREM ListsAreComplete == Spec => []ListComplete
<1>1. JobsOK => ListComplete
  BY DEF JobsOK, JobOK, CompleteFor, ListComplete
<1> QED BY <1>1, ThreadsKnow, PTL

\* As long as there is one workspace, that is every project there was when the list began.
OnlyWorkspaceShown ==
  \A t \in Thread :
    job[t].do = "listed" /\ Cardinality(WorkspacesOf(job[t].user)) = 1 =>
      job[t].before \subseteq job[t].projects

\* The list of a user with one workspace misses nothing that was there when it began.
THEOREM NothingIsMissed == Spec => []OnlyWorkspaceShown
<1>1. ASSUME TypeOK, Rows, JobsOK PROVE OnlyWorkspaceShown
  <2> SUFFICES ASSUME NEW t \in Thread, job[t].do = "listed",
                      Cardinality(WorkspacesOf(job[t].user)) = 1,
                      NEW p \in job[t].before
               PROVE  p \in job[t].projects
    BY DEF OnlyWorkspaceShown
  <2>1. /\ OwnProjects(job[t].before, job[t].user)
        /\ \E w \in WorkspacesOf(job[t].user) : CompleteFor(w, job[t].before, job[t].projects)
    BY <1>1 DEF JobsOK, JobOK
  <2>2. PICK w \in WorkspacesOf(job[t].user) : CompleteFor(w, job[t].before, job[t].projects)
    BY <2>1
  <2>3. IsFiniteSet(WorkspacesOf(job[t].user))
    <3>1. DOMAIN workspaces = 1..Len(workspaces) /\ Len(workspaces) \in Nat
      BY <1>1 DEF TypeOK
    <3>2. IsFiniteSet(1..Len(workspaces))
      BY <3>1, FS_Interval
    <3> QED BY <3>1, <3>2, FS_Subset DEF WorkspacesOf
  <2>4. PICK only : WorkspacesOf(job[t].user) = {only}
    BY <2>3, FS_Singleton
  <2>5. p \in DOMAIN projects /\ OwnerOf(p) = job[t].user
    BY <2>1 DEF OwnProjects
  <2>6. projects[p].workspace \in WorkspacesOf(job[t].user)
    BY <1>1, <2>5 DEF Rows, Homes, OwnerOf, WorkspacesOf
  <2> QED BY <2>2, <2>4, <2>6 DEF CompleteFor
<1> QED BY <1>1, ThreadsKnow, PTL

\* A revoked key stays revoked, and no request takes it up again.
THEOREM RevocationIsFinal == Spec => RevocationHolds
<1> DEFINE A == \A k \in DOMAIN keys :
                  keys[k].revoked =>
                    /\ k \in DOMAIN keys' /\ keys'[k].revoked
                    /\ \A t \in Thread : Uses(job'[t], k) => Uses(job[t], k)
<1>1. ASSUME TypeOK, [Next]_vars PROVE [A]_vars
  <2> SUFFICES ASSUME NEW k \in DOMAIN keys, keys[k].revoked
               PROVE  /\ k \in DOMAIN keys' /\ keys'[k].revoked
                      /\ \A t \in Thread : Uses(job'[t], k) => Uses(job[t], k)
    OBVIOUS
  <2>g. k \in DOMAIN keys'
    BY <1>1, TablesGrow DEF Grown
  <2>1. keys'[k].revoked
    <3>1. ASSUME NEW t \in Thread, StampKey(t) PROVE keys'[k].revoked
      BY <1>1, <3>1, StampedKeys
    <3>2. ASSUME NEW c \in Client, NEW u \in DOMAIN users, NEW p \in DOMAIN projects,
                 CreateKey(c, u, p)
          PROVE  keys'[k].revoked
      <4> DEFINE row == [project |-> p, revoked |-> FALSE, used |-> FALSE]
      <4>1. row \in Key
        BY <1>1, DomainsAreNat DEF Key
      <4>2. keys' = Append(keys, row)
        BY <3>2 DEF CreateKey, MayAct, SignedIn, AddKey
      <4> HIDE DEF row
      <4>3. keys'[k] = keys[k]
        BY <1>1, <4>1, <4>2, Appended DEF TypeOK
      <4> QED BY <4>3
    <3>3. ASSUME NEW c \in Client, NEW u \in DOMAIN users, NEW p \in DOMAIN projects,
                 NEW n \in DOMAIN keys, RevokeKey(c, u, p, n)
          PROVE  keys'[k].revoked
      <4>1. keys[n] \in Key
        BY <1>1 DEF TypeOK
      <4>2. [keys[n] EXCEPT !.revoked = TRUE].revoked
        BY <4>1 DEF Key
      <4>3. keys' = [keys EXCEPT ![n] = [keys[n] EXCEPT !.revoked = TRUE]]
        BY <3>3 DEF RevokeKey, MayAct, SignedIn, Revoke
      <4>4. keys'[k] = IF k = n THEN [keys[n] EXCEPT !.revoked = TRUE] ELSE keys[k]
        BY <1>1, <4>3 DEF TypeOK
      <4> QED BY <4>2, <4>4
    <3>4. CASE UNCHANGED keys
      BY <3>4
    <3> QED
      BY <1>1, <3>1, <3>2, <3>3, <3>4
      DEF Next, Work, vars, InsertUser, InsertWorkspace, InsertSpareWorkspace, InsertProject,
          UpdateProject, LookupEmail, ReadList, Finish, Die, LookupWorkspace, BeginList,
          VerifyKey, Login, Restart, AddWorkspace, MayAct, SignedIn
  <2>2. ASSUME NEW s \in Thread, Uses(job'[s], k) PROVE Uses(job[s], k)
    BY <1>1, <2>2, NewJobs DEF Uses, Idle
  <2> QED BY <2>g, <2>1, <2>2
<1>2. TypeOK /\ [Next]_vars => [A]_vars
  BY <1>1
<1> HIDE DEF A
<1>3. Spec => [][A]_vars
  BY <1>2, TypeCorrect, PTL DEF Spec
<1> QED BY <1>3 DEF RevocationHolds, A

-----------------------------------------------------------------------------
(* The number of workspaces                                                *)

\* The threads that are about to make a workspace for a user.  None joins them once the
\* user has one, so each workspace is the work of a thread of its own.
Pending(u) == {t \in Thread : job[t].do \in {"workspace", "spare"} /\ job[t].user = u}

Bounded ==
  \A u \in DOMAIN users :
    \/ WorkspacesOf(u) = {}
    \/ Cardinality(WorkspacesOf(u)) + Cardinality(Pending(u)) <= Cardinality(Thread)

LEMMA FiniteOwn ==
  ASSUME TypeOK, NEW u
  PROVE  /\ IsFiniteSet(WorkspacesOf(u)) /\ Cardinality(WorkspacesOf(u)) \in Nat
         /\ IsFiniteSet(Pending(u)) /\ Cardinality(Pending(u)) \in Nat
         /\ Cardinality(Pending(u)) <= Cardinality(Thread) /\ Cardinality(Thread) \in Nat
<1>1. IsFiniteSet(WorkspacesOf(u))
  <2>1. DOMAIN workspaces = 1..Len(workspaces) /\ Len(workspaces) \in Nat
    BY DEF TypeOK
  <2>2. IsFiniteSet(1..Len(workspaces))
    BY <2>1, FS_Interval
  <2> QED BY <2>1, <2>2, FS_Subset DEF WorkspacesOf
<1>2. Pending(u) \subseteq Thread
  BY DEF Pending
<1> QED BY <1>1, <1>2, AccountsAssumption, FS_Subset, FS_CardinalityType

LEMMA BoundedKept ==
  ASSUME TypeOK, TypeOK', Owners, Owners', Grown, Bounded, [Next]_vars
  PROVE  Bounded'
<1> SUFFICES ASSUME NEW u \in DOMAIN users', WorkspacesOf(u)' # {}
             PROVE  Cardinality(WorkspacesOf(u)') + Cardinality(Pending(u)')
                      <= Cardinality(Thread)
  BY DEF Bounded
<1>n. /\ Cardinality(WorkspacesOf(u)) \in Nat /\ Cardinality(Pending(u)) \in Nat
      /\ IsFiniteSet(WorkspacesOf(u)) /\ IsFiniteSet(Pending(u))
      /\ Cardinality(Pending(u)) <= Cardinality(Thread) /\ Cardinality(Thread) \in Nat
  BY FiniteOwn
<1>1. ASSUME NEW t \in Thread, InsertWorkspace(t) \/ InsertSpareWorkspace(t), job[t].user = u
      PROVE  Cardinality(WorkspacesOf(u)') + Cardinality(Pending(u)') <= Cardinality(Thread)
  <2>0. job[t].user \in Nat /\ workspaces' = Append(workspaces, job[t].user)
    BY <1>1, JobKinds DEF TypeOK, InsertWorkspace, InsertSpareWorkspace, OwnJob, AddWorkspace
  <2>1. /\ DOMAIN workspaces' = DOMAIN workspaces \cup {Len(workspaces) + 1}
        /\ Len(workspaces) + 1 \notin DOMAIN workspaces
        /\ \A w \in DOMAIN workspaces : workspaces'[w] = workspaces[w]
        /\ workspaces'[Len(workspaces) + 1] = u
    <3>1. workspaces \in Seq(Nat) /\ u \in Nat /\ workspaces' = Append(workspaces, u)
      BY <1>1, <2>0 DEF TypeOK
    <3> QED BY <3>1, Appended
  <2>2. /\ WorkspacesOf(u)' = WorkspacesOf(u) \cup {Len(workspaces) + 1}
        /\ Len(workspaces) + 1 \notin WorkspacesOf(u)
    BY <2>1 DEF WorkspacesOf
  <2>3. Cardinality(WorkspacesOf(u)') = Cardinality(WorkspacesOf(u)) + 1
    BY <1>n, <2>2, FS_AddElement
  <2>4. t \in Pending(u)
    BY <1>1 DEF Pending, InsertWorkspace, InsertSpareWorkspace, AddWorkspace
  <2>5. job'[t].do \in {"idle", "project"} /\ \A s \in Thread : s # t => job'[s] = job[s]
    BY <1>1 DEF InsertWorkspace, InsertSpareWorkspace, Goto, Idle, TypeOK, AddWorkspace
  <2>6. Pending(u)' = Pending(u) \ {t}
    BY <2>5 DEF Pending
  <2>7. Cardinality(Pending(u)') = Cardinality(Pending(u)) - 1
    BY <1>n, <2>4, <2>6, FS_RemoveElement
  <2>8. WorkspacesOf(u) = {} => Cardinality(WorkspacesOf(u)) = 0
    BY FS_EmptySet
  <2>9. u \in DOMAIN users
    BY <1>1, <2>5 DEF InsertWorkspace, InsertSpareWorkspace, AddWorkspace
  <2> QED BY <1>n, <2>3, <2>7, <2>8, <2>9 DEF Bounded
<1>2. CASE WorkspacesOf(u)' = WorkspacesOf(u)
  <2>1. u \in DOMAIN users
    BY <1>2 DEF Owners, WorkspacesOf
  <2>2. ASSUME NEW s \in Pending(u)' PROVE s \in Pending(u)
    <3>1. s \in Thread /\ job'[s].do \in {"workspace", "spare"} /\ job'[s].user = u
      BY <2>2 DEF Pending
    <3>2. u # Len(users) + 1
      BY <2>1 DEF TypeOK
    <3>3. job'[s] = job[s]
      BY <1>2, <3>1, <3>2, NewJobs DEF Idle
    <3> QED BY <3>1, <3>3 DEF Pending
  <2>3. Cardinality(Pending(u)') \in Nat /\ Cardinality(Pending(u)') <= Cardinality(Pending(u))
    BY <1>n, <2>2, FS_Subset, FS_CardinalityType
  <2> QED BY <1>2, <1>n, <2>1, <2>3 DEF Bounded
<1>3. ASSUME NEW t \in Thread, InsertWorkspace(t) \/ InsertSpareWorkspace(t), job[t].user # u
      PROVE  WorkspacesOf(u)' = WorkspacesOf(u)
  <2>0. job[t].user \in Nat /\ workspaces' = Append(workspaces, job[t].user)
    BY <1>3, JobKinds DEF TypeOK, InsertWorkspace, InsertSpareWorkspace, OwnJob, AddWorkspace
  <2>1. /\ DOMAIN workspaces' = DOMAIN workspaces \cup {Len(workspaces) + 1}
        /\ \A w \in DOMAIN workspaces : workspaces'[w] = workspaces[w]
        /\ workspaces'[Len(workspaces) + 1] = job[t].user
    BY <2>0, Appended DEF TypeOK
  <2> QED BY <1>3, <2>1 DEF WorkspacesOf
<1>4. CASE UNCHANGED workspaces
  BY <1>2, <1>4 DEF WorkspacesOf
<1> QED
  BY <1>1, <1>2, <1>3, <1>4
  DEF Next, Work, vars, InsertUser, InsertProject, StampKey, UpdateProject, CreateKey,
      RevokeKey, LookupEmail, ReadList, Finish, Die, LookupWorkspace, BeginList, VerifyKey,
      Login, Restart, Opens, MayAct, SignedIn, AddKey, Revoke

\* A user never has more workspaces than the server has request threads.
THEOREM WorkspacesStayBounded == Spec => []WorkspacesBounded
<1>1. Init => Bounded
  BY DEF Init, Bounded
<1>2. ASSUME TypeOK, Rows, JobsOK, Bounded, [Next]_vars PROVE Bounded'
  <2>1. TypeOK' /\ Owners /\ Owners' /\ Grown
    BY <1>2, TypePreserved, RowsKept, TablesGrow DEF Rows
  <2> QED BY <1>2, <2>1, BoundedKept
<1>3. ASSUME TypeOK, Bounded PROVE WorkspacesBounded
  <2> SUFFICES ASSUME NEW u \in DOMAIN users
               PROVE  Cardinality(WorkspacesOf(u)) <= Cardinality(Thread)
    BY DEF WorkspacesBounded
  <2>1. WorkspacesOf(u) = {} => Cardinality(WorkspacesOf(u)) = 0
    BY FS_EmptySet
  <2> QED BY <1>3, <2>1, FiniteOwn DEF Bounded
<1> QED BY <1>1, <1>2, <1>3, ThreadsKnow, PTL DEF Spec

-----------------------------------------------------------------------------
(* The abstract registry                                                   *)

\* What the registry sees of the tables.
Owned == [p \in DOMAIN projects |-> [owner |-> OwnerOf(p), editor |-> projects[p].editor]]
Passes == [k \in DOMAIN keys |-> [project |-> keys[k].project, revoked |-> keys[k].revoked]]

OwnedRow == [owner : Nat, editor : Client]
PassRow == [project : Nat, revoked : BOOLEAN]

\* Who is about to write a project was let in as its owner and still is: nobody is signed
\* out before the requests end.
Authorized ==
  \A t \in Thread : job[t].do \in {"spare", "project"} => job[t].user \in tokens[job[t].client]

LEMMA AppendedIs ==
  ASSUME NEW T, NEW n \in Nat, NEW s \in [1..n -> T], NEW e \in T
  PROVE  Append(s, e) = [i \in 1..(n + 1) |-> IF i = n + 1 THEN e ELSE s[i]]
<1>1. s \in Seq(T) /\ Len(s) = n
  OBVIOUS
<1>2. PICK a : a = Append(s, e)
  OBVIOUS
<1>3. /\ a \in Seq(T) /\ Len(a) = n + 1 /\ n + 1 \in Nat
      /\ a[n + 1] = e /\ \A i \in 1..n : a[i] = s[i]
  BY <1>1, <1>2
<1>4. a = [i \in 1..(n + 1) |-> a[i]]
  BY <1>3
<1>5. \A i \in 1..(n + 1) : i # n + 1 => i \in 1..n
  OBVIOUS
<1> QED BY <1>2, <1>3, <1>4, <1>5

LEMMA OwnedIs ==
  ASSUME TypeOK, Owners, Homes
  PROVE  /\ Len(projects) \in Nat /\ DOMAIN projects = 1..Len(projects)
         /\ Owned \in [1..Len(projects) -> OwnedRow]
<1>1. Len(projects) \in Nat /\ DOMAIN projects = 1..Len(projects)
  BY DEF TypeOK
<1>2. ASSUME NEW p \in DOMAIN projects
      PROVE  [owner |-> OwnerOf(p), editor |-> projects[p].editor] \in OwnedRow
  <2>1. projects[p] \in Project /\ OwnerOf(p) \in DOMAIN users
    BY DEF TypeOK, Owners, Homes, OwnerOf
  <2> QED BY <2>1, DomainsAreNat DEF Project, OwnedRow
<1> QED BY <1>1, <1>2 DEF Owned

LEMMA PassesIs ==
  ASSUME TypeOK
  PROVE  /\ Len(keys) \in Nat /\ DOMAIN keys = 1..Len(keys)
         /\ Passes \in [1..Len(keys) -> PassRow]
<1>1. Len(keys) \in Nat /\ DOMAIN keys = 1..Len(keys)
  BY DEF TypeOK
<1>2. ASSUME NEW k \in DOMAIN keys
      PROVE  [project |-> keys[k].project, revoked |-> keys[k].revoked] \in PassRow
  <2>1. keys[k] \in Key
    BY DEF TypeOK
  <2> QED BY <2>1 DEF Key, PassRow
<1> QED BY <1>1, <1>2 DEF Passes

\* Workspaces come and go unseen.
LEMMA Unseen ==
  ASSUME Homes, Grown
  PROVE  /\ UNCHANGED projects => Owned' = Owned
         /\ UNCHANGED keys => Passes' = Passes
<1>1. \A p \in DOMAIN projects : OwnerOf(p)' = OwnerOf(p)
  BY DEF Homes, Grown, OwnerOf
<1>2. ASSUME UNCHANGED projects PROVE Owned' = Owned
  BY <1>1, <1>2 DEF Owned
<1>3. ASSUME UNCHANGED keys PROVE Passes' = Passes
  BY <1>3 DEF Passes
<1> QED BY <1>2, <1>3

LEMMA AuthorizedGoto ==
  ASSUME TypeOK, Authorized, \A c \in Client : tokens[c] \subseteq tokens'[c],
         NEW t \in Thread, NEW j, Goto(t, j),
         j.do \in {"spare", "project"} => j.user \in tokens'[j.client]
  PROVE  Authorized'
<1>1. ASSUME NEW s \in Thread, job'[s].do \in {"spare", "project"}
      PROVE  job'[s].user \in tokens'[job'[s].client]
  <2>1. job'[s] = j \/ job'[s] = job[s]
    BY DEF TypeOK, Goto
  <2>2. CASE job'[s] = job[s]
    <3>1. job[s].client \in Client
      BY <1>1, <2>2, JobKinds DEF TypeOK, OwnJob, ProjectJob
    <3> QED BY <1>1, <2>2, <3>1 DEF Authorized
  <2> QED BY <1>1, <2>1, <2>2
<1> QED BY <1>1 DEF Authorized

LEMMA AuthorizedKept == TypeOK /\ Authorized /\ [Next]_vars => Authorized'
<1> SUFFICES ASSUME TypeOK, Authorized, [Next]_vars PROVE Authorized'
  OBVIOUS
<1>1. CASE Restart
  BY <1>1 DEF Restart, Authorized, Idle
<1>2. CASE UNCHANGED <<job, tokens>>
  BY <1>2 DEF Authorized
<1>3. ASSUME NEW c \in Client, NEW u, Grant(c, u)
      PROVE  \A d \in Client : tokens[d] \subseteq tokens'[d]
  BY <1>3 DEF Grant, TypeOK
<1>4. ASSUME NEW t \in Thread, NEW j, Goto(t, j), j.do \notin {"spare", "project"},
             \/ UNCHANGED tokens
             \/ \E c \in Client, u \in Nat : Grant(c, u)
      PROVE  Authorized'
  <2>1. \A d \in Client : tokens[d] \subseteq tokens'[d]
    BY <1>3, <1>4
  <2> QED BY <1>4, <2>1, AuthorizedGoto
<1>5. ASSUME NEW t \in Thread, InsertUser(t) PROVE Authorized'
  <2>1. CASE Goto(t, Idle) /\ UNCHANGED tokens
    BY <1>4, <2>1 DEF Idle
  <2>2. CASE ~(Goto(t, Idle) /\ UNCHANGED tokens)
    BY <1>4, <1>5, <2>2 DEF InsertUser, LostRace
  <2> QED BY <2>1, <2>2
<1>6. ASSUME NEW t \in Thread, InsertWorkspace(t) PROVE Authorized'
  <2>1. job[t].client \in Client /\ job[t].user \in Nat
    BY <1>6, JobKinds DEF TypeOK, InsertWorkspace, OwnJob
  <2> QED BY <1>4, <1>6, <2>1 DEF InsertWorkspace, Idle
<1>7. ASSUME NEW t \in Thread, InsertSpareWorkspace(t) PROVE Authorized'
  <2>1. job[t].user \in tokens[job[t].client] /\ UNCHANGED tokens
    BY <1>7 DEF Authorized, InsertSpareWorkspace
  <2>2. PICK j : Goto(t, j) /\ j.client = job[t].client /\ j.user = job[t].user
    BY <1>7 DEF InsertSpareWorkspace
  <2> QED BY <2>1, <2>2, AuthorizedGoto
<1>8. ASSUME NEW t \in Thread, NEW c \in Client, NEW u \in DOMAIN users, LookupWorkspace(t, c, u)
      PROVE  Authorized'
  <2>1. u \in tokens[c] /\ UNCHANGED tokens
    BY <1>8 DEF LookupWorkspace, SignedIn
  <2>2. PICK j : Goto(t, j) /\ j.client = c /\ j.user = u
    <3>1. CASE Goto(t, [do |-> "spare", client |-> c, user |-> u])
      BY <3>1
    <3>2. ASSUME NEW w, Goto(t, [do |-> "project", client |-> c, user |-> u, workspace |-> w])
          PROVE  \E j : Goto(t, j) /\ j.client = c /\ j.user = u
      BY <3>2
    <3> QED BY <1>8, <3>1, <3>2 DEF LookupWorkspace
  <2> QED BY <2>1, <2>2, AuthorizedGoto
<1>9. ASSUME NEW t \in Thread,
             \/ InsertProject(t) \/ Finish(t) \/ Die(t) \/ ReadList(t) \/ StampKey(t)
             \/ \E c \in Client, s \in Spelling : LookupEmail(t, c, s)
             \/ \E c \in Client, u \in DOMAIN users : BeginList(t, c, u)
             \/ \E k \in DOMAIN keys, p \in DOMAIN projects : VerifyKey(t, k, p)
      PROVE  Authorized'
  <2>1. UNCHANGED tokens /\ \E j : Goto(t, j) /\ j.do \notin {"spare", "project"}
    <3>1. UNCHANGED tokens
      BY <1>9 DEF InsertProject, Finish, Die, ReadList, StampKey, LookupEmail, BeginList, VerifyKey
    <3>2. CASE InsertProject(t) \/ Finish(t) \/ Die(t)
      BY <3>1, <3>2 DEF InsertProject, Finish, Die, Idle
    <3>3. CASE ReadList(t)
      BY <3>1, <3>3 DEF ReadList
    <3>4. CASE StampKey(t)
      <4>1. CASE Opens(job[t])
        BY <3>1, <3>4, <4>1 DEF StampKey
      <4>2. CASE ~Opens(job[t])
        BY <3>1, <3>4, <4>2 DEF StampKey, Idle
      <4> QED BY <4>1, <4>2
    <3>5. ASSUME NEW c \in Client, NEW s \in Spelling, LookupEmail(t, c, s)
          PROVE  \E j : Goto(t, j) /\ j.do \notin {"spare", "project"}
      BY <3>5 DEF LookupEmail
    <3>6. ASSUME NEW c \in Client, NEW u \in DOMAIN users, BeginList(t, c, u)
          PROVE  \E j : Goto(t, j) /\ j.do \notin {"spare", "project"}
      BY <3>6 DEF BeginList
    <3>7. ASSUME NEW k \in DOMAIN keys, NEW p \in DOMAIN projects, VerifyKey(t, k, p)
          PROVE  \E j : Goto(t, j) /\ j.do \notin {"spare", "project"}
      BY <3>7 DEF VerifyKey
    <3> QED BY <1>9, <3>1, <3>2, <3>3, <3>4, <3>5, <3>6, <3>7
  <2> QED BY <1>4, <2>1
<1>10. ASSUME NEW c \in Client, NEW s \in Spelling, Login(c, s) PROVE Authorized'
  <2>1. UNCHANGED job /\ \A d \in Client : tokens[d] \subseteq tokens'[d]
    BY <1>3, <1>10 DEF Login
  <2>2. ASSUME NEW t \in Thread, job[t].do \in {"spare", "project"}
        PROVE  job[t].user \in tokens'[job[t].client]
    <3>1. job[t].client \in Client
      BY <2>2, JobKinds DEF TypeOK, OwnJob, ProjectJob
    <3> QED BY <2>1, <2>2, <3>1 DEF Authorized
  <2> QED BY <2>1, <2>2 DEF Authorized
<1>11. ASSUME NEW c \in Client, NEW u \in DOMAIN users, NEW p \in DOMAIN projects,
              \/ UpdateProject(c, u, p) \/ CreateKey(c, u, p)
              \/ \E k \in DOMAIN keys : RevokeKey(c, u, p, k)
       PROVE  Authorized'
  BY <1>2, <1>11 DEF UpdateProject, CreateKey, RevokeKey
<1> QED
  BY <1>1, <1>2, <1>5, <1>6, <1>7, <1>8, <1>9, <1>10, <1>11 DEF Next, Work, vars

\* A step that only signs somebody in, or changes nothing the registry sees.
LEMMA InsertUserImplements ==
  ASSUME TypeOK, Homes, JobsOK, Grown, NEW t \in Thread, InsertUser(t)
  PROVE  Promised!Next \/ UNCHANGED Promised!vars
<1>1. Owned' = Owned /\ Passes' = Passes
  BY Unseen DEF InsertUser
<1>2. CASE LostRace(t) /\ UNCHANGED users
  BY <1>1, <1>2 DEF LostRace, Promised!vars, Owned, Passes
<1>3. CASE ~(LostRace(t) /\ UNCHANGED users)
  <2>1. PICK c, e : c = job[t].client /\ e = job[t].email
    OBVIOUS
  <2>2. c \in Client /\ e \in Spelling /\ lower[e] = e
    BY <2>1, JobKinds DEF TypeOK, InsertJob, JobsOK, JobOK, InsertUser
  <2>3. /\ users' = Append(users, [email |-> e, password |-> c]) /\ UNCHANGED tokens
        /\ \A u \in DOMAIN users : users[u].email # e
    BY <1>3, <2>1 DEF InsertUser, Registered
  <2>4. e \in {lower[s] : s \in Spelling}
    BY <2>2
  <2>5. Promised!SignUp(c, e)
    BY <1>1, <2>3 DEF Promised!SignUp, Owned, Passes
  <2> QED BY <2>2, <2>4, <2>5 DEF Promised!Next
<1> QED BY <1>2, <1>3

LEMMA SignInImplements ==
  ASSUME TypeOK, Homes, Grown, NEW c \in Client, NEW u \in DOMAIN users,
         users[u].password = c, Grant(c, u), UNCHANGED <<users, projects, keys>>
  PROVE  Promised!Next
<1>1. Owned' = Owned /\ Passes' = Passes
  BY Unseen
<1>2. Promised!SignIn(c, u)
  BY <1>1 DEF Promised!SignIn, Grant, Owned, Passes
<1> QED BY <1>2 DEF Promised!Next

LEMMA CreateImplements ==
  ASSUME TypeOK, Owners, Homes, JobsOK, Authorized, Grown, NEW t \in Thread, InsertProject(t)
  PROVE  Promised!Next
<1>1. PICK c, u, w : c = job[t].client /\ u = job[t].user /\ w = job[t].workspace
  OBVIOUS
<1>2. /\ c \in Client /\ u \in DOMAIN users /\ u \in Nat /\ u \in tokens[c]
      /\ w \in DOMAIN workspaces /\ w \in Nat /\ workspaces[w] = u
  BY <1>1, JobKinds DEF TypeOK, ProjectJob, JobsOK, JobOK, Authorized, InsertProject
<1>3. /\ projects' = Append(projects, [workspace |-> w, editor |-> c])
      /\ UNCHANGED <<users, workspaces, keys, tokens>>
  BY <1>1 DEF InsertProject
<1>4. PICK n, O : /\ n \in Nat /\ n = Len(projects) /\ DOMAIN projects = 1..n
                  /\ O = Owned /\ O \in [1..n -> OwnedRow]
  BY OwnedIs
<1>5. /\ DOMAIN projects' = 1..(n + 1) /\ \A p \in 1..n : projects'[p] = projects[p]
      /\ projects'[n + 1] = [workspace |-> w, editor |-> c]
  <2>1. projects \in Seq(Project) /\ [workspace |-> w, editor |-> c] \in Project
    BY <1>2 DEF TypeOK, Project
  <2> QED BY <1>3, <1>4, <2>1
<1>6. \A p \in 1..(n + 1) : p # n + 1 => p \in 1..n
  BY <1>4
<1>7. Owned' = [p \in 1..(n + 1) |-> IF p = n + 1 THEN [owner |-> u, editor |-> c] ELSE O[p]]
  <2>1. \A p \in 1..n : [owner |-> OwnerOf(p), editor |-> projects[p].editor]' = O[p]
    BY <1>3, <1>4, <1>5 DEF Owned, OwnerOf
  <2>2. [owner |-> OwnerOf(n + 1), editor |-> projects[n + 1].editor]'
          = [owner |-> u, editor |-> c]
    BY <1>2, <1>3, <1>4, <1>5 DEF OwnerOf
  <2> QED BY <1>5, <1>6, <2>1, <2>2 DEF Owned
<1>8. Owned' = Append(Owned, [owner |-> u, editor |-> c])
  <2>1. [owner |-> u, editor |-> c] \in OwnedRow
    BY <1>2 DEF OwnedRow
  <2>2. PICK e : e = [owner |-> u, editor |-> c]
    OBVIOUS
  <2>3. Append(O, e) = [p \in 1..(n + 1) |-> IF p = n + 1 THEN e ELSE O[p]]
    BY <1>4, <2>1, <2>2, AppendedIs
  <2> QED BY <1>4, <1>7, <2>2, <2>3
<1>9. Passes' = Passes
  BY <1>3, Unseen
<1>10. Promised!Create(c, u)
  BY <1>2, <1>3, <1>8, <1>9 DEF Promised!Create, Owned, Passes
<1> QED BY <1>2, <1>10 DEF Promised!Next

LEMMA EditImplements ==
  ASSUME TypeOK, Owners, Homes, Grown, NEW c \in Client, NEW u \in DOMAIN users,
         NEW p \in DOMAIN projects, UpdateProject(c, u, p)
  PROVE  Promised!Next
<1>1. /\ OwnerOf(p) = u /\ u \in tokens[c] /\ UNCHANGED <<users, workspaces, keys, tokens>>
      /\ projects' = [projects EXCEPT ![p].editor = c]
  BY DEF UpdateProject, MayAct, SignedIn, Owns
<1>2. PICK n, O : /\ n \in Nat /\ n = Len(projects) /\ DOMAIN projects = 1..n
                  /\ O = Owned /\ O \in [1..n -> OwnedRow]
  BY OwnedIs
<1>3. \A q \in 1..n : O[q] = [owner |-> OwnerOf(q), editor |-> projects[q].editor]
  BY <1>2 DEF Owned
<1>4. /\ DOMAIN projects' = 1..n /\ projects'[p].editor = c
      /\ \A q \in 1..n : /\ projects'[q].workspace = projects[q].workspace
                         /\ q # p => projects'[q] = projects[q]
  <2>1. projects \in Seq(Project) /\ projects[p] \in Project
    BY DEF TypeOK
  <2> QED BY <1>1, <1>2, <2>1 DEF Project
<1>5. Owned' = [q \in 1..n |-> IF q = p THEN [owner |-> O[p].owner, editor |-> c] ELSE O[q]]
  <2>1. \A q \in 1..n : OwnerOf(q)' = OwnerOf(q)
    BY <1>1, <1>4 DEF OwnerOf
  <2>2. \A q \in 1..n : [owner |-> OwnerOf(q), editor |-> projects[q].editor]'
                          = IF q = p THEN [owner |-> O[p].owner, editor |-> c] ELSE O[q]
    BY <1>2, <1>3, <1>4, <2>1
  <2> QED BY <1>4, <2>2 DEF Owned
<1>6. Owned' = [Owned EXCEPT ![p].editor = c]
  <2>1. O[p] \in OwnedRow /\ p \in 1..n
    BY <1>2
  <2>2. [O[p] EXCEPT !.editor = c] = [owner |-> O[p].owner, editor |-> c]
    BY <2>1 DEF OwnedRow
  <2>3. [O EXCEPT ![p].editor = c]
          = [q \in 1..n |-> IF q = p THEN [O[p] EXCEPT !.editor = c] ELSE O[q]]
    BY <1>2
  <2> QED BY <1>2, <1>5, <2>2, <2>3
<1>7. Passes' = Passes
  BY <1>1, Unseen
<1>8. Owned[p].owner = u /\ p \in DOMAIN Owned
  BY <1>1, <1>2, <1>3
<1>9. Promised!Edit(c, p)
  BY <1>1, <1>6, <1>7, <1>8 DEF Promised!Edit, Owned, Passes
<1> QED BY <1>8, <1>9 DEF Promised!Next, Owned

LEMMA GiveOutImplements ==
  ASSUME TypeOK, Homes, Grown, NEW c \in Client, NEW u \in DOMAIN users,
         NEW p \in DOMAIN projects, CreateKey(c, u, p)
  PROVE  Promised!Next
<1>1. /\ OwnerOf(p) = u /\ u \in tokens[c] /\ UNCHANGED <<users, workspaces, projects, tokens>>
      /\ keys' = Append(keys, [project |-> p, revoked |-> FALSE, used |-> FALSE])
  BY DEF CreateKey, MayAct, SignedIn, Owns, AddKey
<1>2. PICK n, K : /\ n \in Nat /\ n = Len(keys) /\ DOMAIN keys = 1..n
                  /\ K = Passes /\ K \in [1..n -> PassRow]
  BY PassesIs
<1>3. p \in Nat
  BY DomainsAreNat
<1>4. /\ DOMAIN keys' = 1..(n + 1) /\ \A k \in 1..n : keys'[k] = keys[k]
      /\ keys'[n + 1].project = p /\ keys'[n + 1].revoked = FALSE
  <2>1. PICK row : row = [project |-> p, revoked |-> FALSE, used |-> FALSE]
    OBVIOUS
  <2>2. keys \in Seq(Key) /\ row \in Key /\ row.project = p /\ row.revoked = FALSE
    BY <1>3, <2>1 DEF TypeOK, Key
  <2> QED BY <1>1, <1>2, <2>1, <2>2
<1>5. \A k \in 1..(n + 1) : k # n + 1 => k \in 1..n
  BY <1>2
<1>6. PICK e : e = [project |-> p, revoked |-> FALSE]
  OBVIOUS
<1>7. Passes' = [k \in 1..(n + 1) |-> IF k = n + 1 THEN e ELSE K[k]]
  <2>1. \A k \in 1..n : [project |-> keys[k].project, revoked |-> keys[k].revoked]' = K[k]
    BY <1>2, <1>4 DEF Passes
  <2>2. [project |-> keys[n + 1].project, revoked |-> keys[n + 1].revoked]' = e
    BY <1>4, <1>6
  <2> QED BY <1>4, <1>5, <2>1, <2>2 DEF Passes
<1>8. Passes' = Append(Passes, [project |-> p, revoked |-> FALSE])
  <2>1. e \in PassRow
    BY <1>3, <1>6 DEF PassRow
  <2>2. Append(K, e) = [k \in 1..(n + 1) |-> IF k = n + 1 THEN e ELSE K[k]]
    BY <1>2, <2>1, AppendedIs
  <2> QED BY <1>2, <1>6, <1>7, <2>2
<1>9. Owned' = Owned
  BY <1>1, Unseen
<1>10. Owned[p].owner = u /\ p \in DOMAIN Owned
  BY <1>1 DEF Owned
<1>11. Promised!GiveOut(c, p)
  BY <1>1, <1>8, <1>9, <1>10 DEF Promised!GiveOut, Owned, Passes
<1> QED BY <1>10, <1>11 DEF Promised!Next, Owned

LEMMA WithdrawImplements ==
  ASSUME TypeOK, Homes, Grown, NEW c \in Client, NEW u \in DOMAIN users,
         NEW p \in DOMAIN projects, NEW k \in DOMAIN keys, RevokeKey(c, u, p, k)
  PROVE  Promised!Next
<1>1. /\ OwnerOf(p) = u /\ u \in tokens[c] /\ UNCHANGED <<users, workspaces, projects, tokens>>
      /\ keys[k].project = p /\ keys' = [keys EXCEPT ![k].revoked = TRUE]
  BY DEF RevokeKey, MayAct, SignedIn, Owns, Revoke
<1>2. PICK n, K : /\ n \in Nat /\ n = Len(keys) /\ DOMAIN keys = 1..n
                  /\ K = Passes /\ K \in [1..n -> PassRow]
  BY PassesIs
<1>3. /\ DOMAIN keys' = 1..n /\ keys'[k].revoked = TRUE
      /\ \A m \in 1..n : /\ keys'[m].project = keys[m].project
                         /\ m # k => keys'[m] = keys[m]
  <2>1. keys \in Seq(Key) /\ keys[k] \in Key
    BY DEF TypeOK
  <2> QED BY <1>1, <1>2, <2>1 DEF Key
<1>4. \A m \in 1..n : K[m] = [project |-> keys[m].project, revoked |-> keys[m].revoked]
  BY <1>2 DEF Passes
<1>5. Passes' = [m \in 1..n |-> IF m = k THEN [project |-> K[k].project, revoked |-> TRUE]
                                         ELSE K[m]]
  <2>1. \A m \in 1..n : [project |-> keys[m].project, revoked |-> keys[m].revoked]'
                          = IF m = k THEN [project |-> K[k].project, revoked |-> TRUE] ELSE K[m]
    <3>1. ASSUME NEW m \in 1..n, m # k
          PROVE  [project |-> keys[m].project, revoked |-> keys[m].revoked]' = K[m]
      BY <1>3, <1>4, <3>1
    <3>2. [project |-> keys[k].project, revoked |-> keys[k].revoked]'
            = [project |-> K[k].project, revoked |-> TRUE]
      <4>1. keys'[k].project = K[k].project /\ keys'[k].revoked = TRUE
        BY <1>2, <1>3, <1>4
      <4> QED BY <4>1, Zenon
    <3> QED BY <3>1, <3>2
  <2> QED BY <1>3, <2>1 DEF Passes
<1>6. Passes' = [Passes EXCEPT ![k].revoked = TRUE]
  <2>1. K[k] \in PassRow /\ k \in 1..n
    BY <1>2
  <2>2. [K[k] EXCEPT !.revoked = TRUE] = [project |-> K[k].project, revoked |-> TRUE]
    <3>1. PICK r \in PassRow : r = K[k]
      BY <2>1
    <3>2. PICK e : e = [r EXCEPT !.revoked = TRUE]
      OBVIOUS
    <3>3. e \in PassRow /\ e.project = r.project /\ e.revoked = TRUE
      BY <3>2 DEF PassRow
    <3>4. e = [project |-> e.project, revoked |-> e.revoked]
      BY <3>3 DEF PassRow
    <3>5. e = [project |-> r.project, revoked |-> TRUE]
      BY <3>3, <3>4, Zenon
    <3> QED BY <3>1, <3>2, <3>5
  <2>3. [K EXCEPT ![k].revoked = TRUE]
          = [m \in 1..n |-> IF m = k THEN [K[k] EXCEPT !.revoked = TRUE] ELSE K[m]]
    BY <1>2
  <2> QED BY <1>2, <1>5, <2>2, <2>3
<1>7. Owned' = Owned
  BY <1>1, Unseen
<1>8. Owned[Passes[k].project].owner = u /\ k \in DOMAIN Passes
  BY <1>1, <1>2, <1>4 DEF Owned
<1>9. Promised!Withdraw(c, k)
  BY <1>1, <1>6, <1>7, <1>8 DEF Promised!Withdraw, Owned, Passes
<1> QED BY <1>8, <1>9 DEF Promised!Next, Passes

\* The stamp of a key leaves what the registry sees of it, although the row was read
\* before: only the one column is written.
LEMMA StampUnseen ==
  ASSUME TypeOK, Homes, Grown, NEW t \in Thread, StampKey(t)
  PROVE  UNCHANGED Promised!vars
<1>1. /\ DOMAIN keys' = DOMAIN keys
      /\ \A k \in DOMAIN keys : /\ keys'[k].project = keys[k].project
                                /\ keys'[k].revoked = keys[k].revoked
  BY StampedKeys DEF StampKey
<1>2. Passes' = Passes
  BY <1>1 DEF Passes
<1>3. Owned' = Owned /\ UNCHANGED <<users, tokens>>
  BY Unseen DEF StampKey
<1> QED BY <1>2, <1>3 DEF Promised!vars, Owned, Passes

LEMMA UnseenWork ==
  ASSUME TypeOK, Homes, Grown, UNCHANGED <<users, projects, keys, tokens>>
  PROVE  UNCHANGED Promised!vars
<1>1. Owned' = Owned /\ Passes' = Passes
  BY Unseen
<1> QED BY <1>1 DEF Promised!vars, Owned, Passes

LEMMA StepImplements ==
  TypeOK /\ Rows /\ JobsOK /\ Authorized /\ [Next]_vars => [Promised!Next]_(Promised!vars)
<1> SUFFICES ASSUME TypeOK, Rows, JobsOK, Authorized, [Next]_vars
             PROVE  Promised!Next \/ UNCHANGED Promised!vars
  OBVIOUS
<1> DEFINE Matched == Promised!Next \/ UNCHANGED Promised!vars
<1>g. Grown /\ Owners /\ Homes
  BY TablesGrow DEF Rows
<1>u. UNCHANGED <<users, projects, keys, tokens>> => Matched
  BY <1>g, UnseenWork
<1> HIDE DEF Matched
<1>1. ASSUME NEW t \in Thread, InsertUser(t) PROVE Matched
  BY <1>1, <1>g, InsertUserImplements DEF Matched
<1>2. ASSUME NEW t \in Thread, InsertWorkspace(t) PROVE Matched
  <2>1. PICK c, u : c = job[t].client /\ u = job[t].user
    OBVIOUS
  <2>2. c \in Client /\ u \in DOMAIN users /\ users[u].password = c
    BY <1>2, <2>1, JobKinds DEF TypeOK, OwnJob, JobsOK, JobOK, InsertWorkspace
  <2>3. Grant(c, u) /\ UNCHANGED <<users, projects, keys>>
    BY <1>2, <2>1 DEF InsertWorkspace
  <2> QED BY <1>g, <2>2, <2>3, SignInImplements DEF Matched
<1>3. ASSUME NEW t \in Thread, InsertProject(t) PROVE Matched
  BY <1>3, <1>g, CreateImplements DEF Matched
<1>4. ASSUME NEW t \in Thread, StampKey(t) PROVE Matched
  BY <1>4, <1>g, StampUnseen DEF Matched
<1>5. ASSUME NEW t \in Thread,
             \/ InsertSpareWorkspace(t) \/ ReadList(t) \/ Finish(t) \/ Die(t)
             \/ \E c \in Client, s \in Spelling : LookupEmail(t, c, s)
             \/ \E c \in Client, u \in DOMAIN users :
                  LookupWorkspace(t, c, u) \/ BeginList(t, c, u)
             \/ \E k \in DOMAIN keys, p \in DOMAIN projects : VerifyKey(t, k, p)
      PROVE  Matched
  BY <1>5, <1>u DEF InsertSpareWorkspace, ReadList, Finish, Die, LookupEmail, LookupWorkspace,
                    BeginList, VerifyKey
<1>6. ASSUME NEW c \in Client, NEW s \in Spelling, Login(c, s) PROVE Matched
  <2>1. PICK u \in DOMAIN users : users[u].password = c /\ Grant(c, u)
    BY <1>6 DEF Login, Registered
  <2> QED BY <1>6, <1>g, <2>1, SignInImplements DEF Matched, Login
<1>7. ASSUME NEW c \in Client, NEW u \in DOMAIN users, NEW p \in DOMAIN projects,
             UpdateProject(c, u, p)
      PROVE  Matched
  BY <1>7, <1>g, EditImplements DEF Matched
<1>8. ASSUME NEW c \in Client, NEW u \in DOMAIN users, NEW p \in DOMAIN projects,
             CreateKey(c, u, p)
      PROVE  Matched
  BY <1>8, <1>g, GiveOutImplements DEF Matched
<1>9. ASSUME NEW c \in Client, NEW u \in DOMAIN users, NEW p \in DOMAIN projects,
             NEW k \in DOMAIN keys, RevokeKey(c, u, p, k)
      PROVE  Matched
  BY <1>9, <1>g, WithdrawImplements DEF Matched
<1>10. ASSUME Restart PROVE Matched
  <2>1. CASE JwtSecretSet
    BY <1>10, <1>u, <2>1 DEF Restart
  <2>2. CASE ~JwtSecretSet
    <3>1. Owned' = Owned /\ Passes' = Passes
      BY <1>10, <1>g, Unseen DEF Restart
    <3>2. Promised!SignEverybodyOut
      BY <1>10, <2>2, <3>1 DEF Promised!SignEverybodyOut, Restart, Owned, Passes
    <3> QED BY <3>2 DEF Promised!Next, Matched
  <2> QED BY <2>1, <2>2
<1>11. ASSUME UNCHANGED vars PROVE Matched
  BY <1>11, <1>u DEF vars
<1>12. Matched
  BY <1>1, <1>2, <1>3, <1>4, <1>5, <1>6, <1>7, <1>8, <1>9, <1>10, <1>11 DEF Next, Work
<1> QED BY <1>12 DEF Matched

\* The tables under any interleaving of requests, deaths and restarts are the registry: no
\* second workspace, half-done signup or stamp of a key shows in whose accounts, projects
\* and keys they are, in who writes them, or in which keys are revoked.
THEOREM RegistryImplemented == Spec => ImplementsRegistry
<1>1. Init => Authorized /\ Promised!Init
  <2>1. Init => Authorized
    BY DEF Init, Authorized, Idle
  <2>2. ASSUME Init PROVE Promised!Init
    <3>1. DOMAIN projects = {} /\ DOMAIN keys = {}
      BY <2>2 DEF Init
    <3>2. Owned = <<>> /\ Passes = <<>>
      BY <3>1 DEF Owned, Passes
    <3> QED BY <2>2, <3>2 DEF Promised!Init, Init, Owned, Passes
  <2> QED BY <2>1, <2>2
<1>2. TypeOK /\ Authorized /\ [Next]_vars => Authorized'
  BY AuthorizedKept
<1>3. TypeOK /\ Rows /\ JobsOK /\ Authorized /\ [Next]_vars => [Promised!Next]_(Promised!vars)
  BY StepImplements
<1> QED BY <1>1, <1>2, <1>3, ThreadsKnow, PTL DEF Spec, ImplementsRegistry, Promised!Spec
=============================================================================
