---------------------------- MODULE AccessProofs ----------------------------
(***************************************************************************)
(* Proofs about Access for any users, requests, folders and failures.  The *)
(* inductive invariant AccessInv adds to the types what a request carries  *)
(* at each of its steps, and what a removal has left behind in the tables  *)
(* it has been through.  What a step may serve, and whose rows it may      *)
(* delete, follow; the second from a further invariant, that a user is in  *)
(* one table at most as long as nobody is added at a second level.         *)
(***************************************************************************)
EXTENDS Access, TLAPS
Request == [step : Steps, by : Users \cup {None}, who : Users \cup {None},
            level : Levels \cup {None}, path : Paths \cup {None},
            root : Paths \cup {None}, added : SUBSET Levels]

\* The types of the tables.
Tables ==
    /\ accounts \in [Users -> {0, 1}] /\ codes \in SUBSET Levels
    /\ member \in [Levels -> SUBSET {u \in Users : accounts[u] # 0}]
    /\ homes \in SUBSET {u \in Users : accounts[u] # 0}
    /\ folders \in SUBSET Paths /\ shares \in SUBSET (Paths \X Users)

\* What a request r carries at its step, the user table being a.
Carries(r, a) ==
    /\ r.step = "create user" => r.who \in Users
    /\ r.step \in {"join", "set up drive"} => r.who \in Users /\ a[r.who] # 0
    /\ r.step = "join" => r.level \in Levels
    /\ r.step = "delete member" => r.who \in Users /\ r.level \in Levels
    /\ r.step \in {"look up folder", "grant"} => r.who \in Users /\ r.path \in Paths
    /\ r.step = "check share" => r.who \in Users /\ r.root \in Paths /\ r.path \in Paths

\* The tables m that a removal r has been through hold the user only if added meanwhile.
LeftBehind(r, m) ==
    \A l \in Levels : r.who \in m[l] =>
        /\ r.step = "delete member" /\ l < r.level => l \in r.added
        /\ r.step = "removed" => l \in r.added

Sound(r, a, m) == r \in Request /\ Carries(r, a) /\ LeftBehind(r, m)
AccessInv == Tables /\ req = [q \in Requests |-> req[q]] /\ \A q \in Requests : Sound(req[q], accounts, member)

LEMMA StepNames == Steps = {"idle", "create user", "join", "set up drive", "delete member", "removed",
                            "look up folder", "grant", "revoke", "check share", "read"}
    BY DEF Steps, Registering, Removing, Sharing, Browsing

LEMMA LevelNumbers == Levels = {1, 2, 3} /\ Read = 1 /\ Write = 2 /\ Manager = 3 /\ Levels \subseteq Nat
    BY DEF Levels, Read, Write, Manager

\* The levels up to the one a removal has come to.
LEMMA LevelOrder ==
    ASSUME NEW l \in Levels, NEW k \in Levels
    PROVE  /\ k < l + 1 => k < l \/ k = l
           /\ l + 1 \notin Levels => k < l \/ k = l
<1>1. l \in {1, 2, 3} /\ k \in {1, 2, 3}  BY LevelNumbers
<1>2. k < l + 1 => k < l \/ k = l  BY <1>1
<1>3. ASSUME l + 1 \notin {1, 2, 3} PROVE k < l \/ k = l
  <2>1. l = 3  BY <1>1, <1>3
  <2> QED  BY <1>1, <2>1
<1> QED  BY <1>2, <1>3, LevelNumbers

LEMMA IdleSound == ASSUME NEW a, NEW m PROVE Sound(Idle, a, m)
    BY StepNames DEF Sound, Idle, Request, Carries, LeftBehind

\* A request stays sound while users are added and rows of members deleted.
LEMMA StaysSound ==
    ASSUME NEW r, NEW a, NEW b, NEW m, NEW n, Sound(r, a, m),
           \A u \in Users : a[u] # 0 => b[u] # 0,
           \A l \in Levels : n[l] \subseteq m[l]
    PROVE  Sound(r, b, n)
    BY DEF Sound, Carries, LeftBehind

\* A step that replaces one request, adds users and deletes rows of members.
LEMMA OneRequest ==
    ASSUME AccessInv, Tables', NEW q \in Requests, NEW r, Sound(r, accounts', member'),
           req' = [req EXCEPT ![q] = r],
           \A u \in Users : accounts[u] # 0 => accounts'[u] # 0,
           \A l \in Levels : member'[l] \subseteq member[l]
    PROVE  AccessInv'
<1>1. req' = [p \in Requests |-> IF p = q THEN r ELSE req[p]]  BY DEF AccessInv
<1>2. ASSUME NEW p \in Requests, p # q PROVE Sound(req[p], accounts', member')
  BY StaysSound DEF AccessInv
<1>3. \A p \in Requests : Sound(req'[p], accounts', member')
  BY <1>1, <1>2
<1> QED  BY <1>1, <1>3 DEF AccessInv

\* The same when the tables of users and members stay as they are.
LEMMA QuietRequest ==
    ASSUME AccessInv, UNCHANGED <<people, drive>>, NEW q \in Requests, NEW r,
           Sound(r, accounts, member), req' = [req EXCEPT ![q] = r]
    PROVE  AccessInv'
<1>1. Tables'  BY DEF AccessInv, Tables, people, drive
<1>2. accounts' = accounts /\ member' = member  BY DEF people, drive
<1> QED  BY <1>1, <1>2, OneRequest

LEMMA AccessInit == Init => AccessInv
<1> SUFFICES ASSUME Init PROVE AccessInv
  OBVIOUS
<1> USE AccessAssumption DEF Init
<1>1. accounts \in [Users -> {0, 1}] /\ codes \in SUBSET Levels  OBVIOUS
<1>2. member \in [Levels -> SUBSET {u \in Users : accounts[u] # 0}]  OBVIOUS
<1>3. homes \in SUBSET {u \in Users : accounts[u] # 0}  OBVIOUS
<1>4. folders \in SUBSET Paths /\ shares \in SUBSET (Paths \X Users)  OBVIOUS
<1>5. req = [q \in Requests |-> req[q]] /\ \A q \in Requests : Sound(req[q], accounts, member)
  BY IdleSound
<1> QED  BY <1>1, <1>2, <1>3, <1>4, <1>5 DEF AccessInv, Tables

-----------------------------------------------------------------------------
(* Requests that change no table *)

LEMMA ArrivesInv == ASSUME AccessInv, NEW q \in Requests, Arrives(q) PROVE AccessInv'
<1>1. ASSUME NEW u \in Users, NEW l \in Levels \cup {None}, Register(q, u, l) PROVE AccessInv'
  <2>1. PICK r : r = [Idle EXCEPT !.step = "create user", !.by = u, !.who = u, !.level = l]  OBVIOUS
  <2>2. Sound(r, accounts, member)  BY <2>1, StepNames DEF Sound, Idle, Request, Carries, LeftBehind
  <2> QED  BY <1>1, <2>1, <2>2, QuietRequest DEF Register
<1>2. ASSUME NEW by \in Users, NEW u \in Users, BeginRemove(q, by, u) PROVE AccessInv'
  <2>1. PICK r : r = [Idle EXCEPT !.step = "delete member", !.by = by, !.who = u, !.level = Read]  OBVIOUS
  <2>2. Sound(r, accounts, member)
    <3>1. r \in Request /\ Carries(r, accounts)
      BY <2>1, StepNames, LevelNumbers DEF Idle, Request, Carries
    <3>2. \A l \in Levels : ~(l < Read)  BY LevelNumbers
    <3>3. r.step = "delete member" /\ r.level = Read  BY <2>1 DEF Idle
    <3> QED  BY <3>1, <3>2, <3>3 DEF Sound, LeftBehind
  <2> QED  BY <1>2, <2>1, <2>2, QuietRequest DEF BeginRemove
<1>3. ASSUME NEW by \in Users, NEW u \in Users, NEW p \in Paths, NEW step \in {"look up folder", "revoke"},
             OnFolder(q, step, by, u, p)
      PROVE  AccessInv'
  <2>1. PICK r : r = [Idle EXCEPT !.step = step, !.who = u, !.path = p,
                                  !.by = IF step = "revoke" THEN None ELSE by]  OBVIOUS
  <2>2. Sound(r, accounts, member)  BY <2>1, StepNames DEF Sound, Idle, Request, Carries, LeftBehind
  <2> QED  BY <1>3, <2>1, <2>2, QuietRequest DEF OnFolder
<1>4. ASSUME NEW u \in Users, NEW p \in Paths, NEW r \in Paths,
             req' = [req EXCEPT ![q] = [Idle EXCEPT !.step = "check share", !.who = u, !.path = p, !.root = r]],
             UNCHANGED <<people, drive>>
      PROVE  AccessInv'
  <2>1. PICK s : s = [Idle EXCEPT !.step = "check share", !.who = u, !.path = p, !.root = r]  OBVIOUS
  <2>2. Sound(s, accounts, member)  BY <2>1, StepNames DEF Sound, Idle, Request, Carries, LeftBehind
  <2> QED  BY <1>4, <2>1, <2>2, QuietRequest
<1>5. \A u \in Users, root \in Paths, p \in Paths : Resolved(u, root, p) \subseteq Paths
  BY DEF Resolved, ExactRoot, RootsAbove
<1> QED  BY <1>1, <1>2, <1>3, <1>4, <1>5 DEF Arrives, BeginGrant, BeginRevoke, BeginList, BeginDownload

LEMMA ShareStepInv == ASSUME AccessInv, NEW q \in Requests, ShareStep(q) PROVE AccessInv'
<1>1. Sound(Idle, accounts, member)  BY IdleSound
<1>2. CASE LookUpFolder(q)
  <2>1. PICK r : r = [req[q] EXCEPT !.step = "grant", !.by = None]  OBVIOUS
  <2>2. Sound(r, accounts, member)
    BY <1>2, <2>1, StepNames DEF LookUpFolder, At, AccessInv, Sound, Request, Carries, LeftBehind
  <2>3. UNCHANGED <<people, drive>>  BY <1>2 DEF LookUpFolder
  <2>4. req' = [req EXCEPT ![q] = r] \/ req' = [req EXCEPT ![q] = Idle]
    BY <1>2, <2>1 DEF LookUpFolder, Answer, AccessInv
  <2> QED  BY <1>1, <2>2, <2>3, <2>4, QuietRequest
<1>3. CASE GrantSharedFolder(q) \/ RevokeSharedFolder(q)
  <2>1. shares' \in SUBSET (Paths \X Users)
    <3>1. shares \in SUBSET (Paths \X Users)  BY DEF AccessInv, Tables
    <3>2. CASE GrantSharedFolder(q)
      <4>1. req[q].path \in Paths /\ req[q].who \in Users
        BY <3>2 DEF GrantSharedFolder, At, AccessInv, Sound, Carries
      <4> QED  BY <3>1, <3>2, <4>1 DEF GrantSharedFolder
    <3>3. CASE RevokeSharedFolder(q)
      BY <3>1, <3>3 DEF RevokeSharedFolder
    <3> QED  BY <1>3, <3>2, <3>3
  <2>2. UNCHANGED <<people, member, folders>> /\ req' = [req EXCEPT ![q] = Idle]
    BY <1>3 DEF GrantSharedFolder, RevokeSharedFolder, Answer
  <2>3. Tables'  BY <2>1, <2>2 DEF AccessInv, Tables, people
  <2> QED  BY <2>2, <2>3, IdleSound, OneRequest DEF people
<1> QED  BY <1>2, <1>3 DEF ShareStep

LEMMA BrowseStepInv == ASSUME AccessInv, NEW q \in Requests, BrowseStep(q) PROVE AccessInv'
<1>1. PICK r : r = [req[q] EXCEPT !.step = "read", !.root = None]  OBVIOUS
<1>2. Sound(r, accounts, member)
  BY <1>1, StepNames DEF AccessInv, Sound, Request, Carries, LeftBehind
<1>3. UNCHANGED <<people, drive>>  BY DEF BrowseStep, CheckShare, Reply
<1>4. req' = [req EXCEPT ![q] = r] \/ req' = [req EXCEPT ![q] = Idle]
  BY <1>1 DEF BrowseStep, CheckShare, Reply, Answer, AccessInv
<1> QED  BY <1>2, <1>3, <1>4, IdleSound, QuietRequest

-----------------------------------------------------------------------------
(* Requests that change the tables *)

\* Rows inserted for a user: the removals of the user remember the level.
LEMMA JoinInv ==
    ASSUME AccessInv, NEW u \in Users, accounts[u] # 0, NEW l \in Levels, NEW rs,
           rs = [q \in Requests |-> rs[q]], \A q \in Requests : Sound(rs[q], accounts, member),
           Join(u, l, rs), UNCHANGED <<people, folders, shares>>
    PROVE  AccessInv'
<1>1. member' = [member EXCEPT ![l] = @ \cup {u}]  BY DEF Join
<1>2. Tables'  BY <1>1 DEF AccessInv, Tables, people
<1>3. \A q \in Requests : Sound(req'[q], accounts', member')
  <2> TAKE q \in Requests
  <2>1. accounts' = accounts  BY DEF people
  <2>2. Sound(rs[q], accounts, member)  OBVIOUS
  <2>3. CASE rs[q].step \in Removing /\ rs[q].who = u
    <3>1. req'[q] = [rs[q] EXCEPT !.added = @ \cup {l}]  BY <2>3 DEF Join
    <3>2. req'[q] \in Request /\ Carries(req'[q], accounts)
      <4>1. rs[q] \in Request /\ Carries(rs[q], accounts)  BY <2>2 DEF Sound
      <4>2. rs[q].added \cup {l} \in SUBSET Levels  BY <4>1 DEF Request
      <4>3. req'[q] \in Request  BY <3>1, <4>1, <4>2 DEF Request
      <4> QED  BY <3>1, <4>1, <4>3 DEF Request, Carries
    <3>3. /\ req'[q].step = rs[q].step /\ req'[q].level = rs[q].level /\ req'[q].who = u
          /\ req'[q].added = rs[q].added \cup {l}
      BY <2>2, <2>3, <3>1 DEF Sound, Request
    <3>4. LeftBehind(req'[q], member')
      BY <1>1, <2>2, <2>3, <3>3 DEF AccessInv, Tables, Sound, LeftBehind
    <3> QED  BY <2>1, <3>2, <3>4 DEF Sound
  <2>4. CASE ~(rs[q].step \in Removing /\ rs[q].who = u)
    <3>1. req'[q] = rs[q]  BY <2>4 DEF Join
    <3>2. LeftBehind(rs[q], member')
      BY <1>1, <2>2, <2>4 DEF AccessInv, Tables, Sound, LeftBehind, Removing
    <3> QED  BY <2>1, <2>2, <3>1, <3>2 DEF Sound
  <2> QED  BY <2>3, <2>4
<1>4. req' = [q \in Requests |-> req'[q]]  BY DEF Join
<1> QED  BY <1>2, <1>3, <1>4 DEF AccessInv

LEMMA RegisterStepInv == ASSUME AccessInv, NEW q \in Requests, RegisterStep(q) PROVE AccessInv'
<1> DEFINE u == req[q].who
<1>1. CASE CreateUser(q)
  <2>1. u \in Users  BY <1>1 DEF CreateUser, At, AccessInv, Sound, Carries
  <2>2. CASE Unique(u) /\ accounts' = [accounts EXCEPT ![u] = @ + 1]
             /\ Goto(q, IF req[q].level = None THEN "set up drive" ELSE "join")
    <3>1. accounts' \in [Users -> {0, 1}] /\ accounts'[u] = 1
          /\ \A v \in Users : accounts[v] # 0 => accounts'[v] # 0
      <4>1. accounts \in [Users -> {0, 1}]  BY DEF AccessInv, Tables
      <4>2. accounts[u] + 1 = 1
        <5>1. accounts[u] = 0  BY <2>2 DEF Unique
        <5> QED  BY <5>1
      <4>3. accounts' = [accounts EXCEPT ![u] = 1]  BY <2>2, <4>2
      <4> QED  BY <2>1, <4>1, <4>3
    <3>2. Tables'
      BY <1>1, <3>1 DEF CreateUser, AccessInv, Tables, drive
    <3>3. PICK r : r = [req[q] EXCEPT !.step = IF req[q].level = None THEN "set up drive" ELSE "join"]
      OBVIOUS
    <3>4. Sound(r, accounts', member')
      <4>1. r \in Request /\ r.who = u /\ r.level = req[q].level
            /\ r.step = IF req[q].level = None THEN "set up drive" ELSE "join"
        BY <3>3, StepNames DEF AccessInv, Sound, Request
      <4>2. r.step = "join" => r.level \in Levels  BY <4>1 DEF Request
      <4>3. r.step \in {"join", "set up drive"}  BY <4>1
      <4>4. Carries(r, accounts')
        <5>1. r.who \in Users /\ accounts'[r.who] # 0
          <6>1. r.who = u /\ accounts'[u] = 1  BY <3>1, <4>1
          <6> QED  BY <2>1, <6>1
        <5> QED  BY <4>2, <4>3, <5>1 DEF Carries
      <4>5. LeftBehind(r, member')  BY <4>3 DEF LeftBehind
      <4> QED  BY <4>1, <4>4, <4>5 DEF Sound
    <3>5. req' = [req EXCEPT ![q] = r]  BY <2>2, <3>3 DEF Goto, AccessInv
    <3>6. member' = member  BY <1>1 DEF CreateUser, drive
    <3> QED  BY <3>1, <3>2, <3>4, <3>5, <3>6, OneRequest
  <2>3. CASE Answer(q) /\ UNCHANGED accounts
    BY <1>1, <2>3, IdleSound, QuietRequest DEF CreateUser, Answer, people
  <2> QED  BY <1>1, <2>2, <2>3 DEF CreateUser
<1>2. CASE JoinInvited(q)
  <2>1. u \in Users /\ accounts[u] # 0 /\ req[q].level \in Levels
    BY <1>2 DEF JoinInvited, At, AccessInv, Sound, Carries
  <2>2. CASE Join(u, req[q].level, [req EXCEPT ![q] = Idle])
    <3>1. PICK rs : rs = [req EXCEPT ![q] = Idle]  OBVIOUS
    <3>2. rs = [p \in Requests |-> rs[p]] /\ \A p \in Requests : Sound(rs[p], accounts, member)
      BY <3>1, IdleSound DEF AccessInv
    <3> QED  BY <1>2, <2>1, <2>2, <3>1, <3>2, JoinInv DEF JoinInvited
  <2>3. CASE Answer(q) /\ UNCHANGED member
    BY <1>2, <2>3, IdleSound, QuietRequest DEF JoinInvited, Answer, drive
  <2> QED  BY <1>2, <2>2, <2>3 DEF JoinInvited
<1>3. CASE SetupNewDrive(q)
  <2>1. u \in Users /\ accounts[u] # 0  BY <1>3 DEF SetupNewDrive, At, AccessInv, Sound, Carries
  <2>2. Tables'  BY <1>3, <2>1 DEF SetupNewDrive, AccessInv, Tables, drive
  <2> QED  BY <1>3, <2>2, IdleSound, OneRequest DEF SetupNewDrive, Answer, drive
<1> QED  BY <1>1, <1>2, <1>3 DEF RegisterStep

LEMMA DeleteMemberInv == ASSUME AccessInv, NEW q \in Requests, DeleteMember(q) PROVE AccessInv'
<1> DEFINE u == req[q].who
           l == req[q].level
<1>1. /\ req[q] \in Request /\ u \in Users /\ l \in Levels
      /\ req[q].step = "delete member" /\ LeftBehind(req[q], member)
  BY DEF DeleteMember, At, AccessInv, Sound, Carries
<1>2. UNCHANGED <<people, folders, shares>>  BY DEF DeleteMember
<1>3. CASE member' = [member EXCEPT ![l] = @ \ {u}]
  <2>1. Tables'  BY <1>1, <1>2, <1>3 DEF AccessInv, Tables, people
  <2>2. /\ \A k \in Levels : member'[k] = IF k = l THEN member[l] \ {u} ELSE member[k]
        /\ \A k \in Levels : member'[k] \subseteq member[k]
    BY <1>1, <1>3 DEF AccessInv, Tables
  <2>3. CASE l + 1 \in Levels /\ req' = [req EXCEPT ![q].level = l + 1]
    <3>1. PICK r : r = [req[q] EXCEPT !.level = l + 1]  OBVIOUS
    <3>2. /\ r \in Request /\ r.who = u /\ r.level = l + 1
          /\ r.step = "delete member" /\ r.added = req[q].added
      BY <1>1, <2>3, <3>1 DEF Request
    <3>3. \A k \in Levels : k < l + 1 => k < l \/ k = l
      <4>1. l \in Levels  BY <1>1
      <4> HIDE DEF l
      <4> QED  BY <4>1, LevelOrder
    <3>4. LeftBehind(r, member')  BY <1>1, <2>2, <3>2, <3>3 DEF LeftBehind
    <3>5. Sound(r, accounts', member')  BY <1>1, <2>3, <3>2, <3>4 DEF Sound, Carries
    <3>6. req' = [req EXCEPT ![q] = r]  BY <2>3, <3>1 DEF AccessInv
    <3> QED  BY <1>2, <2>1, <2>2, <3>5, <3>6, OneRequest DEF people
  <2>4. CASE l + 1 \notin Levels /\ req' = [req EXCEPT ![q].step = "removed", ![q].level = None, ![q].by = None]
    <3>1. PICK r : r = [req[q] EXCEPT !.step = "removed", !.level = None, !.by = None]  OBVIOUS
    <3>2. /\ r \in Request /\ r.who = u /\ r.step = "removed" /\ r.added = req[q].added
      BY <1>1, <3>1, StepNames DEF Request
    <3>3. \A k \in Levels : k < l \/ k = l
      <4>1. l \in Levels /\ l + 1 \notin Levels  BY <1>1, <2>4
      <4> HIDE DEF l
      <4> QED  BY <4>1, LevelOrder
    <3>4. LeftBehind(r, member')  BY <1>1, <2>2, <3>2, <3>3 DEF LeftBehind
    <3>5. Sound(r, accounts', member')  BY <3>2, <3>4 DEF Sound, Carries
    <3>6. req' = [req EXCEPT ![q] = r]  BY <2>4, <3>1 DEF AccessInv
    <3> QED  BY <1>2, <2>1, <2>2, <3>5, <3>6, OneRequest DEF people
  <2>5. CASE Answer(q) /\ UNCHANGED member
    BY <1>2, <2>5, IdleSound, QuietRequest DEF Answer, drive
  <2> QED  BY <1>3, <2>3, <2>4, <2>5 DEF DeleteMember, Cleared
<1>4. CASE Answer(q) /\ UNCHANGED member
  BY <1>2, <1>4, IdleSound, QuietRequest DEF Answer, drive
<1> QED  BY <1>3, <1>4 DEF DeleteMember

-----------------------------------------------------------------------------
(* The invariant *)

\* A step that changes neither requests nor users nor members.
LEMMA OtherTables ==
    ASSUME AccessInv, Tables', UNCHANGED <<accounts, member, req>>
    PROVE  AccessInv'
    BY DEF AccessInv

LEMMA AccessStep == AccessInv /\ [Next]_vars => AccessInv'
<1> SUFFICES ASSUME AccessInv, [Next]_vars PROVE AccessInv'
  OBVIOUS
<1>1. ASSUME NEW q \in Requests,
             Arrives(q) \/ RegisterStep(q) \/ DeleteMember(q) \/ ShareStep(q) \/ BrowseStep(q)
      PROVE  AccessInv'
  BY <1>1, ArrivesInv, RegisterStepInv, DeleteMemberInv, ShareStepInv, BrowseStepInv
<1>2. ASSUME NEW u \in Users, NEW l \in Levels, Invite(u, l) PROVE AccessInv'
  <2>1. Tables'  BY <1>2 DEF Invite, AccessInv, Tables, drive
  <2> QED  BY <1>2, <2>1, OtherTables DEF Invite, drive
<1>3. ASSUME NEW u \in Users, NEW l \in Levels, Add(u, l) PROVE AccessInv'
  <2>1. req = [q \in Requests |-> req[q]] /\ \A q \in Requests : Sound(req[q], accounts, member)
    BY DEF AccessInv
  <2> QED  BY <1>3, <2>1, JoinInv DEF Add
<1>4. ASSUME NEW l \in Levels, CodeExpires(l) PROVE AccessInv'
  <2>1. Tables'  BY <1>4 DEF CodeExpires, AccessInv, Tables, drive
  <2> QED  BY <1>4, <2>1, OtherTables DEF CodeExpires, drive
<1>5. ASSUME NEW p \in Paths, MakeFolder(p) \/ DropFolder(p) PROVE AccessInv'
  <2>1. Tables'  BY <1>5 DEF MakeFolder, DropFolder, AccessInv, Tables, people
  <2> QED  BY <1>5, <2>1, OtherTables DEF MakeFolder, DropFolder, people
<1>6. CASE UNCHANGED vars
  <2>1. Tables'  BY <1>6 DEF vars, AccessInv, Tables
  <2> QED  BY <1>6, <2>1, OtherTables DEF vars
<1> QED  BY <1>1, <1>2, <1>3, <1>4, <1>5, <1>6 DEF Next

LEMMA AccessInvariant == Spec => []AccessInv
    BY AccessInit, AccessStep, PTL DEF Spec

\* Whatever fails and however requests run into each other, an account has one row,
\* only accounts are members or own drives, and requests carry what their steps need.
THEOREM TypeCorrect == Spec => []TypeOK
<1>1. AccessInv => TypeOK
  <2> SUFFICES ASSUME AccessInv PROVE TypeOK
    OBVIOUS
  <2>1. req \in [Requests -> Request]  BY DEF AccessInv, Sound
  <2> QED  BY <2>1 DEF AccessInv, Tables, TypeOK, Request
<1> QED  BY <1>1, AccessInvariant, PTL

\* A removal that got through all three tables leaves no row of the user but those
\* inserted while it ran, for any number of requests at once.
THEOREM RemovalsAreComplete == Spec => []RemovalIsComplete
<1>1. AccessInv => RemovalIsComplete
  BY DEF AccessInv, Sound, LeftBehind, RemovalIsComplete, At
<1> QED  BY <1>1, AccessInvariant, PTL

-----------------------------------------------------------------------------
(* What a step may serve, and whose rows it may delete *)

\* No request comes to be served by this step.
ServesNothing == \A q \in Requests : req[q].step # "read" => req'[q].step # "read"

\* The step replaces one request, and does not let it through.
LEMMA NotServed ==
    ASSUME AccessInv, NEW q \in Requests, NEW r, r.step # "read",
           req' = [req EXCEPT ![q] = r]
    PROVE  ServesNothing
    BY DEF AccessInv, ServesNothing

LEMMA ArrivesServesNothing ==
    ASSUME AccessInv, NEW q \in Requests, Arrives(q) PROVE ServesNothing
<1>1. ASSUME NEW u \in Users, NEW l \in Levels \cup {None}, Register(q, u, l) PROVE ServesNothing
  BY <1>1 DEF Register, Idle, AccessInv, ServesNothing
<1>2. ASSUME NEW by \in Users, NEW u \in Users, BeginRemove(q, by, u) PROVE ServesNothing
  BY <1>2 DEF BeginRemove, Idle, AccessInv, ServesNothing
<1>3. ASSUME NEW by \in Users, NEW u \in Users, NEW p \in Paths, NEW step \in {"look up folder", "revoke"},
             OnFolder(q, step, by, u, p)
      PROVE  ServesNothing
  BY <1>3 DEF OnFolder, Idle, AccessInv, ServesNothing
<1>4. ASSUME NEW u \in Users, NEW p \in Paths, NEW r,
             req' = [req EXCEPT ![q] = [Idle EXCEPT !.step = "check share", !.who = u, !.path = p, !.root = r]]
      PROVE  ServesNothing
  BY <1>4 DEF Idle, AccessInv, ServesNothing
<1> QED  BY <1>1, <1>2, <1>3, <1>4 DEF Arrives, BeginGrant, BeginRevoke, BeginList, BeginDownload

LEMMA JoinServesNothing ==
    ASSUME NEW u, NEW l, NEW rs, Join(u, l, rs), \A q \in Requests : rs[q] \in Request,
           \A q \in Requests : req[q].step # "read" => rs[q].step # "read"
    PROVE  ServesNothing
<1> SUFFICES ASSUME NEW q \in Requests, req[q].step # "read" PROVE req'[q].step # "read"
  BY DEF ServesNothing
<1>1. req'[q] = rs[q] \/ req'[q] = [rs[q] EXCEPT !.added = @ \cup {l}]  BY DEF Join
<1> QED  BY <1>1 DEF Request

LEMMA StepsServeNothing ==
    ASSUME AccessInv, NEW q \in Requests,
           RegisterStep(q) \/ DeleteMember(q) \/ ShareStep(q) \/ Reply(q)
    PROVE  ServesNothing
<1> USE DEF AccessInv, Sound, Request
<1>1. ASSUME Answer(q) PROVE ServesNothing
  BY <1>1 DEF Answer, Idle, ServesNothing
<1>2. ASSUME NEW step, step # "read", Goto(q, step) PROVE ServesNothing
  BY <1>2 DEF Goto, ServesNothing
<1>3. CASE CreateUser(q)
  BY <1>1, <1>2, <1>3 DEF CreateUser
<1>4. CASE JoinInvited(q)
  <2>1. CASE Join(req[q].who, req[q].level, [req EXCEPT ![q] = Idle])
    <3>1. PICK rs : rs = [req EXCEPT ![q] = Idle]  OBVIOUS
    <3>2. Sound(Idle, accounts, member)  BY IdleSound
    <3>3. \A p \in Requests : rs[p] \in Request /\ (req[p].step # "read" => rs[p].step # "read")
      BY <3>1, <3>2 DEF Idle
    <3> QED  BY <2>1, <3>1, <3>3, JoinServesNothing
  <2> QED  BY <1>1, <1>4, <2>1 DEF JoinInvited
<1>5. CASE SetupNewDrive(q)
  BY <1>1, <1>5 DEF SetupNewDrive
<1>6. CASE DeleteMember(q)
  <2>1. ASSUME req' = [req EXCEPT ![q].level = req[q].level + 1] PROVE ServesNothing
    BY <2>1 DEF ServesNothing
  <2>2. ASSUME req' = [req EXCEPT ![q].step = "removed", ![q].level = None, ![q].by = None]
        PROVE  ServesNothing
    BY <2>2 DEF ServesNothing
  <2> QED  BY <1>1, <1>6, <2>1, <2>2 DEF DeleteMember
<1>7. CASE ShareStep(q)
  BY <1>1, <1>7 DEF ShareStep, LookUpFolder, GrantSharedFolder, RevokeSharedFolder, ServesNothing
<1>8. CASE Reply(q)
  BY <1>1, <1>8 DEF Reply
<1> QED  BY <1>3, <1>4, <1>5, <1>6, <1>7, <1>8 DEF RegisterStep

\* A request is served only under a share that is there, above the folder asked for:
\* one that was let in before the share was revoked is turned away.
THEOREM SharesAreChecked == Spec => ServedIsShared
<1> DEFINE Served == \A q \in Requests : req[q].step # "read" /\ req'[q].step = "read"
                                           => RootsAbove(req[q].who, req[q].path) # {}
<1>1. AccessInv /\ [Next]_vars => [Served]_vars
  <2> SUFFICES ASSUME AccessInv, Next PROVE Served
    OBVIOUS
  <2>1. ServesNothing => Served  BY DEF ServesNothing
  <2>2. ASSUME NEW q \in Requests, CheckShare(q) PROVE Served
    <3>1. req[q].who \in Users /\ req[q].root \in Paths
      BY <2>2 DEF CheckShare, At, AccessInv, Sound, Carries
    <3>2. CASE StillShared(q) /\ Within(req[q].root, req[q].path)
      <4>1. RootsAbove(req[q].who, req[q].path) # {}
        BY <3>1, <3>2 DEF StillShared, RootsAbove
      <4>2. \A p \in Requests : p # q => req'[p] = req[p]
        BY <2>2, <3>2 DEF CheckShare, AccessInv
      <4> QED  BY <4>1, <4>2
    <3>3. CASE Answer(q)
      BY <3>3, IdleSound, NotServed, <2>1 DEF Answer, Idle
    <3> QED  BY <2>2, <3>2, <3>3 DEF CheckShare
  <2>3. ASSUME NEW q \in Requests,
               Arrives(q) \/ RegisterStep(q) \/ DeleteMember(q) \/ ShareStep(q) \/ Reply(q)
        PROVE  Served
    BY <2>1, <2>3, ArrivesServesNothing, StepsServeNothing
  <2>4. ASSUME NEW u \in Users, NEW l \in Levels, Add(u, l) PROVE Served
    <3>1. \A q \in Requests : req[q] \in Request  BY DEF AccessInv, Sound
    <3> QED  BY <2>1, <2>4, <3>1, JoinServesNothing DEF Add
  <2>5. ASSUME UNCHANGED req PROVE Served
    BY <2>5
  <2> QED
    BY <2>2, <2>3, <2>4, <2>5 DEF Next, BrowseStep, Invite, CodeExpires, MakeFolder, DropFolder
<1> QED  BY <1>1, AccessInvariant, PTL DEF Spec, ServedIsShared

-----------------------------------------------------------------------------
(* Managers *)

\* A user whose registration is about to enter them into a table is in none.
Newcomer(r, m) == r.step = "join" => \A l \in Levels : r.who \notin m[l]
\* A removal under way is the owner's, or finds a manager only if added meanwhile.
Entitled(r, m) ==
    r.step = "delete member" => r.by = Owner \/ r.who \notin m[Manager] \/ Manager \in r.added
OneTable(m)  == \A u \in Users, l, k \in Levels : u \in m[l] /\ u \in m[k] => l = k
\* No user is registered by two requests.
Distinct(rs) == \A p, q \in Requests :
    p # q /\ rs[p].step = "join" /\ rs[q].step = "join" => rs[p].who # rs[q].who

MemberInv ==
    /\ AccessInv /\ OneTable(member) /\ Distinct(req)
    /\ \A q \in Requests : Newcomer(req[q], member) /\ Entitled(req[q], member)

LEMMA ManagerLevel == Manager \in Levels
    BY LevelNumbers

\* A step that replaces one request and deletes rows of members at most.
LEMMA MembersLeave ==
    ASSUME MemberInv, AccessInv', NEW q \in Requests, NEW r,
           r.step # "join", Entitled(r, member), req' = [req EXCEPT ![q] = r],
           \A l \in Levels : member'[l] \subseteq member[l]
    PROVE  MemberInv'
<1>1. \A p \in Requests : req'[p] = IF p = q THEN r ELSE req[p]
  BY DEF MemberInv, AccessInv
<1>2. OneTable(member')  BY DEF MemberInv, OneTable
<1>3. Distinct(req')  BY <1>1 DEF MemberInv, Distinct
<1>4. \A p \in Requests : Newcomer(req'[p], member')  BY <1>1 DEF MemberInv, Newcomer
<1>5. \A p \in Requests : Entitled(req'[p], member')  BY <1>1, ManagerLevel DEF MemberInv, Entitled
<1> QED  BY <1>2, <1>3, <1>4, <1>5 DEF MemberInv

\* The same for a step that is not a removal either, and leaves members alone.
LEMMA MembersStay ==
    ASSUME MemberInv, AccessInv', NEW q \in Requests, NEW r,
           r.step \notin {"join", "delete member"}, req' = [req EXCEPT ![q] = r],
           UNCHANGED member
    PROVE  MemberInv'
    BY MembersLeave DEF Entitled

\* A user in no table is entered into one.
LEMMA MemberJoins ==
    ASSUME MemberInv, AccessInv', NEW u \in Users, NEW l \in Levels, NEW rs, Join(u, l, rs),
           \A p \in Requests : rs[p] = req[p] \/ rs[p] = Idle,
           \A k \in Levels : u \notin member[k],
           \A p \in Requests : rs[p].step = "join" => rs[p].who # u
    PROVE  MemberInv'
<1>1. \A k \in Levels : member'[k] = IF k = l THEN member[k] \cup {u} ELSE member[k]
  BY DEF Join, MemberInv, AccessInv, Tables
<1>2. OneTable(member')
  <2> SUFFICES ASSUME NEW v \in Users, NEW j \in Levels, NEW k \in Levels, v \in member'[j], v \in member'[k]
               PROVE  j = k
    BY DEF OneTable
  <2>1. CASE v = u  BY <1>1, <2>1
  <2>2. CASE v # u
    <3>1. v \in member[j] /\ v \in member[k]  BY <1>1, <2>2
    <3> QED  BY <3>1 DEF MemberInv, OneTable
  <2> QED  BY <2>1, <2>2
<1>3. \A p \in Requests :
        /\ req'[p].step = rs[p].step /\ req'[p].who = rs[p].who /\ req'[p].by = rs[p].by
        /\ rs[p].added \subseteq req'[p].added
        /\ rs[p].step = "delete member" /\ rs[p].who = u => l \in req'[p].added
  <2> TAKE p \in Requests
  <2>1. rs[p] \in Request
    <3>1. Sound(Idle, accounts, member)  BY IdleSound
    <3> QED  BY <3>1 DEF MemberInv, AccessInv, Sound
  <2>2. CASE rs[p].step \in Removing /\ rs[p].who = u
    <3>1. req'[p] = [rs[p] EXCEPT !.added = @ \cup {l}]  BY <2>2 DEF Join
    <3> QED  BY <2>1, <3>1 DEF Request
  <2>3. CASE ~(rs[p].step \in Removing /\ rs[p].who = u)
    <3>1. req'[p] = rs[p]  BY <2>3 DEF Join
    <3> QED  BY <2>3, <3>1 DEF Removing
  <2> QED  BY <2>2, <2>3
<1>4. \A p \in Requests : rs[p] # Idle => rs[p] = req[p]  OBVIOUS
<1>5. Idle.step = "idle"  BY DEF Idle
<1>6. ASSUME NEW p \in Requests, req'[p].step = "join"
      PROVE  req[p].step = "join" /\ req'[p].who = req[p].who /\ req[p].who # u
  <2>1. rs[p].step = "join"  BY <1>3, <1>6
  <2>2. rs[p] = req[p]  BY <1>4, <1>5, <2>1
  <2> QED  BY <1>3, <2>1, <2>2
<1>7. Distinct(req')  BY <1>6 DEF MemberInv, Distinct
<1>8. \A p \in Requests : Newcomer(req'[p], member')
  BY <1>1, <1>6 DEF MemberInv, Newcomer
<1>9. \A p \in Requests : Entitled(req'[p], member')
  <2> SUFFICES ASSUME NEW p \in Requests, req'[p].step = "delete member",
                      req'[p].by # Owner, req'[p].who \in member'[Manager]
               PROVE  Manager \in req'[p].added
    BY DEF Entitled
  <2>1. rs[p] = req[p] /\ rs[p].step = "delete member"  BY <1>3, <1>4, <1>5
  <2>2. CASE req'[p].who \in member[Manager]
    BY <1>3, <2>1, <2>2 DEF MemberInv, Entitled
  <2>3. CASE req'[p].who \notin member[Manager]
    <3>1. l = Manager /\ req'[p].who = u  BY <1>1, <2>3, ManagerLevel
    <3> QED  BY <1>3, <2>1, <3>1
  <2> QED  BY <2>2, <2>3
<1> QED  BY <1>2, <1>7, <1>8, <1>9 DEF MemberInv

\* Who may remove a user that is a manager and nothing else owns the drive.
LEMMA OwnerRemoves ==
    ASSUME OneTable(member), NEW u \in Users, NEW by, MayRemove(by, u), u \in member[Manager]
    PROVE  by = Owner
<1>1. TablesOf(u) = {Manager}  BY ManagerLevel DEF OneTable, TablesOf
<1>2. Min({Manager}) = Manager  BY LevelNumbers DEF Min
<1> QED  BY <1>1, <1>2 DEF MayRemove, Level

LEMMA ArrivesMembers ==
    ASSUME MemberInv, AccessInv', NEW q \in Requests, Arrives(q) PROVE MemberInv'
<1>1. ASSUME NEW u \in Users, NEW l \in Levels \cup {None}, Register(q, u, l) PROVE MemberInv'
  BY <1>1, MembersStay DEF Register, Idle, drive
<1>2. ASSUME NEW by \in Users, NEW u \in Users, BeginRemove(q, by, u) PROVE MemberInv'
  <2>1. PICK r : r = [Idle EXCEPT !.step = "delete member", !.by = by, !.who = u, !.level = Read]  OBVIOUS
  <2>2. r.step = "delete member" /\ r.by = by /\ r.who = u  BY <2>1 DEF Idle
  <2>3. Entitled(r, member)
    BY <1>2, <2>2, OwnerRemoves DEF BeginRemove, MemberInv, Entitled
  <2> QED  BY <1>2, <2>1, <2>2, <2>3, MembersLeave DEF BeginRemove, drive
<1>3. ASSUME NEW by \in Users, NEW u \in Users, NEW p \in Paths, NEW step \in {"look up folder", "revoke"},
             OnFolder(q, step, by, u, p)
      PROVE  MemberInv'
  <2>1. PICK r : r = [Idle EXCEPT !.step = step, !.who = u, !.path = p,
                                  !.by = IF step = "revoke" THEN None ELSE by]  OBVIOUS
  <2>2. r.step = step  BY <2>1 DEF Idle
  <2> QED  BY <1>3, <2>1, <2>2, MembersStay DEF OnFolder, drive
<1>4. ASSUME NEW u \in Users, NEW p \in Paths, NEW r,
             req' = [req EXCEPT ![q] = [Idle EXCEPT !.step = "check share", !.who = u, !.path = p, !.root = r]],
             UNCHANGED <<people, drive>>
      PROVE  MemberInv'
  BY <1>4, MembersStay DEF Idle, drive
<1> QED  BY <1>1, <1>2, <1>3, <1>4 DEF Arrives, BeginGrant, BeginRevoke, BeginList, BeginDownload

LEMMA StepsMembers ==
    ASSUME MemberInv, AccessInv', NEW q \in Requests,
           RegisterStep(q) \/ DeleteMember(q) \/ ShareStep(q) \/ BrowseStep(q)
    PROVE  MemberInv'
<1> USE DEF AccessInv, Sound, Request
<1>1. ASSUME Answer(q), UNCHANGED member PROVE MemberInv'
  BY <1>1, MembersStay DEF Answer, Idle
<1>2. CASE CreateUser(q)
  <2>1. CASE Unique(req[q].who) /\ Goto(q, "join")
    <3> DEFINE u == req[q].who
    <3>1. u \in Users /\ req[q].step = "create user"
      BY <1>2 DEF CreateUser, At, MemberInv, Carries
    <3>2. \A l \in Levels : u \notin member[l]
      BY <2>1, <3>1 DEF Unique, MemberInv, Tables
    <3>3. \A p \in Requests : req[p].step = "join" => req[p].who # u
      BY <2>1 DEF Unique, MemberInv, Carries
    <3>4. PICK r : r = [req[q] EXCEPT !.step = "join"]  OBVIOUS
    <3>5. r.step = "join" /\ r.who = u  BY <3>4 DEF MemberInv
    <3>6. \A p \in Requests : req'[p] = IF p = q THEN r ELSE req[p]
      BY <2>1, <3>4 DEF Goto, MemberInv
    <3>7. member' = member  BY <1>2 DEF CreateUser, drive
    <3>8. Distinct(req')  BY <3>3, <3>5, <3>6 DEF MemberInv, Distinct
    <3>9. \A p \in Requests : Newcomer(req'[p], member') /\ Entitled(req'[p], member')
      BY <3>2, <3>5, <3>6, <3>7 DEF MemberInv, Newcomer, Entitled
    <3> QED  BY <3>7, <3>8, <3>9 DEF MemberInv
  <2>2. CASE Goto(q, "set up drive")
    <3>1. PICK r : r = [req[q] EXCEPT !.step = "set up drive"]  OBVIOUS
    <3>2. r.step = "set up drive" /\ req' = [req EXCEPT ![q] = r]
      BY <2>2, <3>1 DEF Goto, MemberInv
    <3> QED  BY <1>2, <3>2, MembersStay DEF CreateUser, drive
  <2>3. CASE Answer(q)
    BY <1>1, <1>2, <2>3 DEF CreateUser, drive
  <2> QED  BY <1>2, <2>1, <2>2, <2>3 DEF CreateUser
<1>3. CASE JoinInvited(q)
  <2>1. CASE Join(req[q].who, req[q].level, [req EXCEPT ![q] = Idle])
    <3>1. PICK rs : rs = [req EXCEPT ![q] = Idle]  OBVIOUS
    <3>2. req[q].step = "join" /\ req[q].who \in Users /\ req[q].level \in Levels
      BY <1>3 DEF JoinInvited, At, MemberInv, Carries
    <3>3. \A p \in Requests : rs[p] = IF p = q THEN Idle ELSE req[p]  BY <3>1 DEF MemberInv
    <3>4. \A p \in Requests : rs[p].step = "join" => rs[p].who # req[q].who
      BY <3>2, <3>3 DEF MemberInv, Distinct, Idle
    <3>5. \A k \in Levels : req[q].who \notin member[k]
      BY <3>2 DEF MemberInv, Newcomer
    <3>6. Join(req[q].who, req[q].level, rs)  BY <2>1, <3>1
    <3> QED  BY <3>2, <3>3, <3>4, <3>5, <3>6, MemberJoins
  <2> QED  BY <1>1, <1>3, <2>1 DEF JoinInvited
<1>4. CASE SetupNewDrive(q)
  BY <1>1, <1>4 DEF SetupNewDrive, drive
<1>5. CASE DeleteMember(q)
  <2>1. ASSUME NEW l \in Levels, member' = [member EXCEPT ![l] = @ \ {req[q].who}]
        PROVE  \A k \in Levels : member'[k] \subseteq member[k]
    BY <2>1 DEF MemberInv, Tables
  <2>2. req[q].step = "delete member" /\ req[q].level \in Levels
    BY <1>5 DEF DeleteMember, At, MemberInv, Carries
  <2>3. ASSUME req' = [req EXCEPT ![q].level = req[q].level + 1],
               \A k \in Levels : member'[k] \subseteq member[k]
        PROVE  MemberInv'
    <3>1. PICK r : r = [req[q] EXCEPT !.level = req[q].level + 1]  OBVIOUS
    <3>2. /\ r.step = "delete member" /\ r.by = req[q].by /\ r.who = req[q].who
          /\ r.added = req[q].added
      BY <2>2, <3>1 DEF MemberInv
    <3>3. Entitled(r, member)  BY <2>2, <3>2 DEF MemberInv, Entitled
    <3>4. req' = [req EXCEPT ![q] = r]  BY <2>3, <3>1 DEF MemberInv
    <3> QED  BY <2>3, <3>2, <3>3, <3>4, MembersLeave
  <2>4. ASSUME req' = [req EXCEPT ![q].step = "removed", ![q].level = None, ![q].by = None],
               \A k \in Levels : member'[k] \subseteq member[k]
        PROVE  MemberInv'
    <3>1. PICK r : r = [req[q] EXCEPT !.step = "removed", !.level = None, !.by = None]  OBVIOUS
    <3>2. r.step = "removed"  BY <3>1 DEF MemberInv
    <3>3. Entitled(r, member)  BY <3>2 DEF Entitled
    <3>4. req' = [req EXCEPT ![q] = r]  BY <2>4, <3>1 DEF MemberInv
    <3> QED  BY <2>4, <3>2, <3>3, <3>4, MembersLeave
  <2> QED  BY <1>1, <1>5, <2>1, <2>2, <2>3, <2>4 DEF DeleteMember
<1>6. CASE ShareStep(q)
  <2>1. UNCHANGED member  BY <1>6 DEF ShareStep, LookUpFolder, GrantSharedFolder, RevokeSharedFolder, drive
  <2>2. PICK r : r = [req[q] EXCEPT !.step = "grant", !.by = None]  OBVIOUS
  <2>3. r.step = "grant"  BY <2>2 DEF MemberInv
  <2>4. Answer(q) \/ req' = [req EXCEPT ![q] = r]
    BY <1>6, <2>2 DEF ShareStep, LookUpFolder, GrantSharedFolder, RevokeSharedFolder, MemberInv
  <2> QED  BY <1>1, <2>1, <2>3, <2>4, MembersStay
<1>7. CASE BrowseStep(q)
  <2>1. UNCHANGED member  BY <1>7 DEF BrowseStep, CheckShare, Reply, drive
  <2>2. PICK r : r = [req[q] EXCEPT !.step = "read", !.root = None]  OBVIOUS
  <2>3. r.step = "read"  BY <2>2 DEF MemberInv
  <2>4. Answer(q) \/ req' = [req EXCEPT ![q] = r]
    BY <1>7, <2>2 DEF BrowseStep, CheckShare, Reply, MemberInv
  <2> QED  BY <1>1, <2>1, <2>3, <2>4, MembersStay
<1> QED  BY <1>2, <1>3, <1>4, <1>5, <1>6, <1>7 DEF RegisterStep

LEMMA MemberInit == Init => MemberInv
<1> SUFFICES ASSUME Init PROVE MemberInv
  OBVIOUS
<1>1. AccessInv  BY AccessInit
<1>2. \A q \in Requests : req[q].step = "idle"  BY DEF Init, Idle
<1>3. OneTable(member)  BY DEF Init, OneTable
<1>4. Distinct(req) /\ \A q \in Requests : Newcomer(req[q], member) /\ Entitled(req[q], member)
  BY <1>2 DEF Distinct, Newcomer, Entitled
<1> QED  BY <1>1, <1>3, <1>4 DEF MemberInv

LEMMA MemberStep == Regrants = "none" /\ MemberInv /\ [Next]_vars => MemberInv'
<1> SUFFICES ASSUME Regrants = "none", MemberInv, [Next]_vars PROVE MemberInv'
  OBVIOUS
<1>1. AccessInv'  BY AccessStep DEF MemberInv
<1>2. ASSUME NEW q \in Requests,
             Arrives(q) \/ RegisterStep(q) \/ DeleteMember(q) \/ ShareStep(q) \/ BrowseStep(q)
      PROVE  MemberInv'
  BY <1>1, <1>2, ArrivesMembers, StepsMembers
<1>3. ASSUME NEW u \in Users, NEW l \in Levels, Add(u, l) PROVE MemberInv'
  <2>1. \A k \in Levels : u \notin member[k]  BY <1>3 DEF Add, TablesOf
  <2>2. \A p \in Requests : req[p].step = "join" => req[p].who # u  BY <1>3 DEF Add, At
  <2> QED  BY <1>1, <1>3, <2>1, <2>2, MemberJoins DEF Add
<1>4. ASSUME UNCHANGED <<member, req>> PROVE MemberInv'
  BY <1>1, <1>4 DEF MemberInv
<1> QED
  BY <1>2, <1>3, <1>4 DEF Next, vars, Invite, CodeExpires, MakeFolder, DropFolder, drive

\* A manager's row is deleted by a removal of the owner's only, or by one that had
\* begun before it was there, provided that nobody is added at a second level.
THEOREM OwnerRemovesManagers ==
    ASSUME Regrants = "none" PROVE Spec => ManagersRemovedByOwner
<1> DEFINE ByOwner ==
      \A u \in member[Manager] \ member'[Manager] :
          \E q \in Requests : /\ At(q, "delete member") /\ req[q].who = u
                              /\ req[q].by = Owner \/ Manager \in req[q].added
<1>1. MemberInv /\ [Next]_vars => [ByOwner]_vars
  <2> SUFFICES ASSUME MemberInv, Next PROVE ByOwner
    OBVIOUS
  <2> USE DEF MemberInv, AccessInv, Tables
  <2>1. ASSUME member' = member PROVE ByOwner
    BY <2>1
  <2>2. ASSUME NEW u, NEW l, NEW rs, Join(u, l, rs) PROVE ByOwner
    BY <2>2, ManagerLevel DEF Join
  <2>3. ASSUME NEW q \in Requests, DeleteMember(q) PROVE ByOwner
    <3>1. req[q].step = "delete member" /\ req[q].level \in Levels /\ Entitled(req[q], member)
      BY <2>3 DEF DeleteMember, At, Sound, Carries
    <3>2. CASE member' = [member EXCEPT ![req[q].level] = @ \ {req[q].who}]
      <4>1. \A u \in member[Manager] \ member'[Manager] : u = req[q].who
        BY <3>1, <3>2, ManagerLevel
      <4> QED  BY <3>1, <4>1 DEF At, Entitled
    <3> QED  BY <2>1, <2>3, <3>2 DEF DeleteMember
  <2>4. ASSUME NEW q \in Requests,
               Arrives(q) \/ RegisterStep(q) \/ ShareStep(q) \/ BrowseStep(q)
        PROVE  ByOwner
    <3>1. CASE Arrives(q) \/ ShareStep(q) \/ BrowseStep(q)
      BY <2>1, <3>1 DEF Arrives, Register, BeginRemove, BeginGrant, BeginRevoke, OnFolder, BeginList,
                        BeginDownload, ShareStep, LookUpFolder, GrantSharedFolder,
                        RevokeSharedFolder, BrowseStep, CheckShare, Reply, drive
    <3>2. CASE RegisterStep(q)
      BY <2>1, <2>2, <3>2 DEF RegisterStep, CreateUser, JoinInvited, SetupNewDrive, drive
    <3> QED  BY <2>4, <3>1, <3>2
  <2> QED
    BY <2>1, <2>2, <2>3, <2>4 DEF Next, Add, Invite, CodeExpires, MakeFolder, DropFolder, drive
<1>2. Spec => []MemberInv
  BY MemberInit, MemberStep, PTL DEF Spec
<1> QED  BY <1>1, <1>2, PTL DEF Spec, ManagersRemovedByOwner

=============================================================================
