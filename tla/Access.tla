------------------------------- MODULE Access -------------------------------
(***************************************************************************)
(* Who may do what on a drive: accounts and invitations, the three tables  *)
(* of members, the removal of members, and folders shared with users who   *)
(* need not be members.  A handler checks first and changes the database   *)
(* later, row by row; other requests run in between, and a query may fail. *)
(*                                                                         *)
(* The model follows one drive and its Owner.  A level is its rank: read,  *)
(* write, manager.  A folder is the sequence of names on its path.         *)
(***************************************************************************)
EXTENDS Integers, FiniteSets, Sequences, SequencesExt

CONSTANTS
    Users, Owner,
    Admins,    \* users with the admin flag
    Accounts,  \* users registered to begin with
    Paths,     \* folders of the drive
    Joining,   \* bound: users added to the drive
    Guests,    \* bound: users folders are shared with
    Invited,   \* bound: levels of the invitations
    Requests,  \* bound: requests served at once
    Failing,   \* the queries that may fail
    Regrants,  \* "none": nobody is added to a drive at a second level
    None

Queries == {"create user", "join", "set up drive", "delete member", "grant"}
Read == 1  Write == 2  Manager == 3
Levels == Read..Manager

ASSUME AccessAssumption ==
    /\ Owner \in Accounts /\ Accounts \subseteq Users /\ Admins \subseteq Users
    /\ \A p \in Paths : Len(p) > 0
    /\ Failing \subseteq Queries /\ Regrants \in {"none", "any"}
    /\ Guests \subseteq Users /\ Joining \subseteq Users /\ Invited \subseteq Levels

VARIABLES
    accounts,  \* rows of the user table under each name
    codes,     \* the levels there is a valid invitation code for
    member,    \* the users in the table of each level
    homes,     \* users who own a drive of their own, besides this one
    folders,   \* folders that exist
    shares,    \* rows of shared folders: a folder and a user
    req        \* requests being served

vars   == <<accounts, codes, member, homes, folders, shares, req>>
people == <<accounts, codes, homes>>
drive  == <<member, folders, shares>>

Idle == [step |-> "idle", by |-> None, who |-> None, level |-> None, path |-> None,
         root |-> None, added |-> {}]

\* The operation a request is in the middle of, by its next step.
Registering == {"create user", "join", "set up drive"}
Removing    == {"delete member", "removed"}
Sharing     == {"look up folder", "grant", "revoke"}
Browsing    == {"check share", "read"}
Steps       == {"idle"} \cup Registering \cup Removing \cup Sharing \cup Browsing

TypeOK ==
    /\ accounts \in [Users -> {0, 1}] /\ codes \in SUBSET Levels
    /\ member \in [Levels -> SUBSET {u \in Users : accounts[u] # 0}]
    /\ homes \in SUBSET {u \in Users : accounts[u] # 0}
    /\ folders \in SUBSET Paths /\ shares \in SUBSET (Paths \X Users)
    /\ req \in [Requests -> [step : Steps, by : Users \cup {None}, who : Users \cup {None},
                             level : Levels \cup {None}, path : Paths \cup {None},
                             root : Paths \cup {None}, added : SUBSET Levels]]

Init ==
    /\ accounts = [u \in Users |-> IF u \in Accounts THEN 1 ELSE 0] /\ codes = {}
    /\ member = [l \in Levels |-> {}] /\ homes = {}
    /\ folders = {} /\ shares = {}
    /\ req = [q \in Requests |-> Idle]

-----------------------------------------------------------------------------
(* Levels and checks *)

TablesOf(u) == {l \in Levels : u \in member[l]}
\* CheckIfUserInDrive looks into the tables in the order of their levels.
Level(u)    == IF TablesOf(u) = {} THEN 0 ELSE Min(TablesOf(u))

CanWrite(u)  == accounts[u] # 0 /\ (u = Owner \/ Level(u) >= Write)
CanManage(u) == accounts[u] # 0 /\ (u \in Admins \/ u = Owner \/ Level(u) >= Manager)

Free(q)         == req[q].step = "idle"
At(q, step)     == req[q].step = step
Goto(q, step)   == req' = [req EXCEPT ![q].step = step]
Answer(q)       == req' = [req EXCEPT ![q] = Idle]
Fails(query)    == query \in Failing

\* The rows inserted by one query; requests that remove the user from the drive
\* remember that it came after them.
Join(u, l, rs) ==
    /\ member' = [member EXCEPT ![l] = @ \cup {u}]
    /\ req' = [q \in Requests |-> IF rs[q].step \in Removing /\ rs[q].who = u
                                  THEN [rs[q] EXCEPT !.added = @ \cup {l}] ELSE rs[q]]

-----------------------------------------------------------------------------
(* Accounts and invitations *)

\* InviteUser, by an admin; the code can be used any number of times.
Invite(u, l) ==
    /\ u \in Admins /\ accounts[u] # 0 /\ l \in Invited \ codes
    /\ codes' = codes \cup {l}
    /\ UNCHANGED <<accounts, homes, drive, req>>

CodeExpires(l) ==
    /\ l \in codes /\ codes' = codes \ {l}
    /\ UNCHANGED <<accounts, homes, drive, req>>

\* Register: with a valid code, or as an admin with a drive of their own.  The name
\* is looked up before the row is inserted.
Register(q, u, l) ==
    /\ Free(q) /\ accounts[u] = 0
    /\ l \in codes \/ (l = None /\ u \in Admins)
    /\ req' = [req EXCEPT ![q] = [Idle EXCEPT !.step = "create user", !.by = u, !.who = u, !.level = l]]
    /\ UNCHANGED <<people, drive>>

\* The unique index of users.username.
Unique(u) == accounts[u] = 0

CreateUser(q) ==
    /\ At(q, "create user")
    /\ \/ /\ Unique(req[q].who)
          /\ accounts' = [accounts EXCEPT ![req[q].who] = @ + 1]
          /\ Goto(q, IF req[q].level = None THEN "set up drive" ELSE "join")
       \/ /\ ~Unique(req[q].who) \/ Fails("create user")
          /\ Answer(q) /\ UNCHANGED accounts
    /\ UNCHANGED <<codes, homes, drive>>

JoinInvited(q) ==
    /\ At(q, "join")
    /\ \/ Join(req[q].who, req[q].level, [req EXCEPT ![q] = Idle])
       \/ Fails("join") /\ Answer(q) /\ UNCHANGED member
    /\ UNCHANGED <<people, folders, shares>>

\* SetupNewDrive: the directory, then the row.  The clean-up after an error is given
\* the drive's name, where the directory bears its slug, and removes nothing.
SetupNewDrive(q) ==
    /\ At(q, "set up drive")
    /\ homes' = homes \cup {req[q].who} \/ (Fails("set up drive") /\ UNCHANGED homes)
    /\ Answer(q)
    /\ UNCHANGED <<accounts, codes, drive>>

-----------------------------------------------------------------------------
(* Members *)

\* AddUserToDrive, by anyone; the tables of the other levels are left as they are.
Add(u, l) ==
    /\ accounts[u] # 0 /\ u \in Joining /\ u \notin member[l]
    /\ Regrants = "any" \/ (TablesOf(u) = {} /\ \A q \in Requests : ~(At(q, "join") /\ req[q].who = u))
    /\ Join(u, l, req)
    /\ UNCHANGED <<people, folders, shares>>

AnyMember(by, u) == Level(by) = Manager \/ by = Owner   \* mutant: managers remove managers
\* Managers remove members, the owner managers, too.
MayRemove(by, u) ==
    /\ Level(by) = Manager \/ by = Owner
    /\ Level(u) = Manager => by = Owner

BeginRemove(q, by, u) ==
    /\ Free(q) /\ accounts[by] # 0
    /\ Level(u) # 0 /\ u # by /\ MayRemove(by, u)
    /\ req' = [req EXCEPT ![q] = [Idle EXCEPT !.step = "delete member", !.by = by, !.who = u,
                                              !.level = Read]]
    /\ UNCHANGED <<people, drive>>

TwoTables == {Read, Write}   \* mutant: the managers are left out
\* The tables a removal goes through, one query each.
Cleared == Levels

DeleteMember(q) ==
    LET l == req[q].level
    IN  /\ At(q, "delete member")
        /\ \/ /\ member' = [member EXCEPT ![l] = @ \ {req[q].who}]
              /\ req' = IF l + 1 \in Cleared THEN [req EXCEPT ![q].level = l + 1]
                        ELSE [req EXCEPT ![q].step = "removed", ![q].level = None, ![q].by = None]
           \/ Fails("delete member") /\ Answer(q) /\ UNCHANGED member
        /\ UNCHANGED <<people, folders, shares>>

-----------------------------------------------------------------------------
(* Shared folders *)

\* Folders come and go with the storage manager, shares or none.
MakeFolder(p) ==
    /\ p \notin folders /\ (Len(p) > 1 => Front(p) \in folders)
    /\ folders' = folders \cup {p}
    /\ UNCHANGED <<people, member, shares, req>>

Within(root, p) == IsPrefix(root, p)

DropFolder(p) ==
    /\ p \in folders
    /\ folders' = {f \in folders : ~Within(p, f)}
    /\ UNCHANGED <<people, member, shares, req>>

OnFolder(q, step, by, u, p) ==
    /\ Free(q) /\ accounts[u] # 0 /\ u \in Guests /\ CanManage(by)
    /\ req' = [req EXCEPT ![q] = [Idle EXCEPT !.step = step, !.who = u, !.path = p,
                                              !.by = IF step = "revoke" THEN None ELSE by]]
    /\ UNCHANGED <<people, drive>>

BeginGrant(q, by, u, p)  == u # by /\ OnFolder(q, "look up folder", by, u, p)
BeginRevoke(q, by, u, p) == OnFolder(q, "revoke", by, u, p)

\* DirExists asks for write access, which an admin who is no member lacks.
LookUpFolder(q) ==
    /\ At(q, "look up folder")
    /\ IF CanWrite(req[q].by) /\ req[q].path \in folders
       THEN req' = [req EXCEPT ![q].step = "grant", ![q].by = None]
       ELSE Answer(q)
    /\ UNCHANGED <<people, drive>>

GrantSharedFolder(q) ==
    /\ At(q, "grant")
    /\ shares' = shares \cup {<<req[q].path, req[q].who>>} \/ (Fails("grant") /\ UNCHANGED shares)
    /\ Answer(q)
    /\ UNCHANGED <<people, member, folders>>

RevokeSharedFolder(q) ==
    /\ At(q, "revoke")
    /\ shares' = shares \ {<<req[q].path, req[q].who>>}
    /\ Answer(q)
    /\ UNCHANGED <<people, member, folders>>

RootsAbove(u, p) == {r \in Paths : <<r, u>> \in shares /\ Within(r, p)}
\* The root asked for, if it is shared and above the path.
ExactRoot(u, root, p) == RootsAbove(u, p) \cap {root}

\* resolveShare: the root asked for, or else the deepest shared folder above the path.
Resolved(u, root, p) ==
    IF ExactRoot(u, root, p) # {} THEN ExactRoot(u, root, p)
    ELSE {r \in RootsAbove(u, p) : \A s \in RootsAbove(u, p) : Len(s) <= Len(r)}

\* List a folder.
BeginList(q, u, root, p) ==
    /\ Free(q) /\ accounts[u] # 0
    /\ \E r \in Resolved(u, root, p) :
          req' = [req EXCEPT ![q] = [Idle EXCEPT !.step = "check share", !.who = u,
                                                 !.path = p, !.root = r]]
    /\ UNCHANGED <<people, drive>>

\* Download a file of folder p: only the root is resolved.
BeginDownload(q, u, root, p) ==
    /\ Free(q) /\ accounts[u] # 0
    /\ \E r \in Resolved(u, root, root) :
          req' = [req EXCEPT ![q] = [Idle EXCEPT !.step = "check share", !.who = u,
                                                 !.path = p, !.root = r]]
    /\ UNCHANGED <<people, drive>>

Resolves(q) == TRUE   \* mutant: the storage manager trusts the share that was resolved
\* The storage manager looks for the share again, and keeps to what lies under it.
StillShared(q) == <<req[q].root, req[q].who>> \in shares

\* Where the request is served from, if at all.
CheckShare(q) ==
    /\ At(q, "check share")
    /\ IF StillShared(q) /\ Within(req[q].root, req[q].path)
       THEN req' = [req EXCEPT ![q].step = "read", ![q].root = None] ELSE Answer(q)
    /\ UNCHANGED <<people, drive>>

\* The answer to a removal, a listing or a download.
Reply(q) ==
    /\ At(q, "read") \/ At(q, "removed")
    /\ Answer(q)
    /\ UNCHANGED <<people, drive>>

-----------------------------------------------------------------------------

RegisterStep(q) == CreateUser(q) \/ JoinInvited(q) \/ SetupNewDrive(q)
ShareStep(q)    == LookUpFolder(q) \/ GrantSharedFolder(q) \/ RevokeSharedFolder(q)
BrowseStep(q)   == CheckShare(q) \/ Reply(q)

Arrives(q) ==
    \/ \E u \in Users, l \in Levels \cup {None} : Register(q, u, l)
    \/ \E by, u \in Users : BeginRemove(q, by, u)
    \/ \E by, u \in Users, p \in Paths : BeginGrant(q, by, u, p) \/ BeginRevoke(q, by, u, p)
    \/ \E u \in Users, root, p \in Paths : BeginList(q, u, root, p) \/ BeginDownload(q, u, root, p)

Next ==
    \/ \E q \in Requests : \/ Arrives(q) \/ RegisterStep(q) \/ DeleteMember(q)
                           \/ ShareStep(q) \/ BrowseStep(q)
    \/ \E u \in Users, l \in Levels : Invite(u, l) \/ Add(u, l)
    \/ \E l \in Levels : CodeExpires(l)
    \/ \E p \in Paths : MakeFolder(p) \/ DropFolder(p)

Spec == Init /\ [][Next]_vars

-----------------------------------------------------------------------------
(* Properties *)

\* Only the owner ends up having removed a manager: a removal takes a row of the
\* managers' table only if its caller owns the drive, or the row was inserted after
\* the removal had looked the user up.
ManagersRemovedByOwner ==
    [][\A u \in member[Manager] \ member'[Manager] :
          \E q \in Requests : /\ At(q, "delete member") /\ req[q].who = u
                              /\ req[q].by = Owner \/ Manager \in req[q].added]_vars

\* What a removal that got through all tables leaves of the user was inserted after
\* it had begun, in whichever order the requests ran.
RemovalIsComplete ==
    \A q \in Requests : At(q, "removed") =>
        \A l \in Levels : req[q].who \in member[l] => l \in req[q].added

\* A shared folder is listed, and a file in it downloaded, only when a folder above
\* it is shared with the user at the last look: a share revoked after the request
\* was let in no longer counts, however it was named and resolved.
ServedIsShared ==
    [][\A q \in Requests :
          req[q].step # "read" /\ req'[q].step = "read" => RootsAbove(req[q].who, req[q].path) # {}]_vars

=============================================================================
