---------------------------- MODULE UserService ----------------------------
(***************************************************************************)
(* The User service: the durable catalog of users and roles, the volatile  *)
(* table of sessions and their namespace capabilities, and the two         *)
(* identities that Shell and Flow keep of it.                               *)
(*                                                                         *)
(* The service is one thread: it takes a request, changes the catalog,     *)
(* writes the whole snapshot through Storage when the operation is durable *)
(* and answers.  One action is therefore one request with its answer; what *)
(* varies underneath it is the save, which may fail before or after        *)
(* Storage committed it.  A restart of the service loses every session and *)
(* reloads what Storage holds.                                              *)
(*                                                                         *)
(* Abstractions: a password verifier is the password it accepts, a home    *)
(* root is the number of the user it was made for (0 is the empty root),   *)
(* rights are sets of letters.  "serial" and "life" are history: they tell *)
(* apart sessions that the code names with the same handle.                *)
(***************************************************************************)
EXTENDS Naturals, Sequences, FiniteSets, SequencesExt

CONSTANTS Names, Passwords,        \* what users call themselves and type
          Owner, Initial,          \* the first name and password: one of each will do,
                                   \* for nothing tells the others apart yet
          MAX_USERS, MAX_ROLES, MAX_SESSIONS,
          MAX_ROLE_GRANTS, MAX_CAPABILITIES_PER_SESSION,
          GenerationMod,           \* width of a session generation
          MaxChanges,              \* durable requests that succeed in a behaviour
          MaxLineages,             \* the last lineage a derivation may draw
          MaxLogins, MaxRestarts

VARIABLES catalog,      \* claimed, next_user, next_role, next_lineage, users, roles
          sessions,     \* slot -> <<>> or <<session>>
          generations,  \* slot -> session_generations
          durable,      \* what Storage holds: <<>> or <<catalog>>
          held,         \* client -> identity it keeps
          ready,        \* the catalog has been loaded
          life, logins, changes,   \* history and bounds
          known,        \* user -> what the last acknowledged change made of it
          unsure        \* users some unacknowledged change touched

vars == <<catalog, sessions, generations, durable, held, ready, life, logins,
          changes, known, unsure>>

Clients == {"Shell", "Flow"}
\* Rights a derivation may ask for.
Asked == {{"R", "D"}, {"W"}}

Nobody == [slot |-> 0, generation |-> 0, user |-> 0, capability |-> 0,
           root |-> 0, rights |-> {}, serial |-> 0, life |-> 0]

EmptyCatalog == [claimed |-> FALSE, next_user |-> 1, next_role |-> 1,
                 next_lineage |-> 1, users |-> <<>>, roles |-> <<>>]

Init ==
    /\ catalog = EmptyCatalog
    /\ sessions = [s \in 1..MAX_SESSIONS |-> <<>>]
    /\ generations = [s \in 1..MAX_SESSIONS |-> 1]
    /\ durable = <<>>
    /\ held = [c \in Clients |-> Nobody]
    /\ ready = FALSE
    /\ life = 1 /\ logins = 0 /\ changes = 0
    /\ known = <<>> /\ unsure = {}

------------------------------------------------------------------------------
(* The catalog.  An operation yields the status and the catalog after it.    *)

Result(status, c) == [status |-> status, catalog |-> c, user |-> 0]

UserNamed(c, name) == {u \in 1..Len(c.users) : c.users[u].name = name}
UserWith(c, id) == {u \in 1..Len(c.users) : c.users[u].id = id}
RoleNamed(c, name) == {r \in 1..Len(c.roles) : c.roles[r].name = name}

\* A name that is taken, or a full table, refuses the record.
create_record(c, name, password, admin) ==
    IF UserNamed(c, name) # {} \/ Len(c.users) = MAX_USERS
    THEN Result("Capacity", c)
    ELSE [status |-> "Ok", user |-> c.next_user,
          catalog |-> [c EXCEPT !.next_user = @ + 1,
              !.users = Append(@, [id |-> c.next_user, name |-> name,
                  verifier |-> password, home |-> c.next_user,
                  roles |-> <<>>, admin |-> admin])]]

\* A role of that name is used as it is; otherwise it is made.
ensure_builtin_role(c, name, root, rights) ==
    IF RoleNamed(c, name) # {} THEN Result("Ok", c)
    ELSE IF Len(c.roles) = MAX_ROLES THEN Result("Capacity", c)
    ELSE Result("Ok", [c EXCEPT !.next_role = @ + 1,
             !.roles = Append(@, [id |-> c.next_role, name |-> name,
                                  root |-> root, rights |-> rights])])

assign_role_inner(c, user, role) ==
    IF UserWith(c, user) = {} THEN Result("NotFound", c)
    ELSE LET u == CHOOSE u \in UserWith(c, user) : TRUE IN
         IF Len(c.users[u].roles) = MAX_ROLE_GRANTS THEN Result("Capacity", c)
         ELSE Result("Ok", [c EXCEPT !.users[u].roles = Append(@, role)])

\* Mutant: the role need not exist.
assign_role_Mutant(c, user, role) == assign_role_inner(c, user, role)

assign_role(c, user, role) ==
    IF \A r \in 1..Len(c.roles) : c.roles[r].id # role
    THEN Result("NotFound", c)
    ELSE assign_role_inner(c, user, role)

RoleId(c, name) == c.roles[CHOOSE r \in RoleNamed(c, name) : TRUE].id

\* Any failing step puts the five remembered fields back.
Rollback(c, r) == IF r.status = "Ok" THEN r ELSE [r EXCEPT !.catalog = c]

Grant(r, user, name, root, rights) ==
    IF r.status # "Ok" THEN r
    ELSE LET made == ensure_builtin_role(r.catalog, name, root, rights)
         IN  IF made.status # "Ok" THEN made
             ELSE assign_role(made.catalog, user, RoleId(made.catalog, name))

claim(c, name, password) ==
    IF c.claimed THEN Result("AlreadyClaimed", c)
    ELSE LET user == c.next_user
             made == create_record(c, name, password, TRUE)
             admin == Grant(made, user, "system-admin", user, {"R", "W", "D"})
             both == Grant(admin, user, "user", 0, {"R", "W"})
         IN  Rollback(c, [both EXCEPT !.catalog.claimed = TRUE, !.user = user])

create_user(c, name, password) ==
    IF ~c.claimed THEN Result("Unclaimed", c)
    ELSE LET user == c.next_user
             made == create_record(c, name, password, FALSE)
         IN  Rollback(c, [Grant(made, user, "user", 0, {"R", "W"}) EXCEPT !.user = user])

rename_user(c, user, name) ==
    IF \E u \in UserNamed(c, name) : c.users[u].id # user
    THEN Result("Capacity", c)
    ELSE IF UserWith(c, user) = {} THEN Result("NotFound", c)
    ELSE Result("Ok", [c EXCEPT !.users[CHOOSE u \in UserWith(c, user) : TRUE].name = name])

set_password(c, user, password) ==
    IF UserWith(c, user) = {} THEN Result("NotFound", c)
    ELSE Result("Ok",
             [c EXCEPT !.users[CHOOSE u \in UserWith(c, user) : TRUE].verifier = password])

create_role(c, name, root, rights) ==
    IF rights = {} \/ root = 0 THEN Result("Invalid", c)
    ELSE IF RoleNamed(c, name) # {} \/ Len(c.roles) = MAX_ROLES THEN Result("Capacity", c)
    ELSE Result("Ok", [c EXCEPT !.next_role = @ + 1,
             !.roles = Append(@, [id |-> c.next_role, name |-> name,
                                  root |-> root, rights |-> rights])])

\* What restore_snapshot demands of a snapshot before it takes it.
snapshot_is_valid(c) ==
    /\ \A u, v \in 1..Len(c.users) :
          u # v => /\ c.users[u].id # c.users[v].id
                   /\ c.users[u].name # c.users[v].name
    /\ \A u \in 1..Len(c.users) :
          /\ c.users[u].id < c.next_user
          /\ Len(c.users[u].roles) <= MAX_ROLE_GRANTS
          /\ \A i \in 1..Len(c.users[u].roles) :
                \E r \in 1..Len(c.roles) : c.roles[r].id = c.users[u].roles[i]
    /\ c.claimed <=> Len(c.users) # 0
    /\ \A r, q \in 1..Len(c.roles) :
          r # q => /\ c.roles[r].id # c.roles[q].id
                   /\ c.roles[r].name # c.roles[q].name
    /\ \A r \in 1..Len(c.roles) : c.roles[r].id < c.next_role /\ c.roles[r].rights # {}

------------------------------------------------------------------------------
(* Sessions and their capabilities.                                          *)

\* The record a handle names, if its slot still carries that generation.
Record(identity) ==
    IF identity.slot \in 1..MAX_SESSIONS /\ sessions[identity.slot] # <<>>
       /\ sessions[identity.slot][1].generation = identity.generation
    THEN sessions[identity.slot]
    ELSE <<>>

session(identity) ==
    IF Record(identity) = <<>> THEN "Stale"
    ELSE IF Record(identity)[1].revoked THEN "Revoked" ELSE "Ok"

is_admin_session(identity) ==
    /\ session(identity) = "Ok"
    /\ \E u \in UserWith(catalog, Record(identity)[1].user) : catalog.users[u].admin

FreeSessions == {s \in 1..MAX_SESSIONS :
                    sessions[s] = <<>> \/ sessions[s][1].revoked}

\* The templates of the user's roles, in the order they were granted; a
\* template without a root stands for the user's home.
Templates(c, u) ==
    [i \in 1..Len(c.users[u].roles) |->
        LET role == c.roles[CHOOSE r \in 1..Len(c.roles) :
                                c.roles[r].id = c.users[u].roles[i]]
        IN  [root |-> IF role.root = 0 THEN c.users[u].home ELSE role.root,
             rights |-> role.rights]]

\* Session lineage first, then one lineage for each attached capability.
Opened(c, u, slot) ==
    [generation |-> generations[slot], user |-> c.users[u].id,
     lineage |-> c.next_lineage, revoked |-> FALSE, serial |-> logins + 1,
     capabilities |-> [i \in 1..Len(Templates(c, u)) |->
         [root |-> Templates(c, u)[i].root, rights |-> Templates(c, u)[i].rights,
          lineage |-> c.next_lineage + i, parent |-> c.next_lineage,
          revoked |-> FALSE]]]

\* Mutant: the slot keeps its generation when a session leaves it.
BumpedMutant(slot) == generations

Bumped(slot) ==
    [generations EXCEPT ![slot] = IF @ + 1 = GenerationMod THEN 1 ELSE @ + 1]


\* The fixpoint of revoke_capability: capabilities occupy slots in the order
\* they were derived, so a child always comes after its parent.
Descendants(caps, target) ==
    LET grown[n \in 0..Len(caps)] ==
            IF n = 0 THEN {}
            ELSE IF \/ caps[n].lineage = target
                    \/ \E i \in grown[n - 1] : caps[i].lineage = caps[n].parent
                 THEN grown[n - 1] \cup {n} ELSE grown[n - 1]
    IN  grown[Len(caps)]

------------------------------------------------------------------------------
(* Durable requests: the change, the snapshot save, the answer.              *)

\* Mutant: a new password is not saved.
is_durableMutant(op) == op \in {"Claim", "Create", "Rename", "CreateRole", "AssignRole"}

is_durable(op) ==
    op \in {"Claim", "Create", "Rename", "SetPassword", "CreateRole", "AssignRole"}

\* persist_catalog: saved, refused, or saved while the answer was lost.
Saves == {"saved", "refused", "unheard"}

Touched(before, after) ==
    {after.users[u].id : u \in {u \in 1..Len(after.users) :
        u > Len(before.users) \/ after.users[u] # before.users[u]}}

Change(op, r) ==
    /\ ready /\ changes < MaxChanges
    /\ changes' = IF r.status = "Ok" THEN changes + 1 ELSE changes
    /\ catalog' = r.catalog
    /\ \E save \in IF r.status = "Ok" /\ is_durable(op) THEN Saves ELSE {"none"} :
          /\ durable' = IF save \in {"saved", "unheard"} THEN <<r.catalog>> ELSE durable
          /\ LET touched == Touched(catalog, r.catalog) IN
             IF r.status = "Ok" /\ save \in {"saved", "none"}
             THEN /\ known' = [id \in DOMAIN known \cup touched |->
                         IF id \in touched
                         THEN r.catalog.users[CHOOSE u \in UserWith(r.catalog, id) : TRUE]
                         ELSE known[id]]
                  /\ unsure' = unsure \ touched
             ELSE known' = known /\ unsure' = unsure \cup touched
    /\ UNCHANGED <<sessions, generations, ready, life, logins>>

\* Flow takes the identity of an acknowledged Claim, which has no session.
Adopted(client, op, r) ==
    IF client = "Flow" /\ op = "Claim" /\ r.status = "Ok"
    THEN [held EXCEPT !["Flow"] = [Nobody EXCEPT !.user = r.user]] ELSE held

Claim(client) ==
    LET r == claim(catalog, Owner, Initial)
    IN  /\ Change("Claim", r)
        /\ held' \in {held, Adopted(client, "Claim", r)}

AdminResult(op, r) ==
    /\ Change(op, IF is_admin_session(held["Flow"]) THEN r
                  ELSE Result("Unauthorized", catalog))
    /\ UNCHANGED held

Create == \E name \in Names :
    AdminResult("Create", create_user(catalog, name, Initial))

\* Flow names itself in these requests.
Rename == \E name \in Names :
    AdminResult("Rename", rename_user(catalog, held["Flow"].user, name))

SetPassword == \E password \in Passwords :
    AdminResult("SetPassword", set_password(catalog, held["Flow"].user, password))

CreateRole == \E rights \in {{}, {"R", "D"}} :
    AdminResult("CreateRole", create_role(catalog, "extra", held["Flow"].root, rights))

AssignRole == \E role \in 1..MAX_ROLES + 1 :
    AdminResult("AssignRole", assign_role(catalog, held["Flow"].user, role))

------------------------------------------------------------------------------
(* Session requests.                                                         *)

\* A failing attach empties the slot again; the generation stays consumed.
Login(client) == \E name \in Names, password \in Passwords :
    /\ ready /\ logins < MaxLogins
    /\ IF \/ ~catalog.claimed \/ UserNamed(catalog, name) = {} \/ FreeSessions = {}
          \/ \A u \in UserNamed(catalog, name) : catalog.users[u].verifier # password
       THEN UNCHANGED <<catalog, sessions, generations, held, logins>>
       ELSE LET u == CHOOSE u \in UserNamed(catalog, name) : TRUE
                slot == CHOOSE s \in FreeSessions : \A t \in FreeSessions : s <= t
                opened == Opened(catalog, u, slot)
                fits == Len(opened.capabilities) <= MAX_CAPABILITIES_PER_SESSION
                first == opened.capabilities[1]
            IN  /\ logins' = logins + 1
                /\ catalog' = [catalog EXCEPT !.next_lineage =
                                  @ + 1 + Len(opened.capabilities)]
                /\ generations' = Bumped(slot)
                /\ sessions' = [sessions EXCEPT ![slot] = IF fits THEN <<opened>> ELSE <<>>]
                /\ held' = IF fits
                           THEN [held EXCEPT ![client] =
                                   [slot |-> slot, generation |-> opened.generation,
                                    user |-> opened.user, capability |-> 1,
                                    root |-> first.root, rights |-> first.rights,
                                    serial |-> opened.serial, life |-> life]]
                           ELSE held
    /\ UNCHANGED <<durable, ready, life, changes, known, unsure>>

\* Shell hands its context to Flow; an empty one clears Flow's identity.
adopt_context ==
    /\ held' = [held EXCEPT !["Flow"] = held["Shell"]]
    /\ held' # held
    /\ UNCHANGED <<catalog, sessions, generations, durable, ready, life, logins,
                   changes, known, unsure>>

\* Shell forgets its context before it asks; Flow only on the answer Ok.
Logout(client) ==
    /\ ready
    /\ client = "Shell" => held["Shell"].serial # 0
    /\ sessions' = IF session(held[client]) = "Ok"
                   THEN [sessions EXCEPT ![held[client].slot][1].revoked = TRUE]
                   ELSE sessions
    /\ held' = IF client = "Shell" \/ session(held[client]) = "Ok"
               THEN [held EXCEPT ![client] = Nobody] ELSE held
    /\ UNCHANGED <<catalog, generations, durable, ready, life, logins, changes,
                   known, unsure>>

\* The parent must be live, allow derivation, keep the root and hold every
\* right asked for.  The lineage is drawn before any of these checks.
derive ==
    \E rights \in Asked :
       LET flow == held["Flow"] IN
       /\ ready /\ session(flow) = "Ok" /\ catalog.next_lineage <= MaxLineages
       /\ LET record == Record(flow)[1]
              caps == record.capabilities
              found == {i \in 1..Len(caps) : i = flow.capability /\ ~caps[i].revoked}
          IN  /\ \A i \in found : /\ "D" \in caps[i].rights
                                  /\ caps[i].root = flow.root
                                  /\ rights \subseteq caps[i].rights
              /\ found # {} /\ Len(caps) < MAX_CAPABILITIES_PER_SESSION
              /\ sessions' = [sessions EXCEPT ![flow.slot][1].capabilities =
                     Append(@, [root |-> flow.root, rights |-> rights,
                                lineage |-> catalog.next_lineage,
                                parent |-> caps[flow.capability].lineage,
                                revoked |-> FALSE])]
              /\ held' = [held EXCEPT !["Flow"].capability = Len(caps) + 1,
                                      !["Flow"].rights = rights]
       /\ catalog' = [catalog EXCEPT !.next_lineage = @ + 1]
       /\ UNCHANGED <<generations, durable, ready, life, logins, changes, known, unsure>>

\* A Flow that was handed Shell's context may revoke the capability its own
\* derivations came from.
revoke_capability ==
    LET flow == held["Flow"] IN
    /\ ready /\ session(flow) = "Ok"
    /\ flow.capability \in 1..Len(Record(flow)[1].capabilities)
    /\ LET caps == Record(flow)[1].capabilities
           gone == Descendants(caps, caps[flow.capability].lineage)
       IN  sessions' = [sessions EXCEPT ![flow.slot][1].capabilities =
               [i \in 1..Len(caps) |-> [caps[i] EXCEPT !.revoked = @ \/ i \in gone]]]
    /\ held' = [held EXCEPT !["Flow"].capability = 0]
    /\ UNCHANGED <<catalog, generations, durable, ready, life, logins, changes,
                   known, unsure>>

------------------------------------------------------------------------------
(* Loading and restart.                                                      *)

\* load_catalog is repeated until it succeeds; a snapshot that does not pass
\* snapshot_is_valid keeps the service from ever serving.
restore_snapshot(c) ==
    /\ snapshot_is_valid(c)
    /\ catalog' = c
    /\ generations' = [s \in 1..MAX_SESSIONS |-> generations[s] + 1]
    /\ sessions' = [s \in 1..MAX_SESSIONS |-> <<>>]

load_from ==
    /\ ~ready
    /\ IF durable # <<>> THEN restore_snapshot(durable[1])
       ELSE /\ catalog' = EmptyCatalog
            /\ generations' = [s \in 1..MAX_SESSIONS |-> 1]
            /\ sessions' = [s \in 1..MAX_SESSIONS |-> <<>>]
    /\ ready' = TRUE
    /\ UNCHANGED <<durable, held, life, logins, changes, known, unsure>>

\* A new process: static memory as the image has it.  Shell depends on User
\* and restarts with it; Flow does not and keeps what it holds.
Restart ==
    /\ life <= MaxRestarts
    /\ life' = life + 1
    /\ catalog' = EmptyCatalog
    /\ sessions' = [s \in 1..MAX_SESSIONS |-> <<>>]
    /\ generations' = [s \in 1..MAX_SESSIONS |-> 1]
    /\ held' = [held EXCEPT !["Shell"] = Nobody]
    /\ ready' = FALSE
    /\ UNCHANGED <<durable, logins, changes, known, unsure>>

Next ==
    \/ \E client \in Clients : Claim(client) \/ Login(client) \/ Logout(client)
    \/ Create \/ Rename \/ SetPassword \/ CreateRole \/ AssignRole
    \/ adopt_context \/ derive \/ revoke_capability
    \/ load_from \/ Restart

Spec == Init /\ [][Next]_vars

------------------------------------------------------------------------------
TypeOK ==
    /\ catalog.claimed \in BOOLEAN /\ ready \in BOOLEAN
    /\ durable # <<>> => durable[1].claimed \in BOOLEAN
    /\ \A s \in 1..MAX_SESSIONS : generations[s] \in 1..GenerationMod

\* What Storage holds can always be loaded again: no sequence of requests,
\* failed saves and restarts leaves a snapshot that restore_snapshot refuses,
\* which would keep the service from starting for good.
SnapshotReopens == durable # <<>> => snapshot_is_valid(durable[1])

\* A change that was acknowledged is what every later life of the service
\* serves, until another request touches that user.
AcknowledgedSurvives ==
    \A id \in DOMAIN known \ unsure :
        /\ durable # <<>>
        /\ \E u \in UserWith(durable[1], id) : durable[1].users[u] = known[id]
        /\ ready => \E u \in UserWith(catalog, id) : catalog.users[u] = known[id]

\* Within one life of the service a handle means the session it was issued
\* for: after a logout and a new login in the same slot it is refused.
HandlesNeverRevive ==
    \A client \in Clients :
        LET h == held[client] IN
        h.life = life /\ session(h) = "Ok" => Record(h)[1].serial = h.serial

\* No capability outlives the one it was derived from, and none is stronger.
CapabilitiesAttenuate ==
    \A s \in 1..MAX_SESSIONS : sessions[s] # <<>> =>
        LET caps == sessions[s][1].capabilities IN
        \A i, j \in 1..Len(caps) : caps[j].parent = caps[i].lineage =>
            /\ caps[j].rights \subseteq caps[i].rights
            /\ caps[j].root = caps[i].root
            /\ caps[i].revoked => caps[j].revoked
==============================================================================
