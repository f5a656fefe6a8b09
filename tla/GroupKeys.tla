----------------------------- MODULE GroupKeys -----------------------------
(***************************************************************************)
(* The shared key of a group and who can recover it.                       *)
(*                                                                         *)
(* Every group has one symmetric key under which the passwords of its      *)
(* database servers are encrypted.  A public group uses the column         *)
(* public_crypto_key.  A private group has no copy of its key: each row of *)
(* group_members holds the key encrypted ("sealed" here) to the RSA key    *)
(* pair of that member, and the private half of the pair is encrypted      *)
(* under a key derived from the member's login password, which the client  *)
(* sends in the Crypto-Key header.                                         *)
(*                                                                         *)
(* A request is one atomic step here: the rows it reads and writes are     *)
(* those of app/models and the guard of an action is the authorization and *)
(* every exception that makes the request fail and roll back.              *)
(*                                                                         *)
(* Identifiers of destroyed rows (UUIDs, never reused by the program) are  *)
(* recycled, which only makes the sets of the model smaller.               *)
(***************************************************************************)
EXTENDS Naturals

CONSTANTS
    User, Group, Server,    \* identifiers of rows
    Password,               \* login passwords that pass the length validation
    Blank,                  \* the empty string, accepted where has_secure_password ignores it
    Key,                    \* symmetric keys: public_crypto_key and Group.random_crypto_key
    NoKey,                  \* nil, the key that could not be recovered
    NoGroup,                \* the group of a database server row that does not exist
    MaxKeypairs             \* bound on the key pairs generated for one account

ASSUME KeysAssumption ==
    /\ Blank \notin Password
    /\ NoKey \notin Key
    /\ NoGroup \notin Group
    /\ MaxKeypairs \in Nat

VARIABLES
    account,    \* users: does the row exist, password, generation of the key pair
                \* and the password that the private key is encrypted under
    groups,     \* groups: does the row exist, is_private and public_crypto_key
    members,    \* members[g]: the users that have a row in group_members
    admins,     \* admins[g]: those with is_admin
    outdated,   \* outdated[g]: those with is_outdated
    wrapped,    \* wrapped[g][u]: crypto_key_encrypted, a key and the key pair it is sealed to
    servers     \* db_servers owned by a group: the key their password is encrypted under,
                \* and whether the password is the placeholder '-'

vars == <<account, groups, members, admins, outdated, wrapped, servers>>

memberVars == <<members, admins, outdated, wrapped>>

-----------------------------------------------------------------------------
(* The rows.                                                               *)

(* What a client can send as Crypto-Key: the key derived from a password.  *)
Header == Password \cup {Blank}

Sealed == [key : Key \cup {NoKey}, keypair : Nat]
Unsealed == [key |-> NoKey, keypair |-> 0]

(* keypair = 0 is a user without key pair: an account older than the       *)
(* groups feature that has not logged in since.                            *)
Account == [exists : BOOLEAN, password : Header, keypair : Nat, pem : Header]
NoAccount == [exists |-> FALSE, password |-> Blank, keypair |-> 0, pem |-> Blank]
LegacyAccount(p) == [exists |-> TRUE, password |-> p, keypair |-> 0, pem |-> Blank]

GroupRow == [exists : BOOLEAN, private : BOOLEAN, public_crypto_key : Key \cup {NoKey}]
NoGroupRow == [exists |-> FALSE, private |-> FALSE, public_crypto_key |-> NoKey]

ServerRow == [group : Group \cup {NoGroup}, key : Key \cup {NoKey}, blanked : BOOLEAN]
NoServer == [group |-> NoGroup, key |-> NoKey, blanked |-> FALSE]

ServersOf(g) == {s \in Server : servers[s].group = g}

TypeOK ==
    /\ account \in [User -> Account]
    /\ groups \in [Group -> GroupRow]
    /\ members \in [Group -> SUBSET User]
    /\ admins \in [Group -> SUBSET User]
    /\ outdated \in [Group -> SUBSET User]
    /\ wrapped \in [Group -> [User -> Sealed]]
    /\ servers \in [Server -> ServerRow]
    /\ \A g \in Group : groups[g].exists => groups[g].public_crypto_key # NoKey
    /\ \A s \in Server : servers[s].group # NoGroup => servers[s].key # NoKey

Init ==
    /\ \E p \in Password : account \in [User -> {NoAccount, LegacyAccount(p)}]
    /\ groups = [g \in Group |-> NoGroupRow]
    /\ members = [g \in Group |-> {}]
    /\ admins = [g \in Group |-> {}]
    /\ outdated = [g \in Group |-> {}]
    /\ wrapped = [g \in Group |-> [u \in User |-> Unsealed]]
    /\ servers = [s \in Server |-> NoServer]

-----------------------------------------------------------------------------
(* Keys: what a request can recover from the rows and its header.          *)

has_keypair(u) == account[u].keypair > 0

(* User#private_key: nil unless the header decrypts the PEM.               *)
OpensKeypair(u, header) == has_keypair(u) /\ account[u].pem = header

(* GroupMember#crypto_key: nil whenever decryption fails.                  *)
MemberKey(g, u, header) ==
    IF /\ u \in members[g]
       /\ OpensKeypair(u, header)
       /\ wrapped[g][u].keypair = account[u].keypair
    THEN wrapped[g][u].key
    ELSE NoKey

(* Group#crypto_key                                                        *)
GroupKey(g, u, header) ==
    IF groups[g].private THEN MemberKey(g, u, header)
                         ELSE groups[g].public_crypto_key

(* public_encrypt with the current public key of the user.                 *)
Seal(k, u) == [key |-> k, keypair |-> account[u].keypair]

-----------------------------------------------------------------------------
(* Accounts.                                                               *)

(* POST /users, with the after_create callback that makes the key pair.    *)
SignUp(u, p) ==
    /\ ~account[u].exists
    /\ MaxKeypairs > 0
    /\ account' = [account EXCEPT ![u] =
                    [exists |-> TRUE, password |-> p, keypair |-> 1, pem |-> p]]
    /\ UNCHANGED <<groups, memberVars, servers>>

(* POST /login of an account without key pair; other logins change nothing *)
(* that this module is about.                                              *)
LegacyLogin(u) ==
    /\ account[u].exists
    /\ ~has_keypair(u)
    /\ MaxKeypairs > 0
    /\ account' = [account EXCEPT ![u].keypair = 1, ![u].pem = account[u].password]
    /\ UNCHANGED <<groups, memberVars, servers>>

(* Mutated form: the update_all of is_outdated is forgotten.               *)
ReplaceKeypairUnflagged(u, new) ==
    /\ account[u].keypair < MaxKeypairs
    /\ account' = [account EXCEPT
                    ![u].password = IF new = Blank THEN @ ELSE new,
                    ![u].keypair = @ + 1,
                    ![u].pem = new]
    /\ UNCHANGED <<groups, memberVars, servers>>

(* User#update_key_pairs! once the old private key is not available: a new *)
(* pair under the new password, and every membership is flagged; with it,  *)
(* the password, which a blank value leaves as it was.                     *)
ReplaceKeypair(u, new) ==
    /\ account[u].keypair < MaxKeypairs
    /\ account' = [account EXCEPT
                    ![u].password = IF new = Blank THEN @ ELSE new,
                    ![u].keypair = @ + 1,
                    ![u].pem = new]
    /\ outdated' = [g \in Group |->
                     IF has_keypair(u) /\ u \in members[g]
                     THEN outdated[g] \cup {u} ELSE outdated[g]]
    /\ UNCHANGED <<groups, members, admins, wrapped, servers>>

(* With the old private key at hand update_key_pairs! asks every           *)
(* membership for its `secret', a method GroupMember does not have.        *)
UpdateKeyPairsRaises(u, old) ==
    OpensKeypair(u, old) /\ \E g \in Group : u \in members[g]

(* PUT /users/current/password.  A blank password passes the validations   *)
(* but leaves password_digest alone.                                       *)
ChangePassword(u, old, new) ==
    /\ account[u].exists
    /\ old = account[u].password
    /\ ~UpdateKeyPairsRaises(u, old)
    /\ ReplaceKeypair(u, new)

(* POST /users/:id/reset_password with a valid reset token.                *)
ResetPassword(u, new) ==
    /\ account[u].exists
    /\ ReplaceKeypair(u, new)

(* User#destroy: the memberships go without callbacks, the groups stay.    *)
DeleteUser(u) ==
    /\ account[u].exists
    /\ account' = [account EXCEPT ![u] = NoAccount]
    /\ members' = [g \in Group |-> members[g] \ {u}]
    /\ admins' = [g \in Group |-> admins[g] \ {u}]
    /\ outdated' = [g \in Group |-> outdated[g] \ {u}]
    /\ wrapped' = [g \in Group |-> [wrapped[g] EXCEPT ![u] = Unsealed]]
    /\ UNCHANGED <<groups, servers>>

-----------------------------------------------------------------------------
(* Groups and members.                                                     *)

(* POST /groups: public_crypto_key and the key handed to the first member  *)
(* are two calls of random_crypto_key, whose salt is the current second.   *)
CreateGroup(u, g, private, public_key, group_key) ==
    /\ account[u].exists
    /\ has_keypair(u)
    /\ ~groups[g].exists
    /\ groups' = [groups EXCEPT ![g] = [exists |-> TRUE, private |-> private,
                                        public_crypto_key |-> public_key]]
    /\ members' = [members EXCEPT ![g] = {u}]
    /\ admins' = [admins EXCEPT ![g] = {u}]
    /\ wrapped' = [wrapped EXCEPT ![g][u] = Seal(group_key, u)]
    /\ UNCHANGED <<account, outdated, servers>>

(* Group#add_user: only a user with a key pair can be given a key, and     *)
(* only by a request that recovered it.                                    *)
AddUser(g, v, k) ==
    /\ v \notin members[g]
    /\ has_keypair(v)
    /\ k # NoKey
    /\ members' = [members EXCEPT ![g] = @ \cup {v}]
    /\ wrapped' = [wrapped EXCEPT ![g][v] = Seal(k, v)]
    /\ UNCHANGED <<account, groups, admins, outdated, servers>>

(* PATCH /groups/:id/members                                               *)
AddMember(u, g, v, header) ==
    /\ groups[g].exists
    /\ account[u].exists /\ account[v].exists
    /\ ~groups[g].private \/ u \in admins[g]
    /\ AddUser(g, v, GroupKey(g, u, header))

(* PATCH /groups/:id/join                                                  *)
Join(u, g, header) ==
    /\ groups[g].exists
    /\ account[u].exists
    /\ ~groups[g].private
    /\ AddUser(g, u, GroupKey(g, u, header))

(* Group#destroy deletes the rows of members and servers.                  *)
DestroyGroup(g) ==
    /\ groups' = [groups EXCEPT ![g] = NoGroupRow]
    /\ members' = [members EXCEPT ![g] = {}]
    /\ admins' = [admins EXCEPT ![g] = {}]
    /\ outdated' = [outdated EXCEPT ![g] = {}]
    /\ wrapped' = [wrapped EXCEPT ![g] = [u \in User |-> Unsealed]]
    /\ servers' = [s \in Server |->
                    IF servers[s].group = g THEN NoServer ELSE servers[s]]
    /\ UNCHANGED account

(* Group#remove_user.  The member is gone before destroy! of the emptied   *)
(* group is tried; `blocked' is the foreign key of sql_queries on one of   *)
(* the servers, which makes destroy! fail and leaves the group behind.     *)
RemoveUser(g, v, blocked) ==
    /\ blocked => ServersOf(g) # {}
    /\ IF members[g] \ {v} = {} /\ ~blocked
       THEN DestroyGroup(g)
       ELSE /\ members' = [members EXCEPT ![g] = @ \ {v}]
            /\ admins' = [admins EXCEPT ![g] = @ \ {v}]
            /\ outdated' = [outdated EXCEPT ![g] = @ \ {v}]
            /\ wrapped' = [wrapped EXCEPT ![g][v] = Unsealed]
            /\ UNCHANGED <<account, groups, servers>>

(* Mutated form: every admin may leave.                                    *)
MayLeaveAsAdmin(g, u) == ~groups[g].private \/ u \in admins[g]

(* GroupPolicy#leave? (the second definition of the method)                *)
MayLeave(g, u) ==
    \/ ~groups[g].private
    \/ u \in admins[g] /\ (admins[g] # {u} \/ members[g] = {u})

(* PATCH /groups/:id/leave and PATCH /groups/:id/members/:user_id of one's *)
(* own id                                                                  *)
Leave(u, g, blocked) ==
    /\ groups[g].exists
    /\ account[u].exists
    /\ MayLeave(g, u)
    /\ RemoveUser(g, u, blocked)

(* PATCH /groups/:id/members/:user_id                                      *)
RemoveMember(u, g, v, blocked) ==
    /\ groups[g].exists
    /\ u \in admins[g]
    /\ u # v
    /\ RemoveUser(g, v, blocked)

(* POST /groups/:id/members/:user_id/set_admin_permission                  *)
SetAdminPermission(u, g, v, is_admin) ==
    /\ groups[g].exists
    /\ u \in admins[g]
    /\ u # v
    /\ v \in members[g]
    /\ admins' = [admins EXCEPT ![g] = IF is_admin THEN @ \cup {v} ELSE @ \ {v}]
    /\ UNCHANGED <<account, groups, members, outdated, wrapped, servers>>

(* DELETE /groups/:id, when no server is held by a foreign key             *)
DeleteGroup(u, g) ==
    /\ groups[g].exists
    /\ u \in admins[g]
    /\ DestroyGroup(g)

-----------------------------------------------------------------------------
(* Keys of a group: recovery and change.                                   *)

(* Mutated form: the key is renewed and is_outdated stays set.             *)
UpdateOutdatedMembersFlagged(keys) ==
    /\ wrapped' = [g \in Group |-> [u \in User |->
                    IF u \in outdated[g] /\ keys[g] # NoKey
                    THEN Seal(keys[g], u) ELSE wrapped[g][u]]]
    /\ UNCHANGED <<account, groups, members, admins, outdated, servers>>

(* Group#update_outdated_members of every group for which the request      *)
(* recovered a key; keys[g] = NoKey where it did not.                      *)
UpdateOutdatedMembers(keys) ==
    /\ wrapped' = [g \in Group |-> [u \in User |->
                    IF u \in outdated[g] /\ keys[g] # NoKey
                    THEN Seal(keys[g], u) ELSE wrapped[g][u]]]
    /\ outdated' = [g \in Group |-> IF keys[g] # NoKey THEN {} ELSE outdated[g]]
    /\ UNCHANGED <<account, groups, members, admins, servers>>

(* GET /groups/:id                                                         *)
GetGroup(u, g, header) ==
    /\ groups[g].exists
    /\ account[u].exists
    /\ ~groups[g].private \/ u \in members[g]
    /\ UpdateOutdatedMembers(
        [x \in Group |-> IF x = g THEN GroupKey(g, u, header) ELSE NoKey])

(* GET /users/:id/groups                                                   *)
GetGroups(u, header) ==
    /\ account[u].exists
    /\ UpdateOutdatedMembers(
        [g \in Group |-> IF u \in members[g] THEN GroupKey(g, u, header) ELSE NoKey])

(* Mutated form: the servers are moved to the new key as if their          *)
(* passwords were known.                                                   *)
GenerateNewCryptoKeyUnblanked(u, g, new) ==
    /\ groups[g].exists
    /\ u \in admins[g]
    /\ \A v \in members[g] : has_keypair(v)
    /\ wrapped' = [wrapped EXCEPT ![g] = [v \in User |->
                    IF v \in members[g] THEN Seal(new, v) ELSE @[v]]]
    /\ outdated' = [outdated EXCEPT ![g] = {}]
    /\ servers' = [s \in Server |->
                    IF servers[s].group = g THEN [servers[s] EXCEPT !.key = new]
                                            ELSE servers[s]]
    /\ UNCHANGED <<account, groups, members, admins>>

(* Mutated form: only the members that are not outdated get the new key.   *)
GenerateNewCryptoKeyForUpToDate(u, g, new) ==
    /\ groups[g].exists
    /\ u \in admins[g]
    /\ \A v \in members[g] : has_keypair(v)
    /\ wrapped' = [wrapped EXCEPT ![g] = [v \in User |->
                    IF v \in members[g] \ outdated[g] THEN Seal(new, v) ELSE @[v]]]
    /\ servers' = [s \in Server |->
                    IF servers[s].group = g
                    THEN [servers[s] EXCEPT !.key = new, !.blanked = TRUE]
                    ELSE servers[s]]
    /\ UNCHANGED <<account, groups, members, admins, outdated>>

(* POST /groups/:id/generate_new_crypto_key, Group#force_new_crypto_key!   *)
GenerateNewCryptoKey(u, g, new) ==
    /\ groups[g].exists
    /\ u \in admins[g]
    /\ \A v \in members[g] : has_keypair(v)
    /\ wrapped' = [wrapped EXCEPT ![g] = [v \in User |->
                    IF v \in members[g] THEN Seal(new, v) ELSE @[v]]]
    /\ outdated' = [outdated EXCEPT ![g] = {}]
    /\ servers' = [s \in Server |->
                    IF servers[s].group = g
                    THEN [servers[s] EXCEPT !.key = new, !.blanked = TRUE]
                    ELSE servers[s]]
    /\ UNCHANGED <<account, groups, members, admins>>

(* Mutated form: outdated members keep what they had.                      *)
RecryptUpToDate(g, private, old, new) ==
    /\ private => \A v \in members[g] : has_keypair(v)
    /\ \A s \in ServersOf(g) : servers[s].key = old
    /\ wrapped' = [wrapped EXCEPT ![g] = [v \in User |->
                    IF v \in outdated[g] THEN @[v]
                    ELSE IF private /\ v \in members[g] THEN Seal(new, v) ELSE Unsealed]]
    /\ outdated' = outdated
    /\ servers' = [s \in Server |->
                    IF servers[s].group = g THEN [servers[s] EXCEPT !.key = new]
                                            ELSE servers[s]]

(* Group#recrypt!, after is_private was updated.  A server whose password  *)
(* is not encrypted under the old key makes the whole request fail.        *)
Recrypt(g, private, old, new) ==
    /\ private => \A v \in members[g] : has_keypair(v)
    /\ \A s \in ServersOf(g) : servers[s].key = old
    /\ wrapped' = [wrapped EXCEPT ![g] = [v \in User |->
                    IF private /\ v \in members[g] THEN Seal(new, v) ELSE Unsealed]]
    /\ outdated' = [outdated EXCEPT ![g] = {}]
    /\ servers' = [s \in Server |->
                    IF servers[s].group = g THEN [servers[s] EXCEPT !.key = new]
                                            ELSE servers[s]]

(* PUT /groups/:id: is_private is among the parameters or, as when only the *)
(* name is edited, is not ("nil").  nil differs from both values of the    *)
(* column and is not truthy, so it counts as a change to public.           *)
IsPrivateParam == {"true", "false", "nil"}

PrivacyChanged(g, is_private) ==
    is_private = "nil" \/ groups[g].private # (is_private = "true")

PutGroup(u, g, header, is_private, random) ==
    LET private == is_private = "true" \/ (is_private = "nil" /\ groups[g].private)
        public_key == groups[g].public_crypto_key
    IN  /\ groups[g].exists
        /\ u \in admins[g]
        /\ PrivacyChanged(g, is_private)
        /\ groups' = [groups EXCEPT ![g].private = private]
        /\ IF is_private = "true"
           THEN Recrypt(g, private, public_key, random)
           ELSE Recrypt(g, private, GroupKey(g, u, header), public_key)
        /\ UNCHANGED <<account, members, admins>>

-----------------------------------------------------------------------------
(* Database servers of a group.                                            *)

(* Mutated form: a missing key is not noticed.                             *)
EncryptUnchecked(s, g, k) ==
    /\ servers' = [servers EXCEPT ![s] = [group |-> g, key |-> k, blanked |-> FALSE]]
    /\ UNCHANGED <<account, groups, memberVars>>

(* DbServer.encrypt raises without a key.                                  *)
Encrypt(s, g, k) ==
    /\ k # NoKey
    /\ servers' = [servers EXCEPT ![s] = [group |-> g, key |-> k, blanked |-> FALSE]]
    /\ UNCHANGED <<account, groups, memberVars>>

(* POST /db_servers with owner_type group                                  *)
CreateDbServer(u, g, s, header) ==
    /\ groups[g].exists
    /\ u \in admins[g]
    /\ servers[s].group = NoGroup
    /\ Encrypt(s, g, GroupKey(g, u, header))

(* PUT /db_servers/:id with a password                                     *)
UpdateDbServer(u, g, s, header) ==
    /\ servers[s].group = g
    /\ u \in admins[g]
    /\ Encrypt(s, g, GroupKey(g, u, header))

(* DELETE /db_servers/:id                                                  *)
DeleteDbServer(u, g, s) ==
    /\ servers[s].group = g
    /\ u \in admins[g]
    /\ servers' = [servers EXCEPT ![s] = NoServer]
    /\ UNCHANGED <<account, groups, memberVars>>

-----------------------------------------------------------------------------
AccountNext ==
    \E u \in User :
        \/ \E p \in Password : SignUp(u, p)
        \/ LegacyLogin(u)
        \/ \E old \in Password, new \in Header : ChangePassword(u, old, new)
        \/ \E new \in Header : ResetPassword(u, new)
        \/ DeleteUser(u)

MemberNext ==
    \E u \in User, g \in Group :
        \/ \E private \in BOOLEAN, pk \in Key, k \in Key : CreateGroup(u, g, private, pk, k)
        \/ \E v \in User, header \in Header : AddMember(u, g, v, header)
        \/ \E header \in Header : Join(u, g, header)
        \/ \E blocked \in BOOLEAN : Leave(u, g, blocked)
        \/ \E v \in User, blocked \in BOOLEAN : RemoveMember(u, g, v, blocked)
        \/ \E v \in User, is_admin \in BOOLEAN : SetAdminPermission(u, g, v, is_admin)
        \/ DeleteGroup(u, g)

KeyNext ==
    \/ \E u \in User, header \in Header : GetGroups(u, header)
    \/ \E u \in User, g \in Group :
        \/ \E header \in Header : GetGroup(u, g, header)
        \/ \E k \in Key : GenerateNewCryptoKey(u, g, k)
        \/ \E header \in Header, is_private \in IsPrivateParam, k \in Key :
              PutGroup(u, g, header, is_private, k)

ServerNext ==
    \E u \in User, g \in Group, s \in Server :
        \/ \E header \in Header : CreateDbServer(u, g, s, header)
        \/ \E header \in Header : UpdateDbServer(u, g, s, header)
        \/ DeleteDbServer(u, g, s)

Next == AccountNext \/ MemberNext \/ KeyNext \/ ServerNext

Spec == Init /\ [][Next]_vars

-----------------------------------------------------------------------------
(* Properties.                                                             *)

(* The key of a private group exists only inside the rows of its members,  *)
(* so they must agree: every member that is not flagged outdated holds the *)
(* same key, sealed to the key pair the account has now, and every server  *)
(* of the group is encrypted under that key (group.rb, crypto_key,         *)
(* add_user, recrypt!, force_new_crypto_key! and update_outdated_members   *)
(* together).                                                              *)
HaveKey(g, k) ==
    /\ \A u \in members[g] \ outdated[g] : wrapped[g][u] = Seal(k, u)
    /\ \A s \in ServersOf(g) : servers[s].key = k

KeyAgreement ==
    \A g \in Group : groups[g].private => \E k \in Key : HaveKey(g, k)

(* is_outdated tells the truth in a private group: a flagged member cannot *)
(* recover the key, whatever it sends, until another member visits         *)
(* (Editable.tsx tells the user to wait or to reset the key), and an admin *)
(* that is not flagged can always hand the key to a new member.            *)
OutdatedFlagExact ==
    \A g \in Group : groups[g].private =>
        \A u \in members[g] :
            (u \in outdated[g]) <=>
                (\A header \in Header : MemberKey(g, u, header) = NoKey)

(* A server of a public group that public_crypto_key does not open holds   *)
(* nothing but the placeholder: a real password is never stored under a    *)
(* key that no request can recover.                                        *)
PublicPasswordsReadable ==
    \A g \in Group : groups[g].exists /\ ~groups[g].private =>
        \A s \in ServersOf(g) :
            servers[s].key = groups[g].public_crypto_key \/ servers[s].blanked

(* Governance of a private group: while it has members it keeps an admin,  *)
(* but for the deletion of accounts, which bypasses GroupPolicy#leave?.  A *)
(* private group without admin can never again be given members or servers.*)
AdminsKept ==
    [][\A g \in Group :
         groups[g].private /\ groups'[g].private /\ members'[g] # {}
         /\ admins[g] # {} /\ admins'[g] = {}
         => \E u \in User : account[u].exists /\ ~account'[u].exists]_vars

(* A stored password is given up for the placeholder only together with    *)
(* every other one of the group and with the outdated flags: after the     *)
(* loss nobody is left waiting for a key (force_new_crypto_key!).          *)
BlankingIsComplete ==
    [][\A s \in Server :
         LET g == servers[s].group
         IN  g # NoGroup /\ servers'[s].group = g /\ ~servers[s].blanked /\ servers'[s].blanked
             => /\ outdated'[g] = {}
                /\ \A t \in Server : servers'[t].group = g => servers'[t].blanked]_vars

(* Changing the key of servers that stay in a private group reaches every  *)
(* member in the same transaction, the outdated ones included.             *)
RekeyReachesMembers ==
    [][\A s \in Server :
         LET g == servers[s].group
         IN  g # NoGroup /\ servers'[s].group = g /\ groups'[g].private
             /\ servers'[s].key # servers[s].key
             => \A u \in members'[g] :
                    u \notin outdated'[g] /\ wrapped'[g][u].key = servers'[s].key]_vars

(* GroupKeys implements SharedSecret: the holders are the members that can *)
(* recover a key, with whatever header; a secret is a server with a        *)
(* password under the key that every holder recovers.                      *)
KindOf(g) == IF ~groups[g].exists THEN "none" ELSE IF groups[g].private THEN "private" ELSE "public"

Holders(g) ==
    {u \in members[g] : groups[g].private /\ \E header \in Header : MemberKey(g, u, header) # NoKey}

Waiting(g) == {u \in members[g] : groups[g].private} \ Holders(g)

Secrets(g) ==
    {s \in ServersOf(g) :
        /\ groups[g].private /\ ~servers[s].blanked
        /\ \A u \in members[g], header \in Header :
               MemberKey(g, u, header) \in {NoKey, servers[s].key}}

Secret == INSTANCE SharedSecret WITH
    kind <- [g \in Group |-> KindOf(g)],
    holders <- [g \in Group |-> Holders(g)],
    waiting <- [g \in Group |-> Waiting(g)],
    secrets <- [g \in Group |-> Secrets(g)]

(* The key of a private group is handed on only by those who can recover   *)
(* it, or all passwords under it are given up: every request, seen by who  *)
(* can recover which key, is a step of SharedSecret in each group.         *)
SharesSecret == Secret!Spec

(* What texts of the repository say and the code does not do.              *)

(* Test `recryption resets all db server passwords': after a forced new    *)
(* key the group's own crypto_key still opens its servers.                 *)
GroupKeyOpensServers ==
    \A g \in Group : groups[g].exists =>
        \A u \in members[g] \ outdated[g], s \in ServersOf(g) :
            GroupKey(g, u, account[u].pem) = servers[s].key

(* Tests `can set a new password' and `can update password': a user with   *)
(* the right password can change it.                                       *)
PasswordChangeServed ==
    \A u \in User : account[u].exists => ~UpdateKeyPairsRaises(u, account[u].password)

=============================================================================
