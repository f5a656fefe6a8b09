-------------------------- MODULE GroupKeysProofs --------------------------
(***************************************************************************)
(* Proofs about GroupKeys, for any sets of users, groups, servers,         *)
(* passwords and keys: its invariants, and that it implements              *)
(* SharedSecret.                                                           *)
(***************************************************************************)
EXTENDS GroupKeys, TLAPS

(* What a request can recover is a key or nil.                             *)
LEMMA GroupKeyType ==
    ASSUME TypeOK, NEW g \in Group, NEW u \in User, NEW header
    PROVE  GroupKey(g, u, header) \in Key \cup {NoKey}
  BY DEF TypeOK, GroupKey, MemberKey, GroupRow, Sealed

LEMMA TypeInit == Init => TypeOK
<1> SUFFICES ASSUME Init PROVE TypeOK
  OBVIOUS
<1>1. account \in [User -> Account]
  <2>1. PICK p \in Password : account \in [User -> {NoAccount, LegacyAccount(p)}]
    BY DEF Init
  <2>2. NoAccount \in Account /\ LegacyAccount(p) \in Account
    BY DEF Account, NoAccount, LegacyAccount, Header
  <2> QED BY <2>1, <2>2
<1>2. groups \in [Group -> GroupRow] /\ \A g \in Group : ~groups[g].exists
  BY DEF Init, GroupRow, NoGroupRow
<1>3. servers \in [Server -> ServerRow] /\ \A s \in Server : servers[s].group = NoGroup
  BY DEF Init, ServerRow, NoServer
<1>4. wrapped \in [Group -> [User -> Sealed]]
  BY DEF Init, Sealed, Unsealed
<1> QED BY <1>1, <1>2, <1>3, <1>4 DEF Init, TypeOK

LEMMA TypeStep ==
    ASSUME TypeOK, [Next]_vars
    PROVE  TypeOK'
<1> USE KeysAssumption
<1>1. ASSUME NEW u \in User, NEW p \in Password, SignUp(u, p) PROVE TypeOK'
  BY <1>1 DEF SignUp, TypeOK, Account, NoAccount, Header, memberVars
<1>2. ASSUME NEW u \in User, LegacyLogin(u) PROVE TypeOK'
  BY <1>2 DEF LegacyLogin, TypeOK, Account, NoAccount, Header, memberVars
<1>3. ASSUME NEW u \in User, NEW new \in Header, account[u].exists,
             ReplaceKeypair(u, new)
      PROVE  TypeOK'
  BY <1>3 DEF ReplaceKeypair, TypeOK, Account, NoAccount, Header
<1>4. ASSUME NEW u \in User, DeleteUser(u) PROVE TypeOK'
  BY <1>4 DEF DeleteUser, TypeOK, Account, NoAccount, Header, Sealed, Unsealed
<1>5. ASSUME NEW u \in User, NEW g \in Group, NEW private \in BOOLEAN,
             NEW pk \in Key, NEW k \in Key, CreateGroup(u, g, private, pk, k)
      PROVE  TypeOK'
  BY <1>5 DEF CreateGroup, TypeOK, Account, NoAccount, GroupRow, Sealed, Seal, has_keypair
<1>6. ASSUME NEW g \in Group, NEW v \in User, NEW k \in Key \cup {NoKey},
             AddUser(g, v, k)
      PROVE  TypeOK'
  BY <1>6 DEF AddUser, TypeOK, Account, NoAccount, Sealed, Seal
<1>7. ASSUME NEW g \in Group, DestroyGroup(g) PROVE TypeOK'
  BY <1>7 DEF DestroyGroup, TypeOK, Sealed, Unsealed, GroupRow, NoGroupRow, ServerRow,
     NoServer
<1>8. ASSUME NEW g \in Group, NEW v \in User, NEW blocked, RemoveUser(g, v, blocked)
      PROVE  TypeOK'
  <2>1. CASE DestroyGroup(g)
    BY <2>1, <1>7
  <2>2. CASE ~DestroyGroup(g)
    <3>1. /\ members' = [members EXCEPT ![g] = @ \ {v}]
          /\ admins' = [admins EXCEPT ![g] = @ \ {v}]
          /\ outdated' = [outdated EXCEPT ![g] = @ \ {v}]
          /\ wrapped' = [wrapped EXCEPT ![g][v] = Unsealed]
          /\ UNCHANGED <<account, groups, servers>>
      BY <2>2, <1>8 DEF RemoveUser
    <3> QED BY <3>1 DEF TypeOK, Sealed, Unsealed
  <2> QED BY <2>1, <2>2
<1>9. ASSUME NEW u \in User, NEW g \in Group, NEW v \in User, NEW is_admin \in BOOLEAN,
             SetAdminPermission(u, g, v, is_admin)
      PROVE  TypeOK'
  BY <1>9 DEF SetAdminPermission, TypeOK
<1>10. ASSUME NEW keys \in [Group -> Key \cup {NoKey}], UpdateOutdatedMembers(keys)
       PROVE  TypeOK'
  BY <1>10 DEF UpdateOutdatedMembers, TypeOK, Sealed, Seal, Account, NoAccount
<1>11. ASSUME NEW u \in User, NEW g \in Group, NEW k \in Key,
              GenerateNewCryptoKey(u, g, k)
       PROVE  TypeOK'
  BY <1>11 DEF GenerateNewCryptoKey, TypeOK, Sealed, Seal, ServerRow, NoServer,
     Account, NoAccount
<1>12. ASSUME NEW u \in User, NEW g \in Group, NEW header \in Header,
              NEW is_private \in IsPrivateParam, NEW k \in Key,
              PutGroup(u, g, header, is_private, k)
       PROVE  TypeOK'
  <2> DEFINE private == is_private = "true" \/ (is_private = "nil" /\ groups[g].private)
             public_key == groups[g].public_crypto_key
  <2>1. private \in BOOLEAN /\ groups[g] \in GroupRow /\ public_key \in Key
    BY <1>12 DEF TypeOK, GroupRow, PutGroup
  <2>2. PICK old, new : new \in Key /\ Recrypt(g, private, old, new)
    BY <2>1, <1>12 DEF PutGroup
  <2>3. groups' = [groups EXCEPT ![g].private = private]
        /\ UNCHANGED <<account, members, admins>>
    BY <1>12 DEF PutGroup
  <2> HIDE DEF private, public_key
  <2>4. outdated' \in [Group -> SUBSET User] /\ wrapped' \in [Group -> [User -> Sealed]]
    BY <2>2 DEF Recrypt, TypeOK, Sealed, Unsealed, Seal, Account
  <2>5. /\ servers' \in [Server -> ServerRow]
        /\ \A s \in Server : servers'[s].group # NoGroup => servers'[s].key # NoKey
    BY <2>2 DEF Recrypt, TypeOK, ServerRow
  <2>6. /\ groups' \in [Group -> GroupRow]
        /\ \A x \in Group : groups'[x].exists => groups'[x].public_crypto_key # NoKey
    BY <2>1, <2>3 DEF TypeOK, GroupRow
  <2> QED BY <2>3, <2>4, <2>5, <2>6 DEF TypeOK
<1>13. ASSUME NEW s \in Server, NEW g \in Group, NEW k \in Key \cup {NoKey},
              Encrypt(s, g, k)
       PROVE  TypeOK'
  BY <1>13 DEF Encrypt, TypeOK, ServerRow, memberVars
<1>14. ASSUME NEW u \in User, NEW g \in Group, NEW s \in Server, DeleteDbServer(u, g, s)
       PROVE  TypeOK'
  BY <1>14 DEF DeleteDbServer, TypeOK, memberVars, ServerRow, NoServer
<1>15. CASE AccountNext
  BY <1>15, <1>1, <1>2, <1>3, <1>4 DEF AccountNext, ChangePassword, ResetPassword
<1>16. CASE MemberNext
  BY <1>16, <1>5, <1>6, <1>7, <1>8, <1>9, GroupKeyType
  DEF MemberNext, AddMember, Join, Leave, RemoveMember, DeleteGroup
<1>17. CASE KeyNext
  BY <1>17, <1>10, <1>11, <1>12, GroupKeyType DEF KeyNext, GetGroup, GetGroups
<1>18. CASE ServerNext
  BY <1>18, <1>13, <1>14, GroupKeyType
  DEF ServerNext, CreateDbServer, UpdateDbServer
<1>19. CASE UNCHANGED vars
  BY <1>19 DEF vars, TypeOK
<1> QED BY <1>15, <1>16, <1>17, <1>18, <1>19 DEF Next

(* The rows keep the types of their columns, and a live group and its      *)
(* servers always have a key, whatever the requests are (every handler).   *)
THEOREM TypeCorrect == Spec => []TypeOK
<1>1. TypeOK /\ [Next]_vars => TypeOK'
  BY TypeStep
<1> QED BY TypeInit, <1>1, PTL DEF Spec

-----------------------------------------------------------------------------
(* KeyAgreement is not inductive: a member without key pair would make its *)
(* sealed key stale at its next login, and a row left over from an earlier *)
(* group could disagree with the key of a new one.  RowsConsistent rules   *)
(* both out; it is what the foreign keys, has_secure_password's callbacks  *)
(* and add_user maintain.                                                  *)
RowsConsistent ==
    /\ \A g \in Group : outdated[g] \subseteq members[g] /\ admins[g] \subseteq members[g]
    /\ \A g \in Group : ~groups[g].exists => members[g] = {} /\ ~groups[g].private
    /\ \A s \in Server : servers[s].group # NoGroup => groups[servers[s].group].exists
    /\ \A g \in Group : \A u \in members[g] : account[u].exists /\ has_keypair(u)

(* A flagged member of a private group holds a key sealed to a pair it has *)
(* replaced since.                                                         *)
OutdatedStale ==
    \A g \in Group : groups[g].private =>
        \A u \in outdated[g] : wrapped[g][u].keypair < account[u].keypair

IInv == TypeOK /\ RowsConsistent /\ KeyAgreement /\ OutdatedStale

LEMMA RowsStep ==
    ASSUME TypeOK, RowsConsistent, [Next]_vars
    PROVE  RowsConsistent'
<1> USE KeysAssumption
<1>1. ASSUME NEW u \in User, NEW p \in Password, SignUp(u, p) PROVE RowsConsistent'
  BY <1>1 DEF SignUp, TypeOK, RowsConsistent, has_keypair, memberVars
<1>2. ASSUME NEW u \in User, LegacyLogin(u) PROVE RowsConsistent'
  BY <1>2 DEF LegacyLogin, TypeOK, Account, RowsConsistent, has_keypair, memberVars
<1>3. ASSUME NEW u \in User, NEW new \in Header, ReplaceKeypair(u, new)
      PROVE  RowsConsistent'
  BY <1>3 DEF ReplaceKeypair, TypeOK, Account, RowsConsistent, has_keypair
<1>4. ASSUME NEW u \in User, DeleteUser(u) PROVE RowsConsistent'
  BY <1>4 DEF DeleteUser, TypeOK, RowsConsistent, has_keypair
<1>5. ASSUME NEW u \in User, NEW g \in Group, NEW private \in BOOLEAN,
             NEW pk \in Key, NEW k \in Key, CreateGroup(u, g, private, pk, k)
      PROVE  RowsConsistent'
  BY <1>5 DEF CreateGroup, TypeOK, GroupRow, RowsConsistent, has_keypair
<1>6. ASSUME NEW g \in Group, NEW v \in User, NEW k \in Key \cup {NoKey},
             groups[g].exists, account[v].exists, AddUser(g, v, k)
      PROVE  RowsConsistent'
  BY <1>6 DEF AddUser, TypeOK, RowsConsistent, has_keypair
<1>7. ASSUME NEW g \in Group, DestroyGroup(g) PROVE RowsConsistent'
  BY <1>7 DEF DestroyGroup, TypeOK, RowsConsistent, has_keypair, NoGroupRow, NoServer
<1>8. ASSUME NEW g \in Group, NEW v \in User, NEW blocked, RemoveUser(g, v, blocked)
      PROVE  RowsConsistent'
  <2>1. CASE DestroyGroup(g)
    BY <1>7, <2>1
  <2>2. CASE ~DestroyGroup(g)
    <3>1. /\ members' = [members EXCEPT ![g] = @ \ {v}]
          /\ admins' = [admins EXCEPT ![g] = @ \ {v}]
          /\ outdated' = [outdated EXCEPT ![g] = @ \ {v}]
          /\ UNCHANGED <<account, groups, servers>>
      BY <1>8, <2>2 DEF RemoveUser
    <3> QED BY <3>1 DEF TypeOK, RowsConsistent, has_keypair
  <2> QED BY <2>1, <2>2
<1>9. ASSUME NEW u \in User, NEW g \in Group, NEW v \in User, NEW is_admin \in BOOLEAN,
             SetAdminPermission(u, g, v, is_admin)
      PROVE  RowsConsistent'
  BY <1>9 DEF SetAdminPermission, TypeOK, RowsConsistent, has_keypair
<1>10. ASSUME NEW keys, UpdateOutdatedMembers(keys) PROVE RowsConsistent'
  BY <1>10 DEF UpdateOutdatedMembers, TypeOK, RowsConsistent, has_keypair
<1>11. ASSUME NEW u \in User, NEW g \in Group, NEW k \in Key,
              GenerateNewCryptoKey(u, g, k)
       PROVE  RowsConsistent'
  <2>1. /\ outdated' = [outdated EXCEPT ![g] = {}]
        /\ \A s \in Server : servers'[s].group = servers[s].group
    BY <1>11 DEF GenerateNewCryptoKey, TypeOK, ServerRow
  <2>2. UNCHANGED <<account, groups, members, admins>>
    BY <1>11 DEF GenerateNewCryptoKey
  <2> QED BY <2>1, <2>2 DEF TypeOK, ServerRow, RowsConsistent, has_keypair
<1>12. ASSUME NEW u \in User, NEW g \in Group, NEW header \in Header,
              NEW is_private \in IsPrivateParam, NEW k \in Key,
              PutGroup(u, g, header, is_private, k)
       PROVE  RowsConsistent'
  <2> DEFINE private == is_private = "true" \/ (is_private = "nil" /\ groups[g].private)
  <2>1. PICK old, new : Recrypt(g, private, old, new)
    BY <1>12 DEF PutGroup
  <2>2. /\ groups[g].exists
        /\ groups' = [groups EXCEPT ![g].private = private]
        /\ UNCHANGED <<account, members, admins>>
    BY <1>12 DEF PutGroup
  <2> HIDE DEF private
  <2>3. /\ outdated' = [outdated EXCEPT ![g] = {}]
        /\ \A s \in Server : servers'[s].group = servers[s].group
    BY <2>1 DEF Recrypt, TypeOK, ServerRow
  <2>4. \A x \in Group : /\ groups'[x].exists = groups[x].exists
                         /\ x # g => groups'[x].private = groups[x].private
    BY <2>2 DEF TypeOK, GroupRow
  <2> QED BY <2>2, <2>3, <2>4 DEF TypeOK, ServerRow, RowsConsistent, has_keypair
<1>13. ASSUME NEW s \in Server, NEW g \in Group, NEW k, groups[g].exists, Encrypt(s, g, k)
       PROVE  RowsConsistent'
  BY <1>13 DEF Encrypt, TypeOK, RowsConsistent, has_keypair, memberVars
<1>14. ASSUME NEW u \in User, NEW g \in Group, NEW s \in Server, DeleteDbServer(u, g, s)
       PROVE  RowsConsistent'
  BY <1>14 DEF DeleteDbServer, TypeOK, RowsConsistent, has_keypair, memberVars, NoServer
<1>15. CASE AccountNext
  BY <1>15, <1>1, <1>2, <1>3, <1>4 DEF AccountNext, ChangePassword, ResetPassword
<1>16. CASE MemberNext
  BY <1>16, <1>5, <1>6, <1>7, <1>8, <1>9, GroupKeyType
  DEF MemberNext, AddMember, Join, Leave, RemoveMember, DeleteGroup
<1>17. CASE KeyNext
  BY <1>17, <1>10, <1>11, <1>12 DEF KeyNext, GetGroup, GetGroups
<1>18. CASE ServerNext
  BY <1>18, <1>13, <1>14 DEF ServerNext, CreateDbServer, UpdateDbServer, RowsConsistent
<1>19. CASE UNCHANGED vars
  BY <1>19 DEF vars, RowsConsistent, has_keypair
<1> QED BY <1>15, <1>16, <1>17, <1>18, <1>19 DEF Next

-----------------------------------------------------------------------------
(* A step that gives no up-to-date member a new seal, key pair or row, and *)
(* the group no new or re-encrypted server, keeps the agreement.           *)
LEMMA HaveKeyFrame ==
    ASSUME NEW g \in Group, NEW k, HaveKey(g, k),
           members'[g] \ outdated'[g] \subseteq members[g] \ outdated[g],
           \A u \in members'[g] \ outdated'[g] :
               wrapped'[g][u] = wrapped[g][u] /\ account'[u].keypair = account[u].keypair,
           \A s \in Server : servers'[s].group = g => servers'[s] = servers[s]
    PROVE  HaveKey(g, k)'
  BY DEF HaveKey, ServersOf, Seal

LEMMA AgreementFrame ==
    ASSUME KeyAgreement,
           \A g \in Group : groups'[g].private =>
               /\ groups[g].private
               /\ members'[g] \ outdated'[g] \subseteq members[g] \ outdated[g]
               /\ \A u \in members'[g] \ outdated'[g] :
                      /\ wrapped'[g][u] = wrapped[g][u]
                      /\ account'[u].keypair = account[u].keypair
               /\ \A s \in Server : servers'[s].group = g => servers'[s] = servers[s]
    PROVE  KeyAgreement'
<1> SUFFICES ASSUME NEW g \in Group, groups'[g].private
             PROVE  \E k \in Key : HaveKey(g, k)'
  BY DEF KeyAgreement
<1>1. PICK k \in Key : HaveKey(g, k)
  BY DEF KeyAgreement
<1> QED BY <1>1, HaveKeyFrame

(* Whatever key a request recovers in a private group is the group's key.  *)
LEMMA RecoveredKey ==
    ASSUME TypeOK, OutdatedStale, NEW g \in Group, groups[g].private,
           NEW u \in User, NEW header, NEW c, HaveKey(g, c),
           GroupKey(g, u, header) # NoKey
    PROVE  GroupKey(g, u, header) = c
<1>1. /\ u \in members[g]
      /\ wrapped[g][u].keypair = account[u].keypair
      /\ GroupKey(g, u, header) = wrapped[g][u].key
  BY DEF GroupKey, MemberKey
<1>2. u \notin outdated[g]
  <2>1. account[u].keypair \in Nat
    BY DEF TypeOK, Account
  <2> QED BY <1>1, <2>1 DEF OutdatedStale
<1>3. wrapped[g][u] = Seal(c, u)
  BY <1>1, <1>2 DEF HaveKey
<1> QED BY <1>1, <1>3 DEF Seal

LEMMA AgreementStep ==
    ASSUME IInv, [Next]_vars
    PROVE  KeyAgreement'
<1> USE KeysAssumption
<1> USE DEF IInv
<1>1. ASSUME NEW u \in User, NEW p \in Password, SignUp(u, p) PROVE KeyAgreement'
  BY <1>1, AgreementFrame
  DEF SignUp, TypeOK, RowsConsistent, memberVars
<1>2. ASSUME NEW u \in User, LegacyLogin(u) PROVE KeyAgreement'
  BY <1>2, AgreementFrame
  DEF LegacyLogin, TypeOK, Account, RowsConsistent, has_keypair, memberVars
<1>3. ASSUME NEW u \in User, NEW new \in Header, ReplaceKeypair(u, new)
      PROVE  KeyAgreement'
  BY <1>3, AgreementFrame
  DEF ReplaceKeypair, TypeOK, Account, RowsConsistent, has_keypair
<1>4. ASSUME NEW u \in User, DeleteUser(u) PROVE KeyAgreement'
  BY <1>4, AgreementFrame DEF DeleteUser, TypeOK
<1>5. ASSUME NEW u \in User, NEW g \in Group, NEW private \in BOOLEAN,
             NEW pk \in Key, NEW k \in Key, CreateGroup(u, g, private, pk, k)
      PROVE  KeyAgreement'
  <2> SUFFICES ASSUME NEW x \in Group, groups'[x].private
               PROVE  \E c \in Key : HaveKey(x, c)'
    BY DEF KeyAgreement
  <2>1. CASE x = g
    <3>1. members'[g] = {u} /\ wrapped'[g][u] = Seal(k, u) /\ account' = account
          /\ servers' = servers
      BY <1>5 DEF CreateGroup, TypeOK
    <3>2. ServersOf(g) = {}
      BY <1>5 DEF CreateGroup, RowsConsistent, ServersOf
    <3> QED BY <2>1, <3>1, <3>2 DEF HaveKey, Seal, ServersOf
  <2>2. CASE x # g
    <3>1. PICK c \in Key : HaveKey(x, c)
      BY <1>5, <2>2 DEF CreateGroup, KeyAgreement, TypeOK
    <3> QED BY <1>5, <2>2, <3>1, HaveKeyFrame DEF CreateGroup, TypeOK
  <2> QED BY <2>1, <2>2
<1>6. ASSUME NEW u \in User, NEW g \in Group, NEW v \in User, NEW header \in Header,
             AddUser(g, v, GroupKey(g, u, header))
      PROVE  KeyAgreement'
  <2> SUFFICES ASSUME NEW x \in Group, groups[x].private
               PROVE  \E c \in Key : HaveKey(x, c)'
    BY <1>6 DEF KeyAgreement, AddUser
  <2>1. PICK c \in Key : HaveKey(x, c)
    BY DEF KeyAgreement
  <2>2. CASE x = g
    <3>1. GroupKey(g, u, header) = c
      BY <1>6, <2>1, <2>2, RecoveredKey DEF AddUser
    <3>2. members'[g] = members[g] \cup {v} /\ wrapped' = [wrapped EXCEPT ![g][v] = Seal(c, v)]
          /\ account' = account /\ servers' = servers /\ outdated' = outdated
      BY <1>6, <3>1 DEF AddUser, TypeOK
    <3> QED BY <2>1, <2>2, <3>2 DEF HaveKey, Seal, ServersOf, TypeOK
  <2>3. CASE x # g
    BY <1>6, <2>1, <2>3, HaveKeyFrame DEF AddUser, TypeOK
  <2> QED BY <2>2, <2>3
<1>7. ASSUME NEW g \in Group, DestroyGroup(g) PROVE KeyAgreement'
  BY <1>7, AgreementFrame DEF DestroyGroup, TypeOK, NoGroupRow, NoServer
<1>8. ASSUME NEW g \in Group, NEW v \in User, NEW blocked, RemoveUser(g, v, blocked)
      PROVE  KeyAgreement'
  <2>1. CASE DestroyGroup(g)
    BY <1>7, <2>1
  <2>2. CASE ~DestroyGroup(g)
    <3>1. /\ members' = [members EXCEPT ![g] = @ \ {v}]
          /\ outdated' = [outdated EXCEPT ![g] = @ \ {v}]
          /\ wrapped' = [wrapped EXCEPT ![g][v] = Unsealed]
          /\ UNCHANGED <<account, groups, servers>>
      BY <1>8, <2>2 DEF RemoveUser
    <3> QED BY <3>1, AgreementFrame DEF TypeOK
  <2> QED BY <2>1, <2>2
<1>9. ASSUME NEW u \in User, NEW g \in Group, NEW v \in User, NEW is_admin \in BOOLEAN,
             SetAdminPermission(u, g, v, is_admin)
      PROVE  KeyAgreement'
  BY <1>9, AgreementFrame DEF SetAdminPermission
<1>10. ASSUME NEW keys, UpdateOutdatedMembers(keys),
              \A g \in Group : keys[g] = NoKey \/
                  \E u \in User, header \in Header : keys[g] = GroupKey(g, u, header)
       PROVE  KeyAgreement'
  <2> SUFFICES ASSUME NEW x \in Group, groups[x].private
               PROVE  \E c \in Key : HaveKey(x, c)'
    BY <1>10 DEF KeyAgreement, UpdateOutdatedMembers
  <2>1. PICK c \in Key : HaveKey(x, c)
    BY DEF KeyAgreement
  <2>2. CASE keys[x] = NoKey
    BY <1>10, <2>1, <2>2, HaveKeyFrame DEF UpdateOutdatedMembers, TypeOK
  <2>3. CASE keys[x] # NoKey
    <3>1. keys[x] = c
      BY <1>10, <2>1, <2>3, RecoveredKey
    <3>2. \A u \in members[x] :
            wrapped'[x][u] = IF u \in outdated[x] THEN Seal(c, u) ELSE wrapped[x][u]
      BY <1>10, <2>3, <3>1 DEF UpdateOutdatedMembers, TypeOK
    <3>3. UNCHANGED <<account, members, servers>>
      BY <1>10 DEF UpdateOutdatedMembers
    <3> QED BY <2>1, <3>2, <3>3 DEF HaveKey, Seal, ServersOf
  <2> QED BY <2>2, <2>3
<1>11. ASSUME NEW g \in Group, NEW k \in Key,
              \A x \in Group \ {g} : groups'[x].private = groups[x].private,
              UNCHANGED <<account, members>>,
              outdated' = [outdated EXCEPT ![g] = {}],
              \A v \in members[g] : groups'[g].private => wrapped'[g][v] = Seal(k, v),
              \A x \in Group \ {g} : wrapped'[x] = wrapped[x],
              \A s \in Server : IF servers[s].group = g
                                THEN servers'[s].group = g /\ servers'[s].key = k
                                ELSE servers'[s] = servers[s]
       PROVE  KeyAgreement'
  <2> SUFFICES ASSUME NEW x \in Group, groups'[x].private
               PROVE  \E c \in Key : HaveKey(x, c)'
    BY DEF KeyAgreement
  <2>1. CASE x = g
    BY <1>11, <2>1 DEF HaveKey, Seal, ServersOf
  <2>2. CASE x # g
    <3>1. PICK c \in Key : HaveKey(x, c)
      BY <1>11, <2>2 DEF KeyAgreement
    <3>2. outdated'[x] = outdated[x]
      BY <1>11, <2>2 DEF TypeOK
    <3> QED BY <1>11, <2>2, <3>1, <3>2, HaveKeyFrame
  <2> QED BY <2>1, <2>2
<1>12. ASSUME NEW u \in User, NEW g \in Group, NEW k \in Key,
              GenerateNewCryptoKey(u, g, k)
       PROVE  KeyAgreement'
  <2>1. \A s \in Server : IF servers[s].group = g
                          THEN servers'[s].group = g /\ servers'[s].key = k
                          ELSE servers'[s] = servers[s]
    BY <1>12 DEF GenerateNewCryptoKey, TypeOK, ServerRow
  <2>2. /\ \A v \in members[g] : wrapped'[g][v] = Seal(k, v)
        /\ \A x \in Group \ {g} : wrapped'[x] = wrapped[x]
        /\ outdated' = [outdated EXCEPT ![g] = {}]
    BY <1>12 DEF GenerateNewCryptoKey, TypeOK
  <2>3. UNCHANGED <<account, groups, members>>
    BY <1>12 DEF GenerateNewCryptoKey
  <2> HIDE DEF IInv
  <2> QED BY <1>11, <2>1, <2>2, <2>3
<1>13. ASSUME NEW u \in User, NEW g \in Group, NEW header \in Header,
              NEW is_private \in IsPrivateParam, NEW k \in Key,
              PutGroup(u, g, header, is_private, k)
       PROVE  KeyAgreement'
  <2> DEFINE private == is_private = "true" \/ (is_private = "nil" /\ groups[g].private)
             public_key == groups[g].public_crypto_key
  <2>1. public_key \in Key /\ private \in BOOLEAN
    BY <1>13 DEF TypeOK, GroupRow, PutGroup
  <2>2. PICK old, new : new \in Key /\ Recrypt(g, private, old, new)
    BY <1>13, <2>1 DEF PutGroup
  <2>3. groups' = [groups EXCEPT ![g].private = private] /\ UNCHANGED <<account, members>>
    BY <1>13 DEF PutGroup
  <2> HIDE DEF private
  <2>4. \A s \in Server : IF servers[s].group = g
                          THEN servers'[s].group = g /\ servers'[s].key = new
                          ELSE servers'[s] = servers[s]
    BY <2>2 DEF Recrypt, TypeOK, ServerRow
  <2>5. /\ \A v \in members[g] : private => wrapped'[g][v] = Seal(new, v)
        /\ \A x \in Group \ {g} : wrapped'[x] = wrapped[x]
        /\ outdated' = [outdated EXCEPT ![g] = {}]
    BY <2>2 DEF Recrypt, TypeOK
  <2>6. /\ private = groups'[g].private
        /\ \A x \in Group \ {g} : groups'[x].private = groups[x].private
    BY <2>1, <2>3 DEF TypeOK, GroupRow
  <2>7. \A v \in members[g] : groups'[g].private => wrapped'[g][v] = Seal(new, v)
    BY <2>5, <2>6
  <2>8. new \in Key /\ UNCHANGED <<account, members>>
    BY <2>2, <2>3
  <2> HIDE DEF IInv
  <2> QED BY <1>11, <2>4, <2>5, <2>6, <2>7, <2>8
<1>14. ASSUME NEW s \in Server, NEW g \in Group, NEW u \in User, NEW header \in Header,
              Encrypt(s, g, GroupKey(g, u, header)),
              servers[s].group \in {NoGroup, g}
       PROVE  KeyAgreement'
  <2> SUFFICES ASSUME NEW x \in Group, groups[x].private
               PROVE  \E c \in Key : HaveKey(x, c)'
    BY <1>14 DEF KeyAgreement, Encrypt
  <2>1. PICK c \in Key : HaveKey(x, c)
    BY DEF KeyAgreement
  <2>2. /\ UNCHANGED <<account, members, outdated, wrapped>>
        /\ \A t \in Server : t # s => servers'[t] = servers[t]
        /\ servers'[s].group = g /\ servers'[s].key = GroupKey(g, u, header)
    BY <1>14 DEF Encrypt, memberVars, TypeOK
  <2>3. x = g => GroupKey(g, u, header) = c
    BY <1>14, <2>1, RecoveredKey DEF Encrypt
  <2>4. \A u1 \in members'[x] \ outdated'[x] : wrapped'[x][u1] = Seal(c, u1)'
    BY <2>1, <2>2 DEF HaveKey, Seal
  <2>5. \A t \in ServersOf(x)' : servers'[t].key = c
    BY <2>1, <2>2, <2>3 DEF HaveKey, ServersOf
  <2> QED BY <2>4, <2>5 DEF HaveKey
<1>15. ASSUME NEW u \in User, NEW g \in Group, NEW s \in Server, DeleteDbServer(u, g, s)
       PROVE  KeyAgreement'
  BY <1>15, AgreementFrame DEF DeleteDbServer, TypeOK, NoServer, memberVars
<1>16. CASE AccountNext
  BY <1>16, <1>1, <1>2, <1>3, <1>4 DEF AccountNext, ChangePassword, ResetPassword
<1>17. CASE MemberNext
  BY <1>17, <1>5, <1>6, <1>7, <1>8, <1>9
  DEF MemberNext, AddMember, Join, Leave, RemoveMember, DeleteGroup
<1>18. CASE KeyNext
  <2>1. ASSUME NEW u \in User, NEW header \in Header, GetGroups(u, header)
        PROVE  KeyAgreement'
    BY <2>1, <1>10 DEF GetGroups
  <2>2. ASSUME NEW u \in User, NEW g \in Group, NEW header \in Header,
               GetGroup(u, g, header)
        PROVE  KeyAgreement'
    BY <2>2, <1>10 DEF GetGroup
  <2> QED BY <1>18, <1>12, <1>13, <2>1, <2>2 DEF KeyNext
<1>19. CASE ServerNext
  BY <1>19, <1>14, <1>15 DEF ServerNext, CreateDbServer, UpdateDbServer
<1>20. CASE UNCHANGED vars
  BY <1>20, AgreementFrame DEF vars
<1> QED BY <1>16, <1>17, <1>18, <1>19, <1>20 DEF Next

(* A flag is set when the key pair is replaced and cleared only together   *)
(* with a fresh seal.                                                      *)
LEMMA OutdatedStep ==
    ASSUME IInv, [Next]_vars
    PROVE  OutdatedStale'
<1> USE KeysAssumption
<1> USE DEF IInv
<1>1. ASSUME \A g \in Group : groups'[g].private =>
                 \/ outdated'[g] = {}
                 \/ /\ groups[g].private
                    /\ \A u \in outdated'[g] :
                          /\ u \in outdated[g]
                          /\ wrapped'[g][u] = wrapped[g][u]
                          /\ account'[u].keypair = account[u].keypair
      PROVE  OutdatedStale'
  BY <1>1 DEF OutdatedStale
<1>2. ASSUME NEW u \in User, NEW p \in Password, SignUp(u, p) PROVE OutdatedStale'
  BY <1>1, <1>2 DEF SignUp, TypeOK, RowsConsistent, memberVars
<1>3. ASSUME NEW u \in User, LegacyLogin(u) PROVE OutdatedStale'
  BY <1>1, <1>3 DEF LegacyLogin, TypeOK, Account, RowsConsistent, has_keypair, memberVars
<1>4. ASSUME NEW u \in User, NEW new \in Header, ReplaceKeypair(u, new)
      PROVE  OutdatedStale'
  <2> SUFFICES ASSUME NEW g \in Group, groups[g].private, NEW v \in outdated'[g]
               PROVE  wrapped[g][v].keypair < account'[v].keypair
    BY <1>4 DEF OutdatedStale, ReplaceKeypair
  <2>1. v \in members[g] /\ v \in User
    BY <1>4 DEF ReplaceKeypair, RowsConsistent, TypeOK
  <2>2. account[v].keypair \in Nat
    BY <2>1 DEF TypeOK, Account
  <2>3. wrapped[g][v].keypair <= account[v].keypair
    <3>1. CASE v \in outdated[g]
      <4>1. wrapped[g][v].keypair \in Nat
        BY <2>1 DEF TypeOK, Sealed
      <4> QED BY <2>2, <3>1, <4>1 DEF OutdatedStale
    <3>2. CASE v \notin outdated[g]
      <4>1. PICK k \in Key : HaveKey(g, k)
        BY DEF KeyAgreement
      <4>2. wrapped[g][v] = Seal(k, v)
        BY <2>1, <3>2, <4>1 DEF HaveKey
      <4>3. wrapped[g][v].keypair = account[v].keypair
        BY <4>2 DEF Seal
      <4> QED BY <2>2, <4>3
    <3> QED BY <3>1, <3>2
  <2>4. CASE v = u
    <3>1. account'[v].keypair = account[v].keypair + 1
      BY <1>4, <2>1, <2>4 DEF ReplaceKeypair, TypeOK, Account
    <3>2. wrapped[g][v].keypair \in Nat
      BY <2>1 DEF TypeOK, Sealed
    <3> QED BY <2>2, <2>3, <3>1, <3>2
  <2>5. CASE v # u
    BY <1>4, <2>1, <2>5 DEF ReplaceKeypair, TypeOK, OutdatedStale
  <2> QED BY <2>4, <2>5
<1>5. ASSUME NEW u \in User, DeleteUser(u) PROVE OutdatedStale'
  BY <1>1, <1>5 DEF DeleteUser, TypeOK
<1>6. ASSUME NEW u \in User, NEW g \in Group, NEW private \in BOOLEAN,
             NEW pk \in Key, NEW k \in Key, CreateGroup(u, g, private, pk, k)
      PROVE  OutdatedStale'
  BY <1>1, <1>6 DEF CreateGroup, TypeOK, RowsConsistent
<1>7. ASSUME NEW g \in Group, NEW v \in User, NEW k, AddUser(g, v, k)
      PROVE  OutdatedStale'
  BY <1>1, <1>7 DEF AddUser, TypeOK, RowsConsistent
<1>8. ASSUME NEW g \in Group, DestroyGroup(g) PROVE OutdatedStale'
  BY <1>1, <1>8 DEF DestroyGroup, TypeOK, NoGroupRow
<1>9. ASSUME NEW g \in Group, NEW v \in User, NEW blocked, RemoveUser(g, v, blocked)
      PROVE  OutdatedStale'
  <2>1. CASE DestroyGroup(g)
    BY <1>8, <2>1
  <2>2. CASE ~DestroyGroup(g)
    <3>1. /\ outdated' = [outdated EXCEPT ![g] = @ \ {v}]
          /\ wrapped' = [wrapped EXCEPT ![g][v] = Unsealed]
          /\ UNCHANGED <<account, groups>>
      BY <1>9, <2>2 DEF RemoveUser
    <3> QED BY <3>1, <1>1 DEF TypeOK
  <2> QED BY <2>1, <2>2
<1>10. ASSUME NEW keys, UpdateOutdatedMembers(keys) PROVE OutdatedStale'
  BY <1>1, <1>10 DEF UpdateOutdatedMembers, TypeOK
<1>11. ASSUME NEW u \in User, NEW g \in Group, NEW k \in Key,
              GenerateNewCryptoKey(u, g, k)
       PROVE  OutdatedStale'
  BY <1>1, <1>11 DEF GenerateNewCryptoKey, TypeOK
<1>12. ASSUME NEW u \in User, NEW g \in Group, NEW header \in Header,
              NEW is_private \in IsPrivateParam, NEW k \in Key,
              PutGroup(u, g, header, is_private, k)
       PROVE  OutdatedStale'
  <2>1. PICK private, old, new : Recrypt(g, private, old, new)
    BY <1>12 DEF PutGroup
  <2>2. /\ outdated' = [outdated EXCEPT ![g] = {}]
        /\ \A x \in Group \ {g} : wrapped'[x] = wrapped[x]
    BY <2>1 DEF Recrypt, TypeOK
  <2>3. /\ account' = account
        /\ \A x \in Group \ {g} : groups'[x].private = groups[x].private
    BY <1>12 DEF PutGroup, TypeOK
  <2> QED BY <1>1, <2>2, <2>3 DEF TypeOK
<1>13. ASSUME UNCHANGED <<account, groups, memberVars>> PROVE OutdatedStale'
  BY <1>1, <1>13 DEF memberVars
<1>14. CASE AccountNext
  BY <1>14, <1>2, <1>3, <1>4, <1>5 DEF AccountNext, ChangePassword, ResetPassword
<1>15. CASE MemberNext
  <2>1. ASSUME NEW u, NEW g, NEW v, NEW is_admin, SetAdminPermission(u, g, v, is_admin)
        PROVE  OutdatedStale'
    BY <1>1, <2>1 DEF SetAdminPermission
  <2> QED BY <1>15, <1>6, <1>7, <1>8, <1>9, <2>1
      DEF MemberNext, AddMember, Join, Leave, RemoveMember, DeleteGroup
<1>16. CASE KeyNext
  BY <1>16, <1>10, <1>11, <1>12 DEF KeyNext, GetGroup, GetGroups
<1>17. CASE ServerNext
  <2>1. UNCHANGED <<account, groups, memberVars>>
    BY <1>17 DEF ServerNext, CreateDbServer, UpdateDbServer, DeleteDbServer, Encrypt
  <2> QED BY <1>13, <2>1
<1>18. CASE UNCHANGED vars
  BY <1>18, <1>13 DEF vars, memberVars
<1> QED BY <1>14, <1>15, <1>16, <1>17, <1>18 DEF Next

THEOREM Invariance == Spec => []IInv
<1>1. Init => IInv
  <2>1. Init => TypeOK
    BY TypeInit
  <2>2. Init => RowsConsistent /\ KeyAgreement /\ OutdatedStale
    BY DEF Init, RowsConsistent, KeyAgreement, OutdatedStale, NoGroupRow, NoServer
  <2> QED BY <2>1, <2>2 DEF IInv
<1>2. IInv /\ [Next]_vars => IInv'
  BY TypeStep, RowsStep, AgreementStep, OutdatedStep DEF IInv
<1> QED BY <1>1, <1>2, PTL DEF Spec

(* In a private group the members that are not outdated and the servers    *)
(* always agree on one key, whatever requests resets, rekeys, privacy      *)
(* changes and lost passwords are mixed (group.rb).                        *)
THEOREM KeyAgreementAlways == Spec => []KeyAgreement
BY Invariance, PTL DEF IInv

(* is_outdated marks exactly the members of a private group that cannot    *)
(* recover the key (user.rb update_key_pairs!, group.rb).                  *)
THEOREM OutdatedFlagAlways == Spec => []OutdatedFlagExact
<1>1. IInv => OutdatedFlagExact
  <2> SUFFICES ASSUME IInv, NEW g \in Group, groups[g].private, NEW u \in members[g]
               PROVE  (u \in outdated[g]) <=>
                          (\A header \in Header : MemberKey(g, u, header) = NoKey)
    BY DEF OutdatedFlagExact
  <2> USE KeysAssumption DEF IInv
  <2>1. u \in User /\ account[u].keypair \in Nat /\ account[u].pem \in Header
    BY DEF TypeOK, Account
  <2>2. ASSUME u \in outdated[g] PROVE \A header \in Header : MemberKey(g, u, header) = NoKey
    <3>1. wrapped[g][u].keypair # account[u].keypair
      <4>1. wrapped[g][u].keypair \in Nat
        BY <2>1 DEF TypeOK, Sealed
      <4> QED BY <2>1, <2>2, <4>1 DEF OutdatedStale
    <3> QED BY <3>1 DEF MemberKey
  <2>3. ASSUME u \notin outdated[g]
        PROVE  MemberKey(g, u, account[u].pem) # NoKey
    <3>1. PICK k \in Key : HaveKey(g, k)
      BY DEF KeyAgreement
    <3>2. wrapped[g][u] = Seal(k, u)
      BY <2>3, <3>1 DEF HaveKey
    <3>3. OpensKeypair(u, account[u].pem)
      BY DEF RowsConsistent, OpensKeypair
    <3> QED BY <3>2, <3>3 DEF MemberKey, Seal
  <2> QED BY <2>1, <2>2, <2>3
<1> QED BY <1>1, Invariance, PTL

(* A real password of a public group is never stored under a key that no   *)
(* request can recover: force_new_crypto_key! strands only placeholders.   *)
THEOREM PublicPasswordsAlways == Spec => []PublicPasswordsReadable
<1>1. Init => PublicPasswordsReadable
  BY DEF Init, PublicPasswordsReadable, NoGroupRow
<1>2. IInv /\ PublicPasswordsReadable /\ [Next]_vars => PublicPasswordsReadable'
  <2> SUFFICES ASSUME IInv, PublicPasswordsReadable, [Next]_vars
               PROVE  PublicPasswordsReadable'
    OBVIOUS
  <2> USE KeysAssumption DEF IInv
  (* A step that leaves the groups alone may drop servers, or store a      *)
  (* password under a key the group recovered.                             *)
  <2>1. ASSUME groups' = groups,
               \A s \in Server :
                   \/ servers'[s] \in {servers[s], NoServer}
                   \/ servers'[s].blanked
                   \/ /\ servers'[s].group \in Group
                      /\ ~groups[servers'[s].group].private =>
                           servers'[s].key = groups[servers'[s].group].public_crypto_key
        PROVE  PublicPasswordsReadable'
    BY <2>1 DEF PublicPasswordsReadable, ServersOf, NoServer
  <2>2. CASE AccountNext
    <3>1. UNCHANGED <<groups, servers>>
      BY <2>2 DEF AccountNext, SignUp, LegacyLogin, ChangePassword, ResetPassword,
         ReplaceKeypair, DeleteUser
    <3> QED BY <2>1, <3>1
  <2>3. ASSUME NEW g \in Group, DestroyGroup(g) PROVE PublicPasswordsReadable'
    BY <2>3 DEF DestroyGroup, TypeOK, PublicPasswordsReadable, ServersOf, NoServer, NoGroupRow
  <2>4. ASSUME NEW g \in Group, NEW v \in User, NEW blocked, RemoveUser(g, v, blocked)
        PROVE  PublicPasswordsReadable'
    <3>1. DestroyGroup(g) \/ UNCHANGED <<groups, servers>>
      BY <2>4 DEF RemoveUser
    <3> QED BY <2>1, <2>3, <3>1
  <2>5. ASSUME NEW u \in User, NEW g \in Group, NEW private \in BOOLEAN,
               NEW pk \in Key, NEW k \in Key, CreateGroup(u, g, private, pk, k)
        PROVE  PublicPasswordsReadable'
    BY <2>5 DEF CreateGroup, TypeOK, RowsConsistent, PublicPasswordsReadable, ServersOf
  <2>6. CASE MemberNext
    <3>1. ASSUME NEW u, NEW g, NEW v, NEW is_admin, SetAdminPermission(u, g, v, is_admin)
          PROVE  PublicPasswordsReadable'
      BY <2>1, <3>1 DEF SetAdminPermission
    <3>2. ASSUME NEW g, NEW v, NEW k, AddUser(g, v, k) PROVE PublicPasswordsReadable'
      BY <2>1, <3>2 DEF AddUser
    <3> QED BY <2>6, <2>3, <2>4, <2>5, <3>1, <3>2
        DEF MemberNext, AddMember, Join, Leave, RemoveMember, DeleteGroup
  <2>7. ASSUME NEW u \in User, NEW g \in Group, NEW k \in Key,
               GenerateNewCryptoKey(u, g, k)
        PROVE  PublicPasswordsReadable'
    <3>1. \A s \in Server : servers'[s] = servers[s] \/ servers'[s].blanked
      BY <2>7 DEF GenerateNewCryptoKey, TypeOK, ServerRow
    <3>2. groups' = groups
      BY <2>7 DEF GenerateNewCryptoKey
    <3> QED BY <2>1, <3>1, <3>2
  <2>8. ASSUME NEW u \in User, NEW g \in Group, NEW header \in Header,
               NEW is_private \in IsPrivateParam, NEW k \in Key,
               PutGroup(u, g, header, is_private, k)
        PROVE  PublicPasswordsReadable'
    <3> DEFINE private == is_private = "true" \/ (is_private = "nil" /\ groups[g].private)
               public_key == groups[g].public_crypto_key
    <3>1. PICK old, new : /\ Recrypt(g, private, old, new)
                          /\ ~private => new = public_key
      BY <2>8 DEF PutGroup
    <3>2. groups' = [groups EXCEPT ![g].private = private]
      BY <2>8 DEF PutGroup
    <3>3. private \in BOOLEAN
      BY <2>8 DEF TypeOK, GroupRow
    <3> HIDE DEF private
    <3>4. /\ \A x \in Group \ {g} : groups'[x] = groups[x]
          /\ groups'[g].private = private
          /\ groups'[g].public_crypto_key = public_key
      BY <3>2, <3>3 DEF TypeOK, GroupRow
    <3>5. \A s \in Server : IF servers[s].group = g
                            THEN servers'[s].group = g /\ servers'[s].key = new
                            ELSE servers'[s] = servers[s]
      BY <3>1 DEF Recrypt, TypeOK, ServerRow
    <3> QED BY <3>1, <3>4, <3>5 DEF PublicPasswordsReadable, ServersOf
  <2>9. CASE KeyNext
    <3>1. ASSUME NEW keys, UpdateOutdatedMembers(keys) PROVE PublicPasswordsReadable'
      BY <2>1, <3>1 DEF UpdateOutdatedMembers
    <3> QED BY <2>9, <2>7, <2>8, <3>1 DEF KeyNext, GetGroup, GetGroups
  <2>10. ASSUME NEW u \in User, NEW g \in Group, NEW s \in Server, NEW header \in Header,
                Encrypt(s, g, GroupKey(g, u, header))
         PROVE  PublicPasswordsReadable'
    <3>1. /\ groups' = groups
          /\ \A t \in Server : t # s => servers'[t] = servers[t]
          /\ servers'[s].group = g
          /\ servers'[s].key = GroupKey(g, u, header)
      BY <2>10 DEF Encrypt, TypeOK
    <3> QED BY <2>1, <3>1 DEF GroupKey
  <2>11. CASE ServerNext
    <3>1. ASSUME NEW u \in User, NEW g \in Group, NEW s \in Server, DeleteDbServer(u, g, s)
          PROVE  PublicPasswordsReadable'
      BY <2>1, <3>1 DEF DeleteDbServer, TypeOK
    <3> QED BY <2>11, <2>10, <3>1 DEF ServerNext, CreateDbServer, UpdateDbServer
  <2>12. CASE UNCHANGED vars
    BY <2>12, <2>1 DEF vars
  <2> QED BY <2>2, <2>6, <2>9, <2>11, <2>12 DEF Next
<1> QED BY <1>1, <1>2, Invariance, PTL DEF Spec


-----------------------------------------------------------------------------
(* Requests about accounts and members leave the servers alone, unless the *)
(* group is destroyed.                                                     *)
LEMMA ServersKept ==
    ASSUME AccountNext \/ MemberNext
    PROVE  UNCHANGED servers \/ \E g \in Group : DestroyGroup(g)
<1>1. ASSUME AccountNext PROVE UNCHANGED servers
  <2>1. ASSUME NEW u, NEW new, ReplaceKeypair(u, new) PROVE UNCHANGED servers
    BY <2>1 DEF ReplaceKeypair
  <2>2. ASSUME NEW u, NEW p, SignUp(u, p) \/ LegacyLogin(u) \/ DeleteUser(u)
        PROVE  UNCHANGED servers
    BY <2>2 DEF SignUp, LegacyLogin, DeleteUser
  <2> QED BY <1>1, <2>1, <2>2 DEF AccountNext, ChangePassword, ResetPassword
<1>2. ASSUME MemberNext PROVE UNCHANGED servers \/ \E g \in Group : DestroyGroup(g)
  <2>1. ASSUME NEW g \in Group, NEW v, NEW blocked, RemoveUser(g, v, blocked)
        PROVE  UNCHANGED servers \/ \E x \in Group : DestroyGroup(x)
    BY <2>1 DEF RemoveUser
  <2>2. ASSUME NEW g, NEW v, NEW k, AddUser(g, v, k) PROVE UNCHANGED servers
    BY <2>2 DEF AddUser
  <2>3. ASSUME NEW u, NEW g, NEW private, NEW pk, NEW k, CreateGroup(u, g, private, pk, k)
        PROVE  UNCHANGED servers
    BY <2>3 DEF CreateGroup
  <2>4. ASSUME NEW u, NEW g, NEW v, NEW is_admin, SetAdminPermission(u, g, v, is_admin)
        PROVE  UNCHANGED servers
    BY <2>4 DEF SetAdminPermission
  <2> QED BY <1>2, <2>1, <2>2, <2>3, <2>4
      DEF MemberNext, AddMember, Join, Leave, RemoveMember, DeleteGroup
<1> QED BY <1>1, <1>2

(* A forced new key changes nothing but the group's servers, all of which  *)
(* lose their password, and the keys of its members.                       *)
LEMMA ForcedKey ==
    ASSUME TypeOK, NEW u \in User, NEW g \in Group, NEW k \in Key, GenerateNewCryptoKey(u, g, k)
    PROVE  /\ UNCHANGED <<account, groups, members, admins>>
           /\ outdated'[g] = {}
           /\ \A v \in members[g] : wrapped'[g][v] = Seal(k, v)
           /\ \A s \in Server : servers[s].group # g => servers'[s] = servers[s]
           /\ \A s \in Server :
                  servers[s].group = g => servers'[s].blanked /\ servers'[s].key = k
           /\ \A s \in Server : servers'[s].group = servers[s].group
<1> USE KeysAssumption
<1>1. /\ UNCHANGED <<account, groups, members, admins>>
      /\ outdated' = [outdated EXCEPT ![g] = {}]
      /\ wrapped' = [wrapped EXCEPT ![g] = [v \in User |->
                       IF v \in members[g] THEN Seal(k, v) ELSE @[v]]]
  BY DEF GenerateNewCryptoKey
<1>2. outdated'[g] = {} /\ \A v \in members[g] : wrapped'[g][v] = Seal(k, v)
  BY <1>1 DEF TypeOK
<1>3. \A s \in Server : servers[s].group # g => servers'[s] = servers[s]
  BY DEF GenerateNewCryptoKey, TypeOK, ServerRow
<1>4. \A s \in Server :
          servers[s].group = g => servers'[s].blanked /\ servers'[s].key = k
  BY DEF GenerateNewCryptoKey, TypeOK, ServerRow
<1>5. \A s \in Server : servers'[s].group = servers[s].group
  BY DEF GenerateNewCryptoKey, TypeOK, ServerRow
<1> QED BY <1>1, <1>2, <1>3, <1>4, <1>5

(* A private group that keeps members keeps an admin, but for the deletion *)
(* of accounts: leave? refuses the last admin unless it is alone, and an   *)
(* admin can neither remove nor demote itself (group_policy.rb).           *)
THEOREM AdminsKeptAlways == Spec => AdminsKept
<1>1. IInv /\ [Next]_vars =>
          [\A g \in Group :
             groups[g].private /\ groups'[g].private /\ members'[g] # {}
             /\ admins[g] # {} /\ admins'[g] = {}
             => \E u \in User : account[u].exists /\ ~account'[u].exists]_vars
  <2> SUFFICES ASSUME IInv, Next, NEW g \in Group,
                      groups[g].private, members'[g] # {}, admins[g] # {}, admins'[g] = {}
               PROVE  \E u \in User : account[u].exists /\ ~account'[u].exists
    OBVIOUS
  <2>1. TypeOK
    BY DEF IInv
  <2>2. admins' # admins
    OBVIOUS
  <2>3. CASE AccountNext
    <3>1. ASSUME NEW u \in User, NEW new, ReplaceKeypair(u, new) PROVE FALSE
      BY <2>2, <3>1 DEF ReplaceKeypair
    <3>2. ASSUME NEW u \in User, NEW p, SignUp(u, p) \/ LegacyLogin(u) PROVE FALSE
      BY <2>2, <3>2 DEF SignUp, LegacyLogin, memberVars
    <3>3. PICK u \in User : DeleteUser(u)
      BY <2>3, <3>1, <3>2 DEF AccountNext, ChangePassword, ResetPassword
    <3> QED BY <2>1, <3>3 DEF DeleteUser, TypeOK, NoAccount
  <2>4. ASSUME NEW x \in Group, NEW v \in User, NEW blocked, RemoveUser(x, v, blocked),
               admins[x] # {v} \/ members[x] = {v}
        PROVE  FALSE
    <3>1. ~DestroyGroup(x) \/ x # g
      BY <2>1 DEF DestroyGroup, TypeOK
    <3>2. ~DestroyGroup(x)
      BY <2>1, <3>1 DEF DestroyGroup, TypeOK
    <3>3. /\ members' = [members EXCEPT ![x] = @ \ {v}]
          /\ admins' = [admins EXCEPT ![x] = @ \ {v}]
      BY <2>4, <3>2 DEF RemoveUser
    <3> QED BY <2>1, <2>4, <3>3 DEF TypeOK
  <2>5. CASE MemberNext
    <3>1. ASSUME NEW u \in User, NEW x \in Group, NEW private \in BOOLEAN, NEW pk \in Key,
                 NEW k \in Key, CreateGroup(u, x, private, pk, k)
          PROVE  FALSE
      BY <2>1, <3>1 DEF CreateGroup, TypeOK
    <3>2. ASSUME NEW u \in User, NEW x \in Group, NEW blocked, Leave(u, x, blocked)
          PROVE  FALSE
      <4>1. CASE x = g
        BY <2>4, <3>2, <4>1 DEF Leave, MayLeave
      <4>2. CASE x # g
        BY <2>1, <3>2, <4>2 DEF Leave, RemoveUser, DestroyGroup, TypeOK
      <4> QED BY <4>1, <4>2
    <3>3. ASSUME NEW u \in User, NEW x \in Group, NEW v \in User, NEW blocked,
                 RemoveMember(u, x, v, blocked)
          PROVE  FALSE
      BY <2>4, <3>3 DEF RemoveMember
    <3>4. ASSUME NEW u \in User, NEW x \in Group, NEW v \in User, NEW is_admin \in BOOLEAN,
                 SetAdminPermission(u, x, v, is_admin)
          PROVE  FALSE
      BY <2>1, <3>4 DEF SetAdminPermission, TypeOK
    <3>5. ASSUME NEW x \in Group, DestroyGroup(x) PROVE FALSE
      BY <2>1, <3>5 DEF DestroyGroup, TypeOK
    <3>6. ASSUME NEW x, NEW v, NEW k, AddUser(x, v, k) PROVE FALSE
      BY <2>2, <3>6 DEF AddUser
    <3> QED BY <2>5, <3>1, <3>2, <3>3, <3>4, <3>5, <3>6
        DEF MemberNext, AddMember, Join, DeleteGroup
  <2>6. CASE KeyNext
    <3>1. UNCHANGED admins
      <4>1. ASSUME NEW keys, UpdateOutdatedMembers(keys) PROVE UNCHANGED admins
        BY <4>1 DEF UpdateOutdatedMembers
      <4>2. ASSUME NEW u \in User, NEW x \in Group, NEW k \in Key, GenerateNewCryptoKey(u, x, k)
            PROVE  UNCHANGED admins
        BY <2>1, <4>2, ForcedKey
      <4>3. ASSUME NEW u, NEW x, NEW header, NEW param, NEW k, PutGroup(u, x, header, param, k)
            PROVE  UNCHANGED admins
        BY <4>3 DEF PutGroup
      <4> QED BY <2>6, <4>1, <4>2, <4>3 DEF KeyNext, GetGroups, GetGroup
    <3> QED BY <2>2, <3>1
  <2>7. CASE ServerNext
    BY <2>2, <2>7 DEF ServerNext, CreateDbServer, UpdateDbServer, DeleteDbServer, Encrypt,
       memberVars
  <2> QED BY <2>3, <2>5, <2>6, <2>7 DEF Next
<1> QED BY <1>1, Invariance, PTL DEF Spec, AdminsKept

(* A password is given up only by the forced new key, which gives up every *)
(* other one of the group and renews the key of every member (group.rb).   *)
THEOREM BlankingIsCompleteAlways == Spec => BlankingIsComplete
<1>1. IInv /\ [Next]_vars =>
          [\A s \in Server :
             LET g == servers[s].group
             IN  g # NoGroup /\ servers'[s].group = g /\ ~servers[s].blanked
                 /\ servers'[s].blanked
                 => /\ outdated'[g] = {}
                    /\ \A t \in Server : servers'[t].group = g => servers'[t].blanked]_vars
  <2> SUFFICES ASSUME IInv, Next, NEW s \in Server,
                      servers[s].group # NoGroup, ~servers[s].blanked, servers'[s].blanked
               PROVE  /\ outdated'[servers[s].group] = {}
                      /\ \A t \in Server :
                             servers'[t].group = servers[s].group => servers'[t].blanked
    OBVIOUS
  <2>1. TypeOK
    BY DEF IInv
  <2>2. servers'[s] # servers[s]
    OBVIOUS
  <2>3. ~\E x \in Group : DestroyGroup(x)
    BY <2>1 DEF DestroyGroup, TypeOK, NoServer
  <2>4. ~AccountNext /\ ~MemberNext
    <3>1. ~UNCHANGED servers
      BY <2>2
    <3> QED BY <2>3, <3>1, ServersKept
  <2>5. ASSUME NEW x \in Group, NEW t \in Server, NEW k, Encrypt(t, x, k) PROVE FALSE
    BY <2>1, <2>5 DEF Encrypt, TypeOK
  <2>6. ~ServerNext
    BY <2>1, <2>5 DEF ServerNext, CreateDbServer, UpdateDbServer, DeleteDbServer, TypeOK, NoServer
  <2>7. ASSUME NEW u \in User, NEW x \in Group, NEW header \in Header,
               NEW is_private \in IsPrivateParam, NEW k \in Key,
               PutGroup(u, x, header, is_private, k)
        PROVE  FALSE
    <3>1. PICK private, old, new : Recrypt(x, private, old, new)
      BY <2>7 DEF PutGroup
    <3> QED BY <2>1, <3>1 DEF Recrypt, TypeOK, ServerRow
  <2>8. PICK u \in User, x \in Group, k \in Key : GenerateNewCryptoKey(u, x, k)
    BY <2>2, <2>4, <2>6, <2>7 DEF Next, KeyNext, GetGroups, GetGroup, UpdateOutdatedMembers
  <2> QED BY <2>1, <2>2, <2>8, ForcedKey
<1> QED BY <1>1, Invariance, PTL DEF Spec, BlankingIsComplete

(* What a change of privacy leaves of a group that is private afterwards.  *)
LEMMA Rekeyed ==
    ASSUME TypeOK, NEW u \in User, NEW g \in Group, NEW header \in Header,
           NEW is_private \in IsPrivateParam, NEW k \in Key,
           PutGroup(u, g, header, is_private, k)
    PROVE  \E new : /\ UNCHANGED <<account, members, admins>>
                    /\ \A x \in Group \ {g} : groups'[x] = groups[x]
                    /\ groups'[g].private =>
                           /\ outdated'[g] = {}
                           /\ \A v \in members[g] : wrapped'[g][v] = Seal(new, v)
                    /\ \A s \in Server :
                           /\ servers'[s].group = servers[s].group
                           /\ IF servers[s].group = g THEN servers'[s].key = new
                              ELSE servers'[s] = servers[s]
<1> DEFINE private == is_private = "true" \/ (is_private = "nil" /\ groups[g].private)
<1>1. PICK old, new : Recrypt(g, private, old, new)
  BY DEF PutGroup
<1>2. /\ groups' = [groups EXCEPT ![g].private = private]
      /\ UNCHANGED <<account, members, admins>>
  BY DEF PutGroup
<1>3. private \in BOOLEAN
  BY DEF TypeOK, GroupRow, PutGroup
<1> HIDE DEF private
<1>4. groups'[g].private = private /\ \A x \in Group \ {g} : groups'[x] = groups[x]
  BY <1>2, <1>3 DEF TypeOK, GroupRow
<1>5. outdated'[g] = {}
  BY <1>1 DEF Recrypt, TypeOK
<1>6. private => \A v \in members[g] : wrapped'[g][v] = Seal(new, v)
  BY <1>1 DEF Recrypt, TypeOK
<1>7. \A s \in Server : /\ servers'[s].group = servers[s].group
                        /\ IF servers[s].group = g THEN servers'[s].key = new
                           ELSE servers'[s] = servers[s]
  BY <1>1 DEF Recrypt, TypeOK, ServerRow
<1> QED BY <1>2, <1>4, <1>5, <1>6, <1>7

(* Whatever renews the key of the servers of a private group reaches each  *)
(* of its members in the same request; storing a password there never does *)
(* so, since the key it recovers is the key they agree on (group.rb).      *)
THEOREM RekeyReachesMembersAlways == Spec => RekeyReachesMembers
<1>1. IInv /\ [Next]_vars =>
          [\A s \in Server :
             LET g == servers[s].group
             IN  g # NoGroup /\ servers'[s].group = g /\ groups'[g].private
                 /\ servers'[s].key # servers[s].key
                 => \A u \in members'[g] :
                        u \notin outdated'[g] /\ wrapped'[g][u].key = servers'[s].key]_vars
  <2> SUFFICES ASSUME IInv, Next, NEW s \in Server, servers[s].group # NoGroup,
                      servers'[s].group = servers[s].group, groups'[servers[s].group].private,
                      servers'[s].key # servers[s].key,
                      NEW v \in members'[servers[s].group]
               PROVE  /\ v \notin outdated'[servers[s].group]
                      /\ wrapped'[servers[s].group][v].key = servers'[s].key
    OBVIOUS
  <2> USE KeysAssumption
  <2> PICK g \in Group : g = servers[s].group
    BY DEF IInv, TypeOK, ServerRow
  <2>1. TypeOK
    BY DEF IInv
  <2>2. ~UNCHANGED servers
    OBVIOUS
  <2>3. ASSUME NEW x \in Group, DestroyGroup(x) PROVE FALSE
    <3>1. servers'[s] \in {servers[s], NoServer}
      BY <2>1, <2>3 DEF DestroyGroup, TypeOK
    <3> QED BY <3>1 DEF NoServer
  <2>4. ~AccountNext /\ ~MemberNext
    BY <2>2, <2>3, ServersKept
  <2>5. ASSUME NEW u \in User, NEW x \in Group, NEW k \in Key, GenerateNewCryptoKey(u, x, k)
        PROVE  v \notin outdated'[g] /\ wrapped'[g][v].key = servers'[s].key
    <3>1. x = g
      BY <2>1, <2>5, ForcedKey
    <3>2. v \notin outdated'[g] /\ wrapped'[g][v] = Seal(k, v) /\ servers'[s].key = k
      BY <2>1, <2>5, <3>1, ForcedKey
    <3> QED BY <3>2 DEF Seal
  <2>6. ASSUME NEW u \in User, NEW x \in Group, NEW header \in Header,
               NEW is_private \in IsPrivateParam, NEW k \in Key,
               PutGroup(u, x, header, is_private, k)
        PROVE  v \notin outdated'[g] /\ wrapped'[g][v].key = servers'[s].key
    <3>1. PICK new : /\ members' = members
                     /\ groups'[x].private =>
                            /\ outdated'[x] = {}
                            /\ \A w \in members[x] : wrapped'[x][w] = Seal(new, w)
                     /\ IF servers[s].group = x THEN servers'[s].key = new
                        ELSE servers'[s] = servers[s]
      BY <2>1, <2>6, Rekeyed
    <3>2. x = g
      BY <3>1
    <3>3. v \notin outdated'[g] /\ wrapped'[g][v] = Seal(new, v) /\ servers'[s].key = new
      BY <3>1, <3>2
    <3> QED BY <3>3 DEF Seal
  <2>7. ASSUME NEW u \in User, NEW x \in Group, NEW t \in Server, NEW header \in Header,
               Encrypt(t, x, GroupKey(x, u, header)), groups' = groups
        PROVE  FALSE
    <3>1. servers' = [servers EXCEPT ![t] = [group |-> x, key |-> GroupKey(x, u, header),
                                             blanked |-> FALSE]]
          /\ GroupKey(x, u, header) # NoKey
      BY <2>7 DEF Encrypt
    <3>2. s = t /\ x = g /\ servers'[s].key = GroupKey(g, u, header)
      BY <2>1, <3>1 DEF TypeOK
    <3>3. groups[g].private
      BY <2>7
    <3>4. PICK c \in Key : HaveKey(g, c)
      BY <3>3 DEF IInv, KeyAgreement
    <3>5. GroupKey(g, u, header) = c
      BY <2>1, <3>1, <3>2, <3>3, <3>4, RecoveredKey DEF IInv
    <3>6. servers[s].key = c
      BY <3>4 DEF HaveKey, ServersOf
    <3> QED BY <3>2, <3>5, <3>6
  <2>8. ~ServerNext
    <3>1. ASSUME NEW u \in User, NEW x \in Group, NEW t \in Server, DeleteDbServer(u, x, t)
          PROVE  FALSE
      <4>1. servers'[s] \in {servers[s], NoServer}
        BY <2>1, <3>1 DEF DeleteDbServer, TypeOK
      <4> QED BY <4>1 DEF NoServer
    <3>2. ASSUME NEW x, NEW t, NEW k, Encrypt(t, x, k) PROVE groups' = groups
      BY <3>2 DEF Encrypt
    <3> QED BY <2>7, <3>1, <3>2 DEF ServerNext, CreateDbServer, UpdateDbServer
  <2>9. ASSUME NEW keys, UpdateOutdatedMembers(keys) PROVE FALSE
    BY <2>2, <2>9 DEF UpdateOutdatedMembers
  <2> QED BY <2>4, <2>5, <2>6, <2>8, <2>9 DEF Next, KeyNext, GetGroups, GetGroup
<1> QED BY <1>1, Invariance, PTL DEF Spec, RekeyReachesMembers

-----------------------------------------------------------------------------
(***************************************************************************)
(* GroupKeys implements SharedSecret.                                      *)
(*                                                                         *)
(* Who holds a key is a question of what can be decrypted.  The invariant  *)
(* above answers it with the rows: the holders of a private group are the  *)
(* members without the outdated flag (Mapped).  Then every request is a    *)
(* step of each group, by what it does to the rows.                        *)
(***************************************************************************)

UpToDate(g) == IF groups[g].private THEN members[g] \ outdated[g] ELSE {}
Flagged(g) == IF groups[g].private THEN outdated[g] ELSE {}
Stored(g) == IF groups[g].private THEN {s \in ServersOf(g) : ~servers[s].blanked} ELSE {}

(* The abstract state in terms of rows.                                    *)
Rows == INSTANCE SharedSecret WITH
    kind <- [g \in Group |-> KindOf(g)],
    holders <- [g \in Group |-> UpToDate(g)],
    waiting <- [g \in Group |-> Flagged(g)],
    secrets <- [g \in Group |-> Stored(g)]

TellByRows ==
    \A g \in Group :
        /\ Holders(g) = UpToDate(g)
        /\ Waiting(g) = Flagged(g)
        /\ Secrets(g) = Stored(g)

(* In a private group those who recover the key are those not flagged, and *)
(* what they recover is the key of every server.                           *)
LEMMA Mapped == IInv => TellByRows
<1> SUFFICES ASSUME IInv, NEW g \in Group
             PROVE  /\ Holders(g) = UpToDate(g)
                    /\ Waiting(g) = Flagged(g)
                    /\ Secrets(g) = Stored(g)
  BY DEF TellByRows
<1> USE KeysAssumption
<1>1. CASE ~groups[g].private
  BY <1>1 DEF Holders, Waiting, Secrets, UpToDate, Flagged, Stored
<1>2. CASE groups[g].private
  <2>1. PICK k \in Key : HaveKey(g, k)
    BY <1>2 DEF IInv, KeyAgreement
  <2>2. outdated[g] \subseteq members[g] /\ members[g] \subseteq User
    BY DEF IInv, RowsConsistent, TypeOK
  <2>3. ASSUME NEW u \in members[g], NEW header
        PROVE  MemberKey(g, u, header) \in {NoKey, k}
    BY <1>2, <2>1, <2>2, RecoveredKey DEF IInv, GroupKey
  <2>4. ASSUME NEW u \in members[g] \ outdated[g]
        PROVE  \E header \in Header : MemberKey(g, u, header) # NoKey
    <3>1. wrapped[g][u] = Seal(k, u)
      BY <2>1, <2>4 DEF HaveKey
    <3>2. OpensKeypair(u, account[u].pem) /\ account[u].pem \in Header
      BY <2>2, <2>4 DEF IInv, RowsConsistent, OpensKeypair, TypeOK, Account
    <3> QED BY <3>1, <3>2, <2>4 DEF MemberKey, Seal
  <2>5. ASSUME NEW u \in outdated[g], NEW header
        PROVE  MemberKey(g, u, header) = NoKey
    <3>1. wrapped[g][u].keypair \in Nat /\ account[u].keypair \in Nat
      BY <2>2, <2>5 DEF IInv, TypeOK, Sealed, Account
    <3> QED BY <1>2, <3>1, <2>5 DEF MemberKey, IInv, OutdatedStale
  <2>6. Holders(g) = members[g] \ outdated[g]
    BY <1>2, <2>4, <2>5 DEF Holders
  <2>7. \A s \in ServersOf(g) : servers[s].key = k
    BY <2>1 DEF HaveKey
  <2>8. Secrets(g) = {s \in ServersOf(g) : ~servers[s].blanked}
    BY <1>2, <2>3, <2>7 DEF Secrets
  <2>9. Waiting(g) = outdated[g]
    BY <1>2, <2>2, <2>6 DEF Waiting
  <2> QED BY <1>2, <2>6, <2>8, <2>9 DEF UpToDate, Flagged, Stored
<1> QED BY <1>1, <1>2

-----------------------------------------------------------------------------
(* A step that does not touch the rows of a group is none of the group.    *)
SameRows(g) ==
    /\ groups'[g].exists = groups[g].exists /\ groups'[g].private = groups[g].private
    /\ members'[g] = members[g] /\ outdated'[g] = outdated[g]

SameServers(g) ==
    \A s \in Server : IF servers[s].group = g
                      THEN servers'[s].group = g /\ servers'[s].blanked = servers[s].blanked
                      ELSE servers'[s].group # g

LEMMA StoredFrame ==
    ASSUME NEW g \in Group, groups'[g].private = groups[g].private, SameServers(g)
    PROVE  Stored(g)' = Stored(g)
  BY DEF SameServers, Stored, ServersOf

LEMMA RestStep ==
    ASSUME NEW g \in Group, SameRows(g), SameServers(g)
    PROVE  Rows!GroupStep(g)
<1>1. KindOf(g)' = KindOf(g) /\ UpToDate(g)' = UpToDate(g) /\ Flagged(g)' = Flagged(g)
  BY DEF SameRows, KindOf, UpToDate, Flagged
<1>2. Stored(g)' = Stored(g)
  BY StoredFrame DEF SameRows
<1>3. Rows!Rest(g)
  BY <1>1, <1>2 DEF Rows!Rest
<1> QED BY <1>3 DEF Rows!GroupStep

(* The same of a group that is not private, and stays that.                *)
LEMMA PublicStep ==
    ASSUME NEW g \in Group, groups[g].exists, ~groups[g].private,
           groups'[g].exists, ~groups'[g].private
    PROVE  Rows!GroupStep(g)
<1>1. Rows!Rest(g)
  BY DEF Rows!Rest, KindOf, UpToDate, Flagged, Stored
<1> QED BY <1>1 DEF Rows!GroupStep

(* A private group that stays one, in terms of its rows.                   *)
LEMMA PrivateRows ==
    ASSUME NEW g \in Group, groups[g].exists, groups[g].private
    PROVE  /\ KindOf(g) = "private"
           /\ UpToDate(g) = members[g] \ outdated[g]
           /\ Flagged(g) = outdated[g]
           /\ Stored(g) = {s \in ServersOf(g) : ~servers[s].blanked}
  BY DEF KindOf, UpToDate, Flagged, Stored

LEMMA PrivateRowsNext ==
    ASSUME NEW g \in Group, groups'[g].exists, groups'[g].private
    PROVE  /\ KindOf(g)' = "private"
           /\ UpToDate(g)' = members'[g] \ outdated'[g]
           /\ Flagged(g)' = outdated'[g]
           /\ Stored(g)' = {s \in ServersOf(g)' : ~servers'[s].blanked}
  BY DEF KindOf, UpToDate, Flagged, Stored

LEMMA AbstractRows ==
    ASSUME NEW g \in Group
    PROVE  /\ [x \in Group |-> KindOf(x)][g] = KindOf(g)
           /\ [x \in Group |-> UpToDate(x)][g] = UpToDate(g)
           /\ [x \in Group |-> Flagged(x)][g] = Flagged(g)
           /\ [x \in Group |-> Stored(x)][g] = Stored(g)
  OBVIOUS

(* Who recovers the key of a private group is one of its holders.          *)
LEMMA RecoveryHolds ==
    ASSUME IInv, NEW g \in Group, groups[g].private, NEW u \in User, NEW header \in Header,
           GroupKey(g, u, header) # NoKey
    PROVE  u \in UpToDate(g)
<1>1. u \in members[g] /\ MemberKey(g, u, header) # NoKey
  BY DEF GroupKey, MemberKey
<1>2. u \in Holders(g)
  BY <1>1 DEF Holders
<1> QED BY <1>2, Mapped DEF TellByRows

LEMMA LiveIfPrivate ==
    ASSUME IInv, NEW g \in Group, groups[g].private PROVE groups[g].exists
  BY DEF IInv, RowsConsistent

-----------------------------------------------------------------------------
(* The requests, one lemma for each kind.                                  *)

LEMMA AccountSteps ==
    ASSUME IInv, AccountNext, NEW g \in Group
    PROVE  Rows!GroupStep(g)
<1> USE DEF IInv
<1>1. CASE UNCHANGED <<groups, memberVars, servers>>
  <2>1. SameRows(g) /\ SameServers(g)
    BY <1>1 DEF SameRows, SameServers, memberVars
  <2> QED BY <2>1, RestStep
<1>2. ASSUME NEW u \in User, NEW new \in Header, ReplaceKeypair(u, new)
      PROVE  Rows!GroupStep(g)
  <2>1. UNCHANGED <<groups, members, servers>>
    BY <1>2 DEF ReplaceKeypair
  <2>2. SameServers(g)
    BY <2>1 DEF SameServers
  <2>3. outdated'[g] = IF u \in members[g] THEN outdated[g] \cup {u} ELSE outdated[g]
    BY <1>2 DEF ReplaceKeypair, RowsConsistent
  <2>4. CASE ~groups[g].private \/ u \notin members[g] \/ u \in outdated[g]
    <3>1. /\ KindOf(g)' = KindOf(g) /\ UpToDate(g)' = UpToDate(g)
          /\ Flagged(g)' = Flagged(g)
      BY <2>1, <2>3, <2>4 DEF KindOf, UpToDate, Flagged
    <3>2. Stored(g)' = Stored(g)
      BY <2>1, <2>2, StoredFrame
    <3>3. Rows!Rest(g)
      BY <3>1, <3>2 DEF Rows!Rest
    <3> QED BY <3>3 DEF Rows!GroupStep
  <2>5. CASE groups[g].private /\ u \in members[g] /\ u \notin outdated[g]
    <3>1. groups[g].exists
      BY <2>5, LiveIfPrivate
    <3>2. Stored(g)' = Stored(g)
      BY <2>1, <2>2, StoredFrame
    <3>3. /\ u \in UpToDate(g)
          /\ UpToDate(g)' = UpToDate(g) \ {u}
          /\ Flagged(g)' = Flagged(g) \cup {u}
          /\ KindOf(g) = "private" /\ KindOf(g)' = "private"
      BY <2>1, <2>3, <2>5, <3>1 DEF KindOf, UpToDate, Flagged
    <3>4. Rows!Lose(g, u)
      BY <3>2, <3>3 DEF Rows!Lose, Rows!Becomes
    <3> QED BY <3>4 DEF Rows!GroupStep
  <2> QED BY <2>4, <2>5
<1>3. ASSUME NEW u \in User, DeleteUser(u) PROVE Rows!GroupStep(g)
  <2>1. /\ members'[g] = members[g] \ {u} /\ outdated'[g] = outdated[g] \ {u}
        /\ UNCHANGED <<groups, servers>>
    BY <1>3 DEF DeleteUser
  <2>2. Stored(g)' = Stored(g)
    BY <2>1, StoredFrame DEF SameServers
  <2>3. CASE ~groups[g].private
    <3>1. Rows!Rest(g)
      BY <2>1, <2>2, <2>3 DEF Rows!Rest, KindOf, UpToDate, Flagged
    <3> QED BY <3>1 DEF Rows!GroupStep
  <2>4. CASE groups[g].private
    <3>1. groups[g].exists
      BY <2>4, LiveIfPrivate
    <3>2. /\ UpToDate(g)' = UpToDate(g) \ {u}
          /\ Flagged(g)' = Flagged(g) \ {u}
          /\ KindOf(g) = "private" /\ KindOf(g)' = "private"
      BY <2>1, <2>4, <3>1 DEF KindOf, UpToDate, Flagged
    <3>3. Rows!Leave(g, u)
      BY <2>2, <3>2 DEF Rows!Leave, Rows!Becomes
    <3> QED BY <3>3 DEF Rows!GroupStep
  <2> QED BY <2>3, <2>4
<1>4. ASSUME NEW u, NEW p, SignUp(u, p) \/ LegacyLogin(u)
      PROVE  UNCHANGED <<groups, memberVars, servers>>
  BY <1>4 DEF SignUp, LegacyLogin
<1> QED BY <1>1, <1>2, <1>3, <1>4 DEF AccountNext, ChangePassword, ResetPassword

LEMMA DestroySteps ==
    ASSUME IInv, NEW x \in Group, groups[x].exists, DestroyGroup(x), NEW g \in Group
    PROVE  Rows!GroupStep(g)
<1>1. CASE g = x
  <2>1. ~groups'[g].exists /\ ~groups'[g].private
    BY <1>1 DEF DestroyGroup, IInv, TypeOK, NoGroupRow
  <2>2. /\ KindOf(g) # "none" /\ KindOf(g)' = "none"
        /\ UpToDate(g)' = {} /\ Flagged(g)' = {} /\ Stored(g)' = {}
    BY <1>1, <2>1 DEF KindOf, UpToDate, Flagged, Stored
  <2>3. Rows!Dissolve(g)
    BY <2>2 DEF Rows!Dissolve, Rows!Bare
  <2> QED BY <2>3 DEF Rows!GroupStep
<1>2. CASE g # x
  <2>1. SameRows(g)
    BY <1>2 DEF DestroyGroup, IInv, TypeOK, SameRows
  <2>2. SameServers(g)
    <3>1. NoServer.group # g
      BY KeysAssumption DEF NoServer
    <3>2. \A s \in Server : servers'[s] = IF servers[s].group = x THEN NoServer ELSE servers[s]
      BY DEF DestroyGroup
    <3> QED BY <1>2, <3>1, <3>2 DEF SameServers
  <2> QED BY <2>1, <2>2, RestStep
<1> QED BY <1>1, <1>2

(* A request that touches only the rows of members of x and their flags.   *)
LEMMA OtherGroups ==
    ASSUME NEW x \in Group, NEW g \in Group, g # x,
           groups'[g].exists = groups[g].exists, groups'[g].private = groups[g].private,
           members'[g] = members[g], outdated'[g] = outdated[g],
           \A s \in Server : servers[s].group # x => servers'[s] = servers[s],
           \A s \in Server : servers[s].group = x => servers'[s].group # g
    PROVE  Rows!GroupStep(g)
<1>1. SameRows(g)
  BY DEF SameRows
<1>2. SameServers(g)
  BY DEF SameServers
<1> QED BY <1>1, <1>2, RestStep

LEMMA CreateSteps ==
    ASSUME IInv, NEW u \in User, NEW x \in Group, NEW private \in BOOLEAN, NEW pk \in Key,
           NEW k \in Key, CreateGroup(u, x, private, pk, k), NEW g \in Group
    PROVE  Rows!GroupStep(g)
<1> USE DEF IInv
<1>1. /\ groups'[x].exists /\ groups'[x].private = private
      /\ members'[x] = {u}
      /\ ~groups[x].exists
      /\ outdated' = outdated /\ servers' = servers
  BY DEF CreateGroup, TypeOK
<1>2. CASE g # x
  <2>1. groups'[g] = groups[g] /\ members'[g] = members[g]
    BY <1>2 DEF CreateGroup, TypeOK
  <2> QED BY <1>1, <1>2, <2>1, RestStep DEF SameRows, SameServers
<1>3. CASE g = x
  <2>1. members[g] = {} /\ outdated[g] = {} /\ ~groups[g].private /\ ServersOf(g) = {}
    BY <1>1, <1>3, KeysAssumption DEF RowsConsistent, TypeOK, ServersOf
  <2>2. ServersOf(g)' = {}
    BY <1>1, <2>1 DEF ServersOf
  <2>3. KindOf(g) = "none"
    BY <1>1, <1>3 DEF KindOf
  <2>4. CASE private
    <3>1. /\ KindOf(g)' = "private" /\ UpToDate(g)' # {} /\ Flagged(g)' = {} /\ Stored(g)' = {}
      BY <1>1, <1>3, <2>1, <2>2, <2>4 DEF KindOf, UpToDate, Flagged, Stored
    <3>2. Rows!Close(g)
      BY <2>3, <3>1 DEF Rows!Close
    <3> QED BY <3>2 DEF Rows!GroupStep
  <2>5. CASE ~private
    <3>1. /\ KindOf(g)' = "public" /\ UpToDate(g)' = {} /\ Flagged(g)' = {} /\ Stored(g)' = {}
      BY <1>1, <1>3, <2>5 DEF KindOf, UpToDate, Flagged, Stored
    <3>2. Rows!Publish(g)
      BY <2>3, <3>1 DEF Rows!Publish, Rows!Bare
    <3> QED BY <3>2 DEF Rows!GroupStep
  <2> QED BY <2>4, <2>5
<1> QED BY <1>2, <1>3

LEMMA AddSteps ==
    ASSUME IInv, NEW x \in Group, NEW u \in User, NEW v \in User, NEW header \in Header,
           groups[x].exists, AddUser(x, v, GroupKey(x, u, header)), NEW g \in Group
    PROVE  Rows!GroupStep(g)
<1> USE DEF IInv
<1>1. UNCHANGED <<groups, outdated, servers>> /\ v \notin members[x]
  BY DEF AddUser
<1>2. SameServers(g) /\ Stored(g)' = Stored(g)
  BY <1>1, StoredFrame DEF SameServers
<1>3. CASE g # x
  <2>1. members'[g] = members[g]
    BY <1>3 DEF AddUser, TypeOK
  <2> QED BY <1>1, <1>2, <2>1, RestStep DEF SameRows
<1>4. CASE g = x /\ ~groups[g].private
  BY <1>1, <1>4, PublicStep
<1>5. CASE g = x /\ groups[g].private
  <2>1. members'[g] = members[g] \cup {v} /\ v \notin outdated[g]
    BY <1>1, <1>5 DEF AddUser, TypeOK, RowsConsistent
  <2>2. u \in UpToDate(g)
    BY <1>5, RecoveryHolds DEF AddUser
  <2>3. /\ UpToDate(g)' = UpToDate(g) \cup {v} /\ Flagged(g)' = Flagged(g)
        /\ v \notin Flagged(g)
        /\ KindOf(g) = "private" /\ KindOf(g)' = "private"
    BY <1>1, <1>5, <2>1 DEF KindOf, UpToDate, Flagged
  <2>4. Rows!Share(g, v)
    BY <1>2, <2>2, <2>3 DEF Rows!Share, Rows!Becomes
  <2> QED BY <2>4 DEF Rows!GroupStep
<1> QED BY <1>3, <1>4, <1>5

LEMMA RemoveSteps ==
    ASSUME IInv, NEW x \in Group, NEW v \in User, NEW blocked \in BOOLEAN,
           groups[x].exists, RemoveUser(x, v, blocked), NEW g \in Group
    PROVE  Rows!GroupStep(g)
<1> USE DEF IInv
<1>1. CASE DestroyGroup(x)
  BY <1>1, DestroySteps
<1>2. CASE ~DestroyGroup(x)
  <2>1. /\ members' = [members EXCEPT ![x] = @ \ {v}]
        /\ outdated' = [outdated EXCEPT ![x] = @ \ {v}]
        /\ UNCHANGED <<groups, servers>>
    BY <1>2 DEF RemoveUser
  <2>2. SameServers(g) /\ Stored(g)' = Stored(g)
    BY <2>1, StoredFrame DEF SameServers
  <2>3. CASE g # x
    <3>1. members'[g] = members[g] /\ outdated'[g] = outdated[g]
      BY <2>1, <2>3 DEF TypeOK
    <3> QED BY <2>1, <2>2, <3>1, RestStep DEF SameRows
  <2>4. CASE g = x /\ ~groups[g].private
    BY <2>1, <2>4, PublicStep
  <2>5. CASE g = x /\ groups[g].private
    <3>1. members'[g] = members[g] \ {v} /\ outdated'[g] = outdated[g] \ {v}
      BY <2>1, <2>5 DEF TypeOK
    <3>2. /\ UpToDate(g)' = UpToDate(g) \ {v} /\ Flagged(g)' = Flagged(g) \ {v}
          /\ KindOf(g) = "private" /\ KindOf(g)' = "private"
      BY <2>1, <2>5, <3>1 DEF KindOf, UpToDate, Flagged
    <3>3. Rows!Leave(g, v)
      BY <2>2, <3>2 DEF Rows!Leave, Rows!Becomes
    <3> QED BY <3>3 DEF Rows!GroupStep
  <2> QED BY <2>3, <2>4, <2>5
<1> QED BY <1>1, <1>2

LEMMA MemberSteps ==
    ASSUME IInv, MemberNext, NEW g \in Group
    PROVE  Rows!GroupStep(g)
<1>1. ASSUME NEW u, NEW x, NEW v, NEW is_admin, SetAdminPermission(u, x, v, is_admin)
      PROVE  Rows!GroupStep(g)
  <2>1. UNCHANGED <<groups, members, outdated, servers>>
    BY <1>1 DEF SetAdminPermission
  <2> QED BY <2>1, RestStep DEF SameRows, SameServers
<1> QED BY <1>1, CreateSteps, AddSteps, RemoveSteps, DestroySteps
    DEF MemberNext, AddMember, Join, Leave, RemoveMember, DeleteGroup

(* A private group all of whose members hold the key afterwards.           *)
LEMMA SealedForAll ==
    ASSUME IInv, NEW g \in Group, groups[g].private, groups'[g].private,
           groups'[g].exists, members'[g] = members[g], outdated'[g] = {}
    PROVE  /\ KindOf(g) = "private" /\ KindOf(g)' = "private"
           /\ UpToDate(g)' = UpToDate(g) \cup Flagged(g)
           /\ Flagged(g)' = {}
<1>1. outdated[g] \subseteq members[g] /\ groups[g].exists
  BY DEF IInv, RowsConsistent
<1> QED BY <1>1 DEF KindOf, UpToDate, Flagged

LEMMA UpdateSteps ==
    ASSUME IInv, NEW u \in User, NEW header \in Header, NEW keys \in [Group -> Key \cup {NoKey}],
           UpdateOutdatedMembers(keys), NEW g \in Group,
           keys[g] \in {NoKey, GroupKey(g, u, header)}
    PROVE  Rows!GroupStep(g)
<1> USE DEF IInv
<1>1. /\ UNCHANGED <<groups, members, servers>>
      /\ outdated'[g] = IF keys[g] # NoKey THEN {} ELSE outdated[g]
  BY DEF UpdateOutdatedMembers
<1>2. SameServers(g) /\ Stored(g)' = Stored(g)
  BY <1>1, StoredFrame DEF SameServers
<1>3. CASE keys[g] = NoKey
  BY <1>1, <1>2, <1>3, RestStep DEF SameRows
<1>4. CASE ~groups[g].private
  <2>1. KindOf(g)' = KindOf(g) /\ UpToDate(g)' = UpToDate(g) /\ Flagged(g)' = Flagged(g)
    BY <1>1, <1>4 DEF KindOf, UpToDate, Flagged
  <2>2. Rows!Rest(g)
    BY <1>2, <2>1 DEF Rows!Rest
  <2> QED BY <2>2 DEF Rows!GroupStep
<1>5. CASE groups[g].private /\ keys[g] # NoKey
  <2>1. u \in UpToDate(g)
    BY <1>5, RecoveryHolds
  <2>2. groups[g].exists
    BY <1>5, LiveIfPrivate
  <2>3. /\ KindOf(g) = "private" /\ KindOf(g)' = "private"
        /\ UpToDate(g)' = UpToDate(g) \cup Flagged(g) /\ Flagged(g)' = {}
    BY <1>1, <1>5, <2>2, SealedForAll
  <2>4. Rows!Refresh(g)
    BY <1>2, <2>1, <2>3 DEF Rows!Refresh, Rows!Becomes
  <2> QED BY <2>4 DEF Rows!GroupStep
<1> QED BY <1>3, <1>4, <1>5

LEMMA ForceSteps ==
    ASSUME IInv, NEW u \in User, NEW x \in Group, NEW k \in Key,
           GenerateNewCryptoKey(u, x, k), NEW g \in Group
    PROVE  Rows!GroupStep(g)
<1> USE DEF IInv
<1>1. /\ UNCHANGED <<groups, members>> /\ groups[x].exists
      /\ outdated' = [outdated EXCEPT ![x] = {}]
      /\ \A s \in Server : IF servers[s].group = x
                           THEN servers'[s].group = x /\ servers'[s].blanked
                           ELSE servers'[s] = servers[s]
  BY DEF GenerateNewCryptoKey, TypeOK, ServerRow
<1>2. CASE g # x
  <2>1. outdated'[g] = outdated[g]
    BY <1>1, <1>2 DEF TypeOK
  <2> QED BY <1>1, <1>2, <2>1, OtherGroups
<1>3. CASE g = x /\ ~groups[g].private
  BY <1>1, <1>3, PublicStep
<1>4. CASE g = x /\ groups[g].private
  <2>1. outdated'[g] = {}
    BY <1>1, <1>4 DEF TypeOK
  <2>2. /\ KindOf(g) = "private" /\ KindOf(g)' = "private"
        /\ UpToDate(g)' = UpToDate(g) \cup Flagged(g) /\ Flagged(g)' = {}
    BY <1>1, <1>4, <2>1, SealedForAll
  <2>3. Stored(g)' = {}
    BY <1>1, <1>4 DEF Stored, ServersOf
  <2>4. Rows!Rekey(g)
    BY <2>2, <2>3 DEF Rows!Rekey, Rows!Becomes
  <2> QED BY <2>4 DEF Rows!GroupStep
<1> QED BY <1>2, <1>3, <1>4

LEMMA PutSteps ==
    ASSUME IInv, NEW u \in User, NEW x \in Group, NEW header \in Header,
           NEW is_private \in IsPrivateParam, NEW k \in Key,
           PutGroup(u, x, header, is_private, k), NEW g \in Group
    PROVE  Rows!GroupStep(g)
<1> USE DEF IInv
<1> DEFINE private == is_private = "true" \/ (is_private = "nil" /\ groups[x].private)
<1>1. PICK old, new :
          /\ Recrypt(x, private, old, new)
          /\ groups[x].private => old = GroupKey(x, u, header)
  BY DEF PutGroup, PrivacyChanged, IsPrivateParam, TypeOK, GroupRow
<1>2. /\ groups[x].exists /\ u \in admins[x]
      /\ groups' = [groups EXCEPT ![x].private = private]
      /\ members' = members
  BY DEF PutGroup
<1>3. private \in BOOLEAN
  BY DEF TypeOK, GroupRow
<1> HIDE DEF private
<1>4. /\ outdated' = [outdated EXCEPT ![x] = {}]
      /\ \A s \in Server : IF servers[s].group = x
                           THEN /\ servers'[s].group = x
                                /\ servers'[s].blanked = servers[s].blanked
                                /\ servers[s].key = old
                           ELSE servers'[s] = servers[s]
  BY <1>1 DEF Recrypt, TypeOK, ServerRow, ServersOf
<1>5. /\ groups'[x].private = private /\ groups'[x].exists
      /\ \A y \in Group \ {x} : groups'[y] = groups[y]
  BY <1>2, <1>3 DEF TypeOK, GroupRow
<1>6. CASE g # x
  <2>1. outdated'[g] = outdated[g]
    BY <1>4, <1>6 DEF TypeOK
  <2> QED BY <1>2, <1>4, <1>5, <1>6, <2>1, OtherGroups
<1>7. CASE g = x /\ ~groups[g].private /\ ~private
  BY <1>2, <1>5, <1>7, PublicStep
<1>8. CASE g = x /\ ~groups[g].private /\ private
  <2>1. outdated'[g] = {} /\ members'[g] = members[g] /\ members[g] # {}
    BY <1>2, <1>4, <1>8 DEF TypeOK, RowsConsistent
  <2>2. KindOf(g) = "public"
    BY <1>2, <1>8 DEF KindOf
  <2>3. KindOf(g)' = "private" /\ UpToDate(g)' # {} /\ Flagged(g)' = {}
    BY <1>5, <1>8, <2>1 DEF KindOf, UpToDate, Flagged
  <2>4. Rows!Close(g)
    BY <2>2, <2>3 DEF Rows!Close
  <2> QED BY <2>4 DEF Rows!GroupStep
(* A server with a password is under a key, so the request recovered it.   *)
<1>9. ASSUME g = x, groups[g].private, Stored(g) # {}
      PROVE  u \in UpToDate(g)
  <2>1. PICK s \in Server : servers[s].group = g
    BY <1>9 DEF Stored, ServersOf
  <2>2. servers[s].key # NoKey /\ servers[s].key = old
    BY <1>4, <1>9, <2>1, KeysAssumption DEF TypeOK
  <2>3. GroupKey(g, u, header) # NoKey
    BY <1>1, <1>9, <2>2
  <2> QED BY <1>9, <2>3, RecoveryHolds
<1>10. CASE g = x /\ groups[g].private /\ ~private
  <2>1. /\ KindOf(g) = "private" /\ KindOf(g)' = "public"
        /\ UpToDate(g)' = {} /\ Flagged(g)' = {} /\ Stored(g)' = {}
    BY <1>2, <1>5, <1>10 DEF KindOf, UpToDate, Flagged, Stored
  <2>2. Rows!Open(g)
    BY <1>9, <1>10, <2>1 DEF Rows!Open, Rows!Bare
  <2> QED BY <2>2 DEF Rows!GroupStep
<1>11. CASE g = x /\ groups[g].private /\ private
  <2>1. outdated'[g] = {} /\ members'[g] = members[g]
    BY <1>2, <1>4, <1>11 DEF TypeOK
  <2>2. /\ KindOf(g) = "private" /\ KindOf(g)' = "private"
        /\ UpToDate(g)' = UpToDate(g) \cup Flagged(g) /\ Flagged(g)' = {}
    BY <1>5, <1>11, <2>1, SealedForAll
  <2>3. Stored(g)' = Stored(g)
    BY <1>4, <1>5, <1>11, StoredFrame DEF SameServers
  <2>4. CASE Stored(g) = {}
    <3>1. Rows!Rekey(g)
      BY <2>2, <2>3, <2>4 DEF Rows!Rekey, Rows!Becomes
    <3> QED BY <3>1 DEF Rows!GroupStep
  <2>5. CASE Stored(g) # {}
    <3>1. Rows!Refresh(g)
      BY <1>9, <1>11, <2>2, <2>3, <2>5 DEF Rows!Refresh, Rows!Becomes
    <3> QED BY <3>1 DEF Rows!GroupStep
  <2> QED BY <2>4, <2>5
<1> QED BY <1>3, <1>6, <1>7, <1>8, <1>10, <1>11

LEMMA KeySteps ==
    ASSUME IInv, KeyNext, NEW g \in Group
    PROVE  Rows!GroupStep(g)
<1> USE DEF IInv
<1>1. ASSUME NEW u \in User, NEW header \in Header, GetGroups(u, header)
      PROVE  Rows!GroupStep(g)
  <2> DEFINE keys == [x \in Group |-> IF u \in members[x] THEN GroupKey(x, u, header) ELSE NoKey]
  <2>1. keys \in [Group -> Key \cup {NoKey}] /\ keys[g] \in {NoKey, GroupKey(g, u, header)}
    BY GroupKeyType
  <2>2. UpdateOutdatedMembers(keys)
    BY <1>1 DEF GetGroups
  <2> HIDE DEF keys
  <2> QED BY <2>1, <2>2, UpdateSteps
<1>2. ASSUME NEW u \in User, NEW x \in Group, NEW header \in Header, GetGroup(u, x, header)
      PROVE  Rows!GroupStep(g)
  <2> DEFINE keys == [y \in Group |-> IF y = x THEN GroupKey(x, u, header) ELSE NoKey]
  <2>1. keys \in [Group -> Key \cup {NoKey}] /\ keys[g] \in {NoKey, GroupKey(g, u, header)}
    BY GroupKeyType
  <2>2. UpdateOutdatedMembers(keys)
    BY <1>2 DEF GetGroup
  <2> HIDE DEF keys
  <2> QED BY <2>1, <2>2, UpdateSteps
<1> QED BY <1>1, <1>2, ForceSteps, PutSteps DEF KeyNext

LEMMA EncryptSteps ==
    ASSUME IInv, NEW u \in User, NEW x \in Group, NEW s \in Server, NEW header \in Header,
           servers[s].group \in {NoGroup, x}, groups[x].exists,
           Encrypt(s, x, GroupKey(x, u, header)), NEW g \in Group
    PROVE  Rows!GroupStep(g)
<1> USE DEF IInv
<1>1. /\ UNCHANGED <<groups, members, outdated>>
      /\ GroupKey(x, u, header) # NoKey
      /\ servers'[s].group = x /\ ~servers'[s].blanked
      /\ \A t \in Server \ {s} : servers'[t] = servers[t]
  BY DEF Encrypt, memberVars, TypeOK
<1>2. CASE g # x
  <2>1. servers[s].group # g /\ servers'[s].group # g
    BY <1>1, <1>2, KeysAssumption
  <2>2. SameServers(g)
    BY <1>1, <2>1 DEF SameServers
  <2> QED BY <1>1, <2>2, RestStep DEF SameRows
<1>3. CASE g = x /\ ~groups[g].private
  BY <1>1, <1>3, PublicStep
<1>4. CASE g = x /\ groups[g].private
  <2>1. u \in UpToDate(g)
    BY <1>1, <1>4, RecoveryHolds
  <2>2. Stored(g)' = Stored(g) \cup {s}
    BY <1>1, <1>4 DEF Stored, ServersOf
  <2>3. /\ KindOf(g) = "private" /\ KindOf(g)' = "private"
        /\ UpToDate(g)' = UpToDate(g) /\ Flagged(g)' = Flagged(g)
    BY <1>1, <1>4 DEF KindOf, UpToDate, Flagged
  <2>4. Rows!Store(g, s)
    BY <2>1, <2>2, <2>3 DEF Rows!Store, Rows!Becomes
  <2> QED BY <2>4 DEF Rows!GroupStep
<1> QED BY <1>2, <1>3, <1>4

LEMMA DeleteServerSteps ==
    ASSUME IInv, NEW u \in User, NEW x \in Group, NEW s \in Server,
           DeleteDbServer(u, x, s), NEW g \in Group
    PROVE  Rows!GroupStep(g)
<1> USE DEF IInv
<1>1. /\ UNCHANGED <<groups, members, outdated>>
      /\ servers[s].group = x /\ servers'[s].group = NoGroup
      /\ \A t \in Server \ {s} : servers'[t] = servers[t]
      /\ groups[x].exists
  BY KeysAssumption DEF DeleteDbServer, memberVars, TypeOK, NoServer, RowsConsistent
<1>2. CASE g # x
  <2>1. SameServers(g)
    BY <1>1, <1>2, KeysAssumption DEF SameServers
  <2> QED BY <1>1, <2>1, RestStep DEF SameRows
<1>3. CASE g = x /\ ~groups[g].private
  BY <1>1, <1>3, PublicStep
<1>4. CASE g = x /\ groups[g].private
  <2>1. Stored(g)' = Stored(g) \ {s}
    BY <1>1, <1>4, KeysAssumption DEF Stored, ServersOf
  <2>2. /\ KindOf(g) = "private" /\ KindOf(g)' = "private"
        /\ UpToDate(g)' = UpToDate(g) /\ Flagged(g)' = Flagged(g)
    BY <1>1, <1>4 DEF KindOf, UpToDate, Flagged
  <2>3. Rows!Remove(g, s)
    BY <2>1, <2>2 DEF Rows!Remove, Rows!Becomes
  <2> QED BY <2>3 DEF Rows!GroupStep
<1> QED BY <1>2, <1>3, <1>4

LEMMA ServerSteps ==
    ASSUME IInv, ServerNext, NEW g \in Group
    PROVE  Rows!GroupStep(g)
<1>1. ASSUME NEW u \in User, NEW x \in Group, NEW s \in Server, NEW header \in Header,
             CreateDbServer(u, x, s, header) \/ UpdateDbServer(u, x, s, header)
      PROVE  Rows!GroupStep(g)
  <2>1. groups[x].exists /\ servers[s].group \in {NoGroup, x}
    BY <1>1, KeysAssumption
    DEF CreateDbServer, UpdateDbServer, IInv, RowsConsistent
  <2> QED BY <1>1, <2>1, EncryptSteps DEF CreateDbServer, UpdateDbServer
<1> QED BY <1>1, DeleteServerSteps DEF ServerNext

-----------------------------------------------------------------------------
LEMMA RowsNext ==
    ASSUME IInv, [Next]_vars PROVE [Rows!Next]_(Rows!secretVars)
<1>1. CASE Next
  BY <1>1, AccountSteps, MemberSteps, KeySteps, ServerSteps DEF Next, Rows!Next
<1>2. CASE UNCHANGED vars
  <2>1. \A g \in Group : SameRows(g) /\ SameServers(g)
    BY <1>2 DEF vars, SameRows, SameServers
  <2> QED BY <2>1, RestStep DEF Rows!Next
<1> QED BY <1>1, <1>2

LEMMA MappedNext ==
    ASSUME IInv, IInv', [Rows!Next]_(Rows!secretVars)
    PROVE  [Secret!Next]_(Secret!secretVars)
<1>1. TellByRows
  BY Mapped
<1>2. TellByRows'
  BY Mapped, PTL
<1>3. /\ [g \in Group |-> Holders(g)] = [g \in Group |-> UpToDate(g)]
      /\ [g \in Group |-> Waiting(g)] = [g \in Group |-> Flagged(g)]
      /\ [g \in Group |-> Secrets(g)] = [g \in Group |-> Stored(g)]
  BY <1>1 DEF TellByRows
<1>4. /\ [g \in Group |-> Holders(g)]' = [g \in Group |-> UpToDate(g)]'
      /\ [g \in Group |-> Waiting(g)]' = [g \in Group |-> Flagged(g)]'
      /\ [g \in Group |-> Secrets(g)]' = [g \in Group |-> Stored(g)]'
  BY <1>2 DEF TellByRows
<1>5. ASSUME NEW g \in Group, Rows!GroupStep(g) PROVE Secret!GroupStep(g)
  BY <1>3, <1>4, <1>5
  DEF Rows!GroupStep, Rows!Rest, Rows!Close, Rows!Publish, Rows!Open, Rows!Dissolve, Rows!Share,
      Rows!Lose, Rows!Leave, Rows!Refresh, Rows!Rekey, Rows!Store, Rows!Remove, Rows!Becomes,
      Rows!Bare,
      Secret!GroupStep, Secret!Rest, Secret!Close, Secret!Publish, Secret!Open, Secret!Dissolve,
      Secret!Share, Secret!Lose, Secret!Leave, Secret!Refresh, Secret!Rekey, Secret!Store,
      Secret!Remove, Secret!Becomes, Secret!Bare
<1>6. CASE Rows!Next
  BY <1>5, <1>6 DEF Rows!Next, Secret!Next
<1>7. CASE UNCHANGED Rows!secretVars
  BY <1>3, <1>4, <1>7 DEF Rows!secretVars, Secret!secretVars
<1> QED BY <1>6, <1>7

(* Whatever members join, leave, reset their passwords or are deleted, and *)
(* whatever happens to the servers: who can recover the key of a private   *)
(* group got it from somebody who could, or together with the loss of all  *)
(* passwords (group.rb, group_member.rb, user.rb, groups.rb).              *)
THEOREM SharedSecretImplemented == Spec => SharesSecret
<1>1. Init => Secret!Init
  <2> SUFFICES ASSUME Init PROVE Secret!Init
    OBVIOUS
  <2>1. \A g \in Group : ~groups[g].exists /\ members[g] = {}
    BY DEF Init, NoGroupRow
  <2>2. \A g \in Group : ServersOf(g) = {}
    BY KeysAssumption DEF Init, ServersOf, NoServer
  <2>3. \A g \in Group : /\ KindOf(g) = "none" /\ Holders(g) = {}
                         /\ Waiting(g) = {} /\ Secrets(g) = {}
    BY <2>1, <2>2 DEF KindOf, Holders, Waiting, Secrets
  <2> QED BY <2>3 DEF Secret!Init
<1>2. IInv /\ IInv' /\ [Next]_vars => [Secret!Next]_(Secret!secretVars)
  BY RowsNext, MappedNext
<1> QED BY <1>1, <1>2, Invariance, PTL DEF Spec, SharesSecret, Secret!Spec
=============================================================================
