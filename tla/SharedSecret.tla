---------------------------- MODULE SharedSecret ----------------------------
(***************************************************************************)
(* What a group promises about its key, without keys: who of a private     *)
(* group can recover it (the holders), who waits for it, and which         *)
(* passwords of servers are readable for who has it.                       *)
(*                                                                         *)
(* The promise: a member comes to hold the key of a private group only     *)
(* when somebody holds it to hand it on, unless every password under the   *)
(* old key is given up; and no password is ever stored that nobody holds   *)
(* the key of, nor opened to the public by somebody who does not hold it.  *)
(*                                                                         *)
(* The groups go their steps independently of each other: one request may  *)
(* be a step of several groups.  GroupKeys implements this module.         *)
(***************************************************************************)
CONSTANTS User, Group, Server

VARIABLES
    kind,       \* of each group: "none", "public" or "private"
    holders,    \* the members of a private group that can recover its key
    waiting,    \* the members that cannot
    secrets     \* the servers of a private group with a password under its key

secretVars == <<kind, holders, waiting, secrets>>

Init ==
    /\ kind = [g \in Group |-> "none"]
    /\ holders = [g \in Group |-> {}]
    /\ waiting = [g \in Group |-> {}]
    /\ secrets = [g \in Group |-> {}]

\* The step of a private group that stays one.
Becomes(g, h, w, s) ==
    /\ kind[g] = "private" /\ kind'[g] = "private"
    /\ holders'[g] = h /\ waiting'[g] = w /\ secrets'[g] = s

Rest(g) ==
    /\ kind'[g] = kind[g]
    /\ holders'[g] = holders[g] /\ waiting'[g] = waiting[g] /\ secrets'[g] = secrets[g]

\* Whether it is new or was public, a private group begins with a key that all members hold.
Close(g) ==
    /\ kind[g] # "private" /\ kind'[g] = "private"
    /\ holders'[g] # {} /\ waiting'[g] = {}
    /\ kind[g] = "none" => secrets'[g] = {}

\* What is not private has nothing to share.
Bare(g, k) ==
    /\ kind'[g] = k
    /\ holders'[g] = {} /\ waiting'[g] = {} /\ secrets'[g] = {}

Publish(g) == kind[g] = "none" /\ Bare(g, "public")
Open(g) == kind[g] = "private" /\ (secrets[g] # {} => holders[g] # {}) /\ Bare(g, "public")
Dissolve(g) == kind[g] # "none" /\ Bare(g, "none")

Share(g, u) ==
    /\ holders[g] # {} /\ u \notin waiting[g]
    /\ Becomes(g, holders[g] \cup {u}, waiting[g], secrets[g])

\* The key pair of a member is replaced.
Lose(g, u) ==
    /\ u \in holders[g]
    /\ Becomes(g, holders[g] \ {u}, waiting[g] \cup {u}, secrets[g])

Leave(g, u) == Becomes(g, holders[g] \ {u}, waiting[g] \ {u}, secrets[g])

\* Somebody who holds the key seals it for those who wait.
Refresh(g) ==
    /\ holders[g] # {}
    /\ Becomes(g, holders[g] \cup waiting[g], {}, secrets[g])

\* Nobody needs to hold the old key if all passwords under it are given up.
Rekey(g) == Becomes(g, holders[g] \cup waiting[g], {}, {})

Store(g, s) ==
    /\ holders[g] # {}
    /\ Becomes(g, holders[g], waiting[g], secrets[g] \cup {s})

Remove(g, s) == Becomes(g, holders[g], waiting[g], secrets[g] \ {s})

GroupStep(g) ==
    \/ Rest(g) \/ Close(g) \/ Publish(g) \/ Open(g) \/ Dissolve(g)
    \/ \E u \in User : Share(g, u) \/ Lose(g, u) \/ Leave(g, u)
    \/ Refresh(g) \/ Rekey(g)
    \/ \E s \in Server : Store(g, s) \/ Remove(g, s)

Next == \A g \in Group : GroupStep(g)

Spec == Init /\ [][Next]_secretVars
=============================================================================
