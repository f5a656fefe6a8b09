------------------------ MODULE SchemaQueriesProofs -------------------------
(***************************************************************************)
(* However many requests there are, the types and the foreign key hold and *)
(* there is exactly one default schema query as long as no overtaken       *)
(* request destroys or promotes one.                                       *)
(*                                                                         *)
(* Two requests that have both passed the check that there is no other     *)
(* default would have demoted the same row, and whoever demotes it keeps   *)
(* it locked: so a request that has passed the check and was not overtaken *)
(* is alone, and the default is the row that it has demoted (Chosen,       *)
(* Exclusive).  What it promotes is no default before (Fresh).             *)
(*                                                                         *)
(* The readers of a query are kept by every request that was not           *)
(* overtaken: what it has loaded about its query is still so (Reads).      *)
(***************************************************************************)
EXTENDS SchemaQueries, TLAPS

Transaction == {"validate", "promote", "commit"}

(* What a request holds, in the words of its state x.                      *)
FreshIn(x) ==
    ~x.overtaken /\ x.kind \in {"make_default", "destroy"} =>
        x.query \in Query /\ queries[x.query].exists /\ ~queries[x.query].is_default
KindOfPhase(x) ==
    /\ x.phase \in Transaction \cup {"read", "demote"} => x.kind = "make_default"
    /\ x.phase = "idle" => x.kind = "none"
PromotedIn(x) == x.phase = "commit" /\ x.promoted => queries[x.query].exists
PromotesIn(x) == x.phase = "commit" /\ ~x.overtaken => x.promoted
CurrentIn(x) == ~spoilt /\ x.phase \in Transaction \cup {"demote"} => x.current \in Query
ChosenIn(x) ==
    ~spoilt /\ ~x.overtaken /\ x.phase \in {"promote", "commit"} => Defaults = {x.current}
QueryIn(x) == x.kind # "none" => x.query \in Query
ServerIn(x) == x.kind \in {"create_server", "update_server"} => x.server \in Server

Holds(x) ==
    /\ QueryIn(x)
    /\ ServerIn(x)
    /\ KindOfPhase(x)
    /\ FreshIn(x)
    /\ PromotedIn(x)
    /\ PromotesIn(x)
    /\ CurrentIn(x)
    /\ ChosenIn(x)

Exclusive ==
    \A r, other \in Request :
        /\ request[r].phase \in Transaction /\ request[other].phase \in Transaction
        /\ request[r].current = request[other].current
        /\ request[r].current # NoQuery
        => r = other

IInv ==
    /\ TypeOK
    /\ OneDefault
    /\ \A r \in Request : Holds(request[r])
    /\ Exclusive

-----------------------------------------------------------------------------

USE SchemaQueriesAssumption DEF Transaction

LEMMA IdleHolds == Idle \in RequestState /\ Holds(Idle)
  BY DEF Idle, RequestState, Kind, Phase, NoQueryRow, Holds, QueryIn, ServerIn, KindOfPhase,
         FreshIn, PromotedIn, PromotesIn, CurrentIn, ChosenIn

(* A step of a request that leaves the tables alone.                       *)
LEMMA Continued ==
    ASSUME IInv, NEW r \in Request, NEW x \in RequestState, Continue(r, x), Holds(x),
           x.phase \in Transaction /\ x.current # NoQuery =>
               \A other \in Request \ {r} :
                   request[other].phase \in Transaction => request[other].current # x.current
    PROVE  IInv'
<1>1. /\ request' = [request EXCEPT ![r] = x]
      /\ UNCHANGED <<queries, servers, spoilt>>
  BY DEF Continue
<1>2. request \in [Request -> RequestState]
  BY DEF IInv, TypeOK
<1>3. /\ request' \in [Request -> RequestState]
      /\ \A other \in Request : request'[other] = IF other = r THEN x ELSE request[other]
  BY <1>1, <1>2
<1>4. TypeOK'
  BY <1>1, <1>3 DEF IInv, TypeOK
<1>5. OneDefault'
  BY <1>1 DEF IInv, OneDefault, Defaults
<1>6. ASSUME NEW other \in Request PROVE Holds(request[other])'
  <2>1. Holds(request[other]) /\ Holds(x)
    BY DEF IInv
  <2>2. request'[other] = x \/ request'[other] = request[other]
    BY <1>3
  <2>. QED BY <1>1, <2>1, <2>2 DEF Holds, QueryIn, ServerIn, KindOfPhase, FreshIn, PromotedIn,
                                  PromotesIn, CurrentIn, ChosenIn, Defaults
<1>7. Exclusive'
  <2>1. Exclusive
    BY DEF IInv
  <2>2. SUFFICES ASSUME NEW a \in Request, NEW b \in Request,
                        request'[a].phase \in Transaction, request'[b].phase \in Transaction,
                        request'[a].current = request'[b].current,
                        request'[a].current # NoQuery
                 PROVE  a = b
    BY DEF Exclusive
  <2>3. CASE a = r /\ b # r
    BY <1>3, <2>2, <2>3
  <2>4. CASE b = r /\ a # r
    BY <1>3, <2>2, <2>4
  <2>5. CASE a # r /\ b # r
    BY <1>3, <2>1, <2>2, <2>5 DEF Exclusive
  <2>. QED BY <2>3, <2>4, <2>5
<1>. QED BY <1>4, <1>5, <1>6, <1>7 DEF IInv

(* The end of a request that has written about the queries in Q.           *)
LEMMA Ended ==
    ASSUME IInv, NEW r \in Request, NEW Q, End(r, Q),
           queries' \in [Query -> QueryRow], servers' \in [Server -> ServerRow],
           spoilt' \in BOOLEAN, spoilt => spoilt',
           \A q \in Query : queries'[q].exists <=> queries'[q].author # NoUser,
           \A s \in Server : servers'[s].query # NoQuery => queries'[servers'[s].query].exists,
           \A q \in Query \ Q : queries'[q] = queries[q],
           OneDefault',
           \A other \in Request \ {r} :
               /\ request[other].phase = "commit" /\ request[other].promoted
                  => queries'[request[other].query].exists
               /\ ~spoilt' /\ ChosenIn(request[other]) /\ ~request[other].overtaken
                     /\ request[other].phase \in {"promote", "commit"}
                  => Defaults' = {request[other].current}
    PROVE  IInv'
<1>. DEFINE Overtaken(y) == [y EXCEPT !.overtaken = @ \/ y.query \in Q]
<1>1. request \in [Request -> RequestState]
  BY DEF IInv, TypeOK
<1>2. \A y \in RequestState :
          /\ Overtaken(y) \in RequestState
          /\ \A f \in DOMAIN y \ {"overtaken"} : Overtaken(y)[f] = y[f]
          /\ Overtaken(y).overtaken = (y.overtaken \/ y.query \in Q)
  BY DEF RequestState
<1>3. \A other \in Request :
          request'[other] = IF other = r THEN Idle ELSE Overtaken(request[other])
  BY <1>1 DEF End
<1>4. request' \in [Request -> RequestState]
  BY <1>1, <1>2, <1>3, IdleHolds DEF End
<1>5. TypeOK'
  BY <1>4 DEF TypeOK
<1>6. ASSUME NEW other \in Request PROVE Holds(request[other])'
  <2>1. CASE other = r
    <3>1. request'[other] = Idle
      BY <1>3, <2>1
    <3>. QED BY <3>1 DEF Idle, NoQueryRow, Holds, QueryIn, ServerIn, KindOfPhase, FreshIn,
                         PromotedIn, PromotesIn, CurrentIn, ChosenIn
  <2>2. CASE other # r
    <3>. DEFINE y == request[other]
    <3>1. y \in RequestState /\ Holds(y)
      BY <1>1 DEF IInv
    <3>2. request'[other] = Overtaken(y)
      BY <1>3, <2>2
    <3>3. /\ request'[other].kind = y.kind /\ request'[other].phase = y.phase
          /\ request'[other].query = y.query /\ request'[other].current = y.current
          /\ request'[other].promoted = y.promoted /\ request'[other].server = y.server
          /\ request'[other].overtaken = (y.overtaken \/ y.query \in Q)
      BY <1>2, <3>1, <3>2 DEF RequestState
    <3>. HIDE DEF Overtaken, y
    <3>4. /\ QueryIn(request[other])' /\ ServerIn(request[other])'
          /\ KindOfPhase(request[other])' /\ PromotesIn(request[other])'
      BY <3>1, <3>3 DEF Holds, QueryIn, ServerIn, KindOfPhase, PromotesIn
    <3>5. FreshIn(request[other])'
      BY <3>1, <3>3 DEF Holds, FreshIn
    <3>6. PromotedIn(request[other])'
      <4>1. y.phase = "commit" /\ y.promoted => queries'[y.query].exists
        BY <2>2 DEF y
      <4>. QED BY <3>3, <4>1 DEF PromotedIn
    <3>7. CurrentIn(request[other])'
      BY <3>1, <3>3 DEF Holds, CurrentIn
    <3>8. ChosenIn(request[other])'
      <4>1. ~spoilt' /\ ~y.overtaken /\ y.phase \in {"promote", "commit"}
              => Defaults' = {y.current}
        BY <2>2, <3>1 DEF Holds, y
      <4>. QED BY <3>3, <4>1 DEF ChosenIn
    <3>. QED BY <3>4, <3>5, <3>6, <3>7, <3>8 DEF Holds
  <2>. QED BY <2>1, <2>2
<1>7. Exclusive'
  <2>1. Exclusive
    BY DEF IInv
  <2>2. \A a \in Request : request'[a].phase \in Transaction =>
            /\ request[a].phase \in Transaction
            /\ request'[a].current = request[a].current
    <3>. HIDE DEF Overtaken
    <3>1. TAKE a \in Request
    <3>2. CASE a = r
      <4>1. request'[a] = Idle
        BY <1>3, <3>2
      <4>. QED BY <4>1 DEF Idle
    <3>3. CASE a # r
      <4>1. request'[a] = Overtaken(request[a]) /\ request[a] \in RequestState
        BY <1>1, <1>3, <3>3
      <4>. QED BY <1>2, <4>1 DEF RequestState
    <3>. QED BY <3>2, <3>3
  <2>. QED BY <2>1, <2>2 DEF Exclusive
<1>. QED BY <1>5, <1>6, <1>7 DEF IInv

-----------------------------------------------------------------------------
(* The steps                                                               *)

LEMMA InitIInv == Init => IInv
<1>. SUFFICES ASSUME Init PROVE IInv
  OBVIOUS
<1>1. PICK u \in User, q \in Query :
          queries = [x \in Query |-> IF x = q
                     THEN [exists |-> TRUE, author |-> u, is_default |-> TRUE,
                           is_private |-> FALSE]
                     ELSE NoQueryRow]
  BY DEF Init
<1>2. /\ queries \in [Query -> QueryRow]
      /\ \A x \in Query : queries[x].exists <=> queries[x].author # NoUser
  BY <1>1 DEF QueryRow, NoQueryRow
<1>3. Defaults = {q}
  BY <1>1 DEF Defaults, NoQueryRow
<1>4. \A r \in Request : request[r] = Idle
  BY DEF Init
<1>5. TypeOK
  BY <1>2, IdleHolds DEF Init, TypeOK, ServerRow, NoServerRow
<1>6. \A r \in Request : Holds(request[r])
  BY <1>4, IdleHolds
<1>7. Exclusive
  BY <1>4 DEF Exclusive, Idle
<1>. QED BY <1>3, <1>5, <1>6, <1>7 DEF IInv, OneDefault

(* A request begins: it is in no transaction yet.                          *)
LEMMA LoadIInv == ASSUME IInv, NEW r \in Request, Load(r) PROVE IInv'
<1>1. queries \in [Query -> QueryRow] /\ servers \in [Server -> ServerRow]
  BY DEF IInv, TypeOK
<1>2. ASSUME NEW x \in RequestState, Begin(r, x), Holds(x), x.phase \in {"read", "write"}
      PROVE  IInv'
  BY <1>2, Continued DEF Begin, Continue
<1>3. ASSUME NEW q \in Query, NEW u \in User, NEW private \in BOOLEAN,
             UpdateLoad(r, q, u, private)
      PROVE  IInv'
  <2>. DEFINE strangers == private /\ ReferencedByStrangers(q)
              x == [Idle EXCEPT !.kind = "update", !.phase = "write", !.query = q,
                       !.was_default = queries[q].is_default, !.value = private,
                       !.strangers = strangers]
  <2>0. strangers \in BOOLEAN
    OBVIOUS
  <2>. HIDE DEF strangers
  <2>1. x \in RequestState /\ x.phase = "write"
    BY <1>1, <2>0, IdleHolds DEF Idle, RequestState, Kind, Phase, QueryRow
  <2>2. Holds(x)
    BY DEF Idle, Holds, QueryIn, ServerIn, KindOfPhase, FreshIn, PromotedIn, PromotesIn,
           CurrentIn, ChosenIn
  <2>3. Begin(r, x)
    BY <1>3 DEF UpdateLoad, strangers
  <2>. QED BY <1>2, <2>1, <2>2, <2>3
<1>4. ASSUME NEW q \in Query, NEW u \in User, DestroyLoad(r, q, u) PROVE IInv'
  <2>. DEFINE x == [Idle EXCEPT !.kind = "destroy", !.phase = "write", !.query = q]
  <2>1. x \in RequestState /\ x.phase = "write"
    BY IdleHolds DEF Idle, RequestState, Kind, Phase
  <2>2. Holds(x)
    BY <1>4 DEF DestroyLoad, Idle, Holds, QueryIn, ServerIn, KindOfPhase, FreshIn, PromotedIn,
           PromotesIn, CurrentIn, ChosenIn
  <2>3. Begin(r, x)
    BY <1>4 DEF DestroyLoad
  <2>. QED BY <1>2, <2>1, <2>2, <2>3
<1>5. ASSUME NEW q \in Query, NEW u \in Admin, MakeDefaultLoad(r, q, u) PROVE IInv'
  <2>. DEFINE x == [Idle EXCEPT !.kind = "make_default", !.phase = "read", !.query = q,
                       !.was_private = queries[q].is_private]
  <2>1. x \in RequestState /\ x.phase = "read"
    BY <1>1, IdleHolds DEF Idle, RequestState, Kind, Phase, QueryRow
  <2>2. Holds(x)
    BY <1>5 DEF MakeDefaultLoad, Shows, Idle, Holds, QueryIn, ServerIn, KindOfPhase, FreshIn,
           PromotedIn, PromotesIn, CurrentIn, ChosenIn
  <2>3. Begin(r, x)
    BY <1>5 DEF MakeDefaultLoad
  <2>. QED BY <1>2, <2>1, <2>2, <2>3
<1>6. ASSUME NEW s \in Server, NEW o \in User \cup {Shared}, NEW q \in Query,
             NEW kind \in {"create_server", "update_server"},
             Begin(r, [Idle EXCEPT !.kind = kind, !.phase = "write", !.query = q,
                                   !.server = s, !.owner = o])
      PROVE  IInv'
  <2>. DEFINE x == [Idle EXCEPT !.kind = kind, !.phase = "write", !.query = q,
                       !.server = s, !.owner = o]
  <2>1. x \in RequestState /\ x.phase = "write"
    BY IdleHolds DEF Idle, RequestState, Kind, Phase
  <2>2. Holds(x)
    BY DEF Idle, Holds, QueryIn, ServerIn, KindOfPhase, FreshIn, PromotedIn, PromotesIn,
           CurrentIn, ChosenIn
  <2>. QED BY <1>2, <1>6, <2>1, <2>2
<1>7. ASSUME NEW s \in Server, NEW o \in User \cup {Shared}, NEW d \in Query,
             CreateServerLoad(r, s, o, d)
      PROVE  IInv'
  BY <1>6, <1>7 DEF CreateServerLoad
<1>8. ASSUME NEW s \in Server, NEW u \in User, NEW q \in Query, UpdateServerLoad(r, s, u, q)
      PROVE  IInv'
  BY <1>6, <1>8 DEF UpdateServerLoad
<1>. QED BY <1>3, <1>4, <1>5, <1>7, <1>8 DEF Load

(* The transaction of make_default! up to its commit.                      *)
LEMMA TransactionIInv ==
    ASSUME IInv, NEW r \in Request, ReadDefault(r) \/ Demote(r) \/ Validate(r) \/ Promote(r)
    PROVE  IInv'
<1>. DEFINE y == request[r]
<1>1. y \in RequestState /\ Holds(y)
  BY DEF IInv, TypeOK
<1>2. queries \in [Query -> QueryRow] /\ servers \in [Server -> ServerRow]
  BY DEF IInv, TypeOK
<1>3. ~spoilt => \E d \in Query : Defaults = {d}
  BY DEF IInv, OneDefault
<1>4. ASSUME ReadDefault(r) PROVE IInv'
  <2>1. CASE Defaults = {} /\ Continue(r, [y EXCEPT !.phase = "demote"])
    <3>. DEFINE x == [y EXCEPT !.phase = "demote"]
    <3>1. x \in RequestState /\ x.phase = "demote"
      BY <1>1 DEF RequestState, Phase
    <3>2. Holds(x)
      BY <1>1, <1>3, <1>4, <2>1 DEF ReadDefault, RequestState, Holds, QueryIn, ServerIn,
         KindOfPhase, FreshIn, PromotedIn, PromotesIn, CurrentIn, ChosenIn
    <3>. QED BY <2>1, <3>1, <3>2, Continued
  <2>2. ASSUME NEW d \in Defaults, NEW l \in BOOLEAN, NEW m \in SUBSET Server,
               Continue(r, [y EXCEPT !.phase = "demote", !.current = d, !.loaded = l,
                                     !.moved = m])
        PROVE  IInv'
    <3>. DEFINE x == [y EXCEPT !.phase = "demote", !.current = d, !.loaded = l, !.moved = m]
    <3>1. d \in Query
      BY DEF Defaults
    <3>2. x \in RequestState /\ x.phase = "demote" /\ x.current = d
      BY <1>1, <3>1 DEF RequestState, Phase
    <3>3. Holds(x)
      BY <1>1, <1>4, <3>1, <3>2 DEF ReadDefault, RequestState, Holds, QueryIn, ServerIn,
         KindOfPhase, FreshIn, PromotedIn, PromotesIn, CurrentIn, ChosenIn
    <3>. QED BY <2>2, <3>2, <3>3, Continued
  <2>3. \A d \in Query : References(d) \in SUBSET Server
    BY DEF References
  <2>4. \A d \in Defaults : d \in Query /\ queries[d].is_private \in BOOLEAN
    BY <1>2 DEF Defaults, QueryRow
  <2>. QED BY <1>4, <2>1, <2>2, <2>3, <2>4 DEF ReadDefault
<1>5. ASSUME Demote(r) PROVE IInv'
  <2>. DEFINE x == [y EXCEPT !.phase = "validate"]
  <2>1. x \in RequestState /\ x.phase = "validate" /\ x.current = y.current
    BY <1>1 DEF RequestState, Phase
  <2>2. Holds(x)
    BY <1>1, <1>5 DEF Demote, RequestState, Holds, QueryIn, ServerIn,
       KindOfPhase, FreshIn, PromotedIn, PromotesIn, CurrentIn, ChosenIn
  <2>3. ASSUME NEW other \in Request \ {r}, request[other].phase \in Transaction,
               y.current # NoQuery
        PROVE  request[other].current # y.current
    BY <1>5, <2>3 DEF Demote, Locked, Held
  <2>4. Continue(r, x)
    BY <1>5 DEF Demote
  <2>. QED BY <2>1, <2>2, <2>3, <2>4, Continued
<1>6. ASSUME NEW x \in RequestState, Continue(r, x), Holds(x), y.phase \in Transaction,
             x.current = y.current
      PROVE  IInv'
  BY <1>6, Continued DEF IInv, Exclusive
<1>7. ASSUME Validate(r) PROVE IInv'
  <2>. DEFINE x == [y EXCEPT !.phase = "promote"]
  <2>1. x \in RequestState /\ x.phase = "promote" /\ x.current = y.current
    BY <1>1 DEF RequestState, Phase
  <2>2. y.phase = "validate" /\ y.kind = "make_default" /\ y.query \in Query
    BY <1>1, <1>7 DEF Validate, Holds, KindOfPhase, QueryIn
  <2>3. ~spoilt /\ ~y.overtaken => Defaults = {y.current}
    BY <1>1, <1>3, <1>7, <2>2 DEF Validate, Holds, FreshIn, CurrentIn, Defaults
  <2>4. Holds(x)
    BY <1>1, <2>2, <2>3 DEF RequestState, Holds, QueryIn, ServerIn,
       KindOfPhase, FreshIn, PromotedIn, PromotesIn, CurrentIn, ChosenIn
  <2>. QED BY <1>6, <1>7, <2>1, <2>2, <2>4 DEF Validate
<1>8. ASSUME Promote(r) PROVE IInv'
  <2>. DEFINE m == IF y.loaded THEN y.moved ELSE References(y.current)
              x == [y EXCEPT !.phase = "commit", !.promoted = queries[y.query].exists,
                             !.moved = m]
  <2>1. y.phase = "promote" /\ y.kind = "make_default" /\ y.query \in Query
    BY <1>1, <1>8 DEF Promote, Holds, KindOfPhase, QueryIn
  <2>2. m \in SUBSET Server
    BY <1>1 DEF References, RequestState
  <2>. HIDE DEF m
  <2>3. queries[y.query].exists \in BOOLEAN
    BY <1>2, <2>1 DEF QueryRow
  <2>4. /\ x \in RequestState /\ x.phase = "commit" /\ x.current = y.current
        /\ x.query = y.query /\ x.promoted = queries[y.query].exists
    BY <1>1, <2>2, <2>3 DEF RequestState, Phase
  <2>5. Holds(x)
    BY <1>1, <2>1, <2>4 DEF RequestState, Holds, QueryIn, ServerIn,
       KindOfPhase, FreshIn, PromotedIn, PromotesIn, CurrentIn, ChosenIn
  <2>6. Continue(r, x)
    BY <1>8 DEF Promote, m
  <2>. QED BY <1>6, <2>1, <2>4, <2>5, <2>6
<1>. QED BY <1>4, <1>5, <1>7, <1>8

(* What the others have established about the queries stays.              *)
LEMMA OthersKeep ==
    ASSUME IInv, NEW r \in Request, spoilt => spoilt',
           ~spoilt' => Defaults' = Defaults,
           \A q \in Query : queries[q].exists =>
               queries'[q].exists \/ \A other \in Request \ {r} :
                   request[other].phase = "commit" => request[other].query # q
    PROVE  \A other \in Request \ {r} :
               /\ request[other].phase = "commit" /\ request[other].promoted
                  => queries'[request[other].query].exists
               /\ ~spoilt' /\ ChosenIn(request[other]) /\ ~request[other].overtaken
                     /\ request[other].phase \in {"promote", "commit"}
                  => Defaults' = {request[other].current}
<1>1. TAKE other \in Request \ {r}
<1>2. Holds(request[other])
  BY DEF IInv
<1>3. ASSUME request[other].phase = "commit", request[other].promoted
      PROVE  queries'[request[other].query].exists
  <2>1. request[other].query \in Query /\ queries[request[other].query].exists
    BY <1>2, <1>3 DEF Holds, QueryIn, KindOfPhase, PromotedIn
  <2>. QED BY <1>3, <2>1
<1>4. ~spoilt' /\ ChosenIn(request[other]) /\ ~request[other].overtaken
        /\ request[other].phase \in {"promote", "commit"}
      => Defaults' = {request[other].current}
  BY DEF ChosenIn, IInv, TypeOK
<1>. QED BY <1>3, <1>4

(* A query that is not a default is written and the request ends.          *)
LEMMA UpdateIInv == ASSUME IInv, NEW r \in Request, UpdateWrite(r) PROVE IInv'
<1>. DEFINE y == request[r]
            q == y.query
<1>1. y \in RequestState /\ Holds(y)
  BY DEF IInv, TypeOK
<1>2. queries \in [Query -> QueryRow] /\ servers \in [Server -> ServerRow]
  BY DEF IInv, TypeOK
<1>3. q \in Query /\ y.value \in BOOLEAN
  BY <1>1 DEF UpdateWrite, Holds, QueryIn, RequestState
<1>4. /\ queries' = IF queries[q].exists THEN [queries EXCEPT ![q].is_private = y.value]
                                         ELSE queries
      /\ End(r, {q})
      /\ UNCHANGED <<servers, spoilt>>
  BY DEF UpdateWrite
<1>. HIDE DEF q, y
<1>5. /\ queries' \in [Query -> QueryRow]
      /\ \A x \in Query \ {q} : queries'[x] = queries[x]
      /\ \A x \in Query : /\ queries'[x].exists = queries[x].exists
                         /\ queries'[x].author = queries[x].author
                         /\ queries'[x].is_default = queries[x].is_default
  BY <1>2, <1>3, <1>4 DEF QueryRow
<1>6. Defaults' = Defaults
  BY <1>5 DEF Defaults
<1>7. OneDefault'
  BY <1>4, <1>6 DEF IInv, OneDefault
<1>8. \A s \in Server : servers'[s].query # NoQuery => queries'[servers'[s].query].exists
  <2>1. \A s \in Server : servers[s].query \in Query \cup {NoQuery}
    BY <1>2 DEF ServerRow
  <2>. QED BY <1>4, <1>5, <2>1 DEF IInv, TypeOK
<1>. QED BY <1>2, <1>4, <1>5, <1>6, <1>7, <1>8, OthersKeep, Ended DEF IInv, TypeOK

LEMMA ServerIInv == ASSUME IInv, NEW r \in Request, ServerWrite(r) PROVE IInv'
<1>. DEFINE y == request[r]
            q == y.query
            t == y.server
            Q == {q, servers[t].query} \ {NoQuery}
<1>1. y \in RequestState /\ Holds(y)
  BY DEF IInv, TypeOK
<1>2. queries \in [Query -> QueryRow] /\ servers \in [Server -> ServerRow]
  BY DEF IInv, TypeOK
<1>3. /\ queries[q].exists
      /\ q \in Query /\ t \in Server /\ y.owner \in User \cup {Shared, NoUser}
  BY <1>1 DEF ServerWrite, Holds, QueryIn, ServerIn, RequestState
<1>4. /\ servers' = IF y.kind = "create_server" \/ servers[t].query # NoQuery
                    THEN [servers EXCEPT ![t] = [owner |-> y.owner, query |-> q]]
                    ELSE servers
      /\ End(r, Q)
      /\ UNCHANGED <<queries, spoilt>>
  BY DEF ServerWrite
<1>. HIDE DEF q, y, t, Q
<1>5. /\ servers' \in [Server -> ServerRow]
      /\ \A s \in Server : servers'[s].query \in {servers[s].query, q}
  BY <1>2, <1>3, <1>4 DEF ServerRow
<1>6. Defaults' = Defaults
  BY <1>4 DEF Defaults
<1>7. OneDefault'
  BY <1>4, <1>6 DEF IInv, OneDefault
<1>8. \A s \in Server : servers'[s].query # NoQuery => queries'[servers'[s].query].exists
  BY <1>3, <1>4, <1>5 DEF IInv, TypeOK
<1>. QED BY <1>2, <1>4, <1>5, <1>6, <1>7, <1>8, OthersKeep, Ended DEF IInv, TypeOK

LEMMA DestroyIInv == ASSUME IInv, NEW r \in Request, DestroyWrite(r) PROVE IInv'
<1>. DEFINE y == request[r]
            q == y.query
<1>1. y \in RequestState /\ Holds(y)
  BY DEF IInv, TypeOK
<1>2. queries \in [Query -> QueryRow] /\ servers \in [Server -> ServerRow]
  BY DEF IInv, TypeOK
<1>3. q \in Query /\ y.overtaken \in BOOLEAN
      /\ (~y.overtaken => ~queries[q].is_default)
  BY <1>1 DEF DestroyWrite, Holds, QueryIn, FreshIn, RequestState
<1>4. /\ queries' = [queries EXCEPT ![q] = NoQueryRow]
      /\ spoilt' = (spoilt \/ y.overtaken)
      /\ References(q) = {}
      /\ ~Locked(q, r)
      /\ End(r, {q})
      /\ UNCHANGED servers
  BY DEF DestroyWrite, Spoil
<1>. HIDE DEF q, y
<1>5. /\ queries' \in [Query -> QueryRow]
      /\ \A x \in Query \ {q} : queries'[x] = queries[x]
      /\ queries'[q] = NoQueryRow
  BY <1>2, <1>3, <1>4 DEF QueryRow, NoQueryRow
<1>6. ~spoilt' => Defaults' = Defaults
  BY <1>3, <1>4, <1>5 DEF Defaults, NoQueryRow
<1>7. OneDefault' /\ (spoilt => spoilt')
  BY <1>4, <1>6 DEF IInv, OneDefault
<1>8. \A s \in Server : servers'[s].query # NoQuery => queries'[servers'[s].query].exists
  <2>1. \A s \in Server : servers[s].query \in (Query \ {q}) \cup {NoQuery}
    BY <1>2, <1>3, <1>4 DEF ServerRow, References
  <2>. QED BY <1>4, <1>5, <2>1 DEF IInv, TypeOK
<1>9. \A other \in Request \ {r} : request[other].phase = "commit" => request[other].query # q
  BY <1>3, <1>4 DEF Locked, Held
<1>10. \A x \in Query : queries'[x].exists <=> queries'[x].author # NoUser
  BY <1>5 DEF NoQueryRow, IInv, TypeOK
<1>11. spoilt' \in BOOLEAN /\ servers' \in [Server -> ServerRow]
  BY <1>2, <1>3, <1>4 DEF IInv, TypeOK
<1>12. \A x \in Query : queries[x].exists =>
           queries'[x].exists \/ \A other \in Request \ {r} :
               request[other].phase = "commit" => request[other].query # x
  BY <1>5, <1>9
<1>. QED BY <1>4, <1>5, <1>6, <1>7, <1>8, <1>10, <1>11, <1>12, OthersKeep, Ended

LEMMA CommitIInv == ASSUME IInv, NEW r \in Request, Commit(r) PROVE IInv'
<1>. DEFINE y == request[r]
            q == y.query
            d == y.current
            moved == {s \in y.moved : servers[s].query # NoQuery}
            Flagged(x) == (queries[x].is_default /\ x # d) \/ (x = q /\ y.promoted)
            Q == {q, d} \ {NoQuery}
<1>1. y \in RequestState /\ Holds(y)
  BY DEF IInv, TypeOK
<1>2. queries \in [Query -> QueryRow] /\ servers \in [Server -> ServerRow]
  BY DEF IInv, TypeOK
<1>3. /\ y.phase = "commit"
      /\ moved # {} => y.promoted
      /\ queries' = [x \in Query |-> [queries[x] EXCEPT !.is_default = Flagged(x)]]
      /\ servers' = [s \in Server |-> IF s \in moved THEN [servers[s] EXCEPT !.query = q]
                                                     ELSE servers[s]]
      /\ spoilt' = (spoilt \/ y.overtaken)
      /\ End(r, Q)
  BY DEF Commit, Spoil
<1>4. /\ q \in Query
      /\ y.promoted \in BOOLEAN /\ y.overtaken \in BOOLEAN
      /\ y.promoted => queries[q].exists
      /\ ~y.overtaken => y.promoted /\ ~queries[q].is_default /\ queries[q].exists
      /\ ~y.overtaken /\ ~spoilt => Defaults = {d}
  BY <1>1, <1>3 DEF Holds, QueryIn, KindOfPhase, FreshIn, PromotedIn, PromotesIn, ChosenIn,
                    RequestState
<1>5. \A x \in Query : Flagged(x) \in BOOLEAN
  BY <1>2, <1>4 DEF QueryRow
<1>6. \A x \in Query \ Q : Flagged(x) = queries[x].is_default
  BY <1>2, <1>4, SchemaQueriesAssumption DEF QueryRow
<1>7. ~y.overtaken /\ ~spoilt =>
          \A x \in Query : (queries[x].exists /\ Flagged(x)) <=> x = q
  BY <1>4 DEF Defaults
<1>. HIDE DEF Flagged, moved, Q, q, d, y
<1>8. /\ queries' \in [Query -> QueryRow]
      /\ \A x \in Query : /\ queries'[x].exists = queries[x].exists
                         /\ queries'[x].author = queries[x].author
                         /\ queries'[x].is_default = Flagged(x)
  BY <1>2, <1>3, <1>5 DEF QueryRow
<1>9. \A x \in Query \ Q : queries'[x] = queries[x]
  <2>1. ASSUME NEW x \in Query \ Q PROVE queries'[x] = queries[x]
    <3>1. queries'[x] = [queries[x] EXCEPT !.is_default = queries[x].is_default]
      BY <1>3, <1>6
    <3>2. queries[x] \in QueryRow
      BY <1>2
    <3>. QED BY <3>1, <3>2 DEF QueryRow
  <2>. QED BY <2>1
<1>10. /\ servers' \in [Server -> ServerRow]
       /\ \A s \in Server : servers'[s].query = servers[s].query
                           \/ (servers'[s].query = q /\ y.promoted)
  <2>1. ASSUME NEW s \in Server
        PROVE  /\ servers'[s] \in ServerRow
               /\ servers'[s].query = servers[s].query
                  \/ (servers'[s].query = q /\ y.promoted)
    <3>1. servers[s] \in ServerRow
      BY <1>2
    <3>2. CASE s \in moved
      BY <1>3, <1>4, <3>1, <3>2 DEF ServerRow
    <3>3. CASE s \notin moved
      BY <1>3, <3>1, <3>3
    <3>. QED BY <3>2, <3>3
  <2>2. servers' = [s \in Server |-> servers'[s]]
    BY <1>3
  <2>. QED BY <2>1, <2>2
<1>11. \A s \in Server : servers'[s].query # NoQuery => queries'[servers'[s].query].exists
  <2>1. \A s \in Server : servers[s].query \in Query \cup {NoQuery}
    BY <1>2 DEF ServerRow
  <2>. QED BY <1>4, <1>8, <1>10, <2>1 DEF IInv, TypeOK
<1>12. \A x \in Query : queries'[x].exists <=> queries'[x].author # NoUser
  BY <1>8 DEF IInv, TypeOK
<1>13. spoilt' \in BOOLEAN /\ (spoilt => spoilt')
  BY <1>3, <1>4 DEF IInv, TypeOK
<1>14. ~spoilt' => Defaults' = {q}
  BY <1>3, <1>4, <1>7, <1>8 DEF Defaults
<1>15. OneDefault'
  BY <1>4, <1>14 DEF OneDefault
<1>16. ASSUME NEW other \in Request \ {r}
       PROVE  /\ request[other].phase = "commit" /\ request[other].promoted
                 => queries'[request[other].query].exists
              /\ ~spoilt' /\ ChosenIn(request[other]) /\ ~request[other].overtaken
                   /\ request[other].phase \in {"promote", "commit"}
                 => Defaults' = {request[other].current}
  <2>1. Holds(request[other])
    BY DEF IInv
  <2>2. request[other].phase = "commit" => request[other].query \in Query
    BY <2>1 DEF Holds, QueryIn, KindOfPhase
  <2>3. request[other].phase = "commit" /\ request[other].promoted
            => queries'[request[other].query].exists
    BY <1>8, <2>1, <2>2 DEF Holds, PromotedIn
  <2>4. ASSUME ~spoilt', ~request[other].overtaken,
               request[other].phase \in {"promote", "commit"}
        PROVE  FALSE
    <3>1. ~spoilt /\ ~y.overtaken
      BY <1>3, <1>4, <2>4 DEF IInv, TypeOK
    <3>2. Defaults = {d} /\ Defaults = {request[other].current}
      BY <1>4, <2>1, <2>4, <3>1 DEF Holds, ChosenIn
    <3>3. d \in Query
      BY <3>2 DEF Defaults
    <3>4. request[r].current = request[other].current
      BY <3>2 DEF d, y
    <3>5. request[r].current # NoQuery /\ request[r].phase = "commit"
      BY <1>3, <3>3 DEF d, y
    <3>. QED BY <2>4, <3>4, <3>5 DEF IInv, Exclusive
  <2>. QED BY <2>3, <2>4
<1>. QED BY <1>3, <1>8, <1>9, <1>10, <1>11, <1>12, <1>13, <1>15, <1>16, Ended

LEMMA CreateIInv ==
    ASSUME IInv, NEW q \in Query, NEW u \in User, NEW private \in BOOLEAN,
           CreateQuery(q, u, private)
    PROVE  IInv'
<1>1. /\ ~queries[q].exists
      /\ queries' = [queries EXCEPT ![q] = [exists |-> TRUE, author |-> u,
                         is_default |-> FALSE, is_private |-> private]]
      /\ \A r \in Request : request[r].query # q
      /\ UNCHANGED <<servers, request, spoilt>>
  BY DEF CreateQuery
<1>2. queries \in [Query -> QueryRow] /\ servers \in [Server -> ServerRow]
  BY DEF IInv, TypeOK
<1>3. /\ queries' \in [Query -> QueryRow]
      /\ \A x \in Query \ {q} : queries'[x] = queries[x]
      /\ queries'[q].exists /\ queries'[q].author = u /\ ~queries'[q].is_default
  BY <1>1, <1>2 DEF QueryRow
<1>4. Defaults' = Defaults
  BY <1>1, <1>3 DEF Defaults
<1>5. TypeOK'
  <2>1. \A s \in Server : servers[s].query \in Query \cup {NoQuery}
    BY <1>2 DEF ServerRow
  <2>2. \A s \in Server : servers'[s].query # NoQuery => queries'[servers'[s].query].exists
    BY <1>1, <1>3, <2>1 DEF IInv, TypeOK
  <2>3. \A x \in Query : queries'[x].exists <=> queries'[x].author # NoUser
    BY <1>3 DEF IInv, TypeOK
  <2>. QED BY <1>1, <1>3, <2>2, <2>3 DEF IInv, TypeOK
<1>6. ASSUME NEW r \in Request PROVE Holds(request[r])'
  <2>1. Holds(request[r]) /\ request'[r] = request[r]
    BY <1>1 DEF IInv
  <2>2. QueryIn(request[r])' /\ ServerIn(request[r])' /\ KindOfPhase(request[r])'
        /\ PromotesIn(request[r])'
    BY <2>1 DEF Holds, QueryIn, ServerIn, KindOfPhase, PromotesIn
  <2>3. FreshIn(request[r])'
    BY <1>1, <1>3, <2>1 DEF Holds, FreshIn
  <2>4. PromotedIn(request[r])'
    BY <1>1, <1>3, <2>1 DEF Holds, QueryIn, KindOfPhase, PromotedIn
  <2>5. CurrentIn(request[r])' /\ ChosenIn(request[r])'
    BY <1>1, <1>4, <2>1 DEF Holds, CurrentIn, ChosenIn
  <2>. QED BY <2>2, <2>3, <2>4, <2>5 DEF Holds
<1>. QED BY <1>1, <1>4, <1>5, <1>6 DEF IInv, OneDefault, Exclusive

LEMMA DestroyServerIInv == ASSUME IInv, NEW s \in Server, DestroyServer(s) PROVE IInv'
<1>1. /\ servers' = [servers EXCEPT ![s] = NoServerRow]
      /\ UNCHANGED <<queries, request, spoilt>>
  BY DEF DestroyServer
<1>2. TypeOK'
  <2>1. servers \in [Server -> ServerRow]
    BY DEF IInv, TypeOK
  <2>2. /\ servers' \in [Server -> ServerRow]
        /\ \A t \in Server : servers'[t].query \in {servers[t].query, NoQuery}
    BY <1>1, <2>1 DEF ServerRow, NoServerRow
  <2>. QED BY <1>1, <2>2 DEF IInv, TypeOK
<1>3. Defaults' = Defaults
  BY <1>1 DEF Defaults
<1>4. ASSUME NEW r \in Request PROVE Holds(request[r])'
  <2>1. Holds(request[r])
    BY DEF IInv
  <2>. QED BY <1>1, <1>3, <2>1 DEF Holds, QueryIn, ServerIn, KindOfPhase, FreshIn, PromotedIn,
                                  PromotesIn, CurrentIn, ChosenIn
<1>. QED BY <1>1, <1>2, <1>3, <1>4 DEF IInv, OneDefault, Exclusive

LEMMA FailIInv == ASSUME IInv, NEW r \in Request, Fail(r) PROVE IInv'
<1>1. Continue(r, Idle)
  BY DEF Fail
<1>2. Idle.phase = "idle"
  BY DEF Idle
<1>. QED BY <1>1, <1>2, IdleHolds, Continued

LEMMA NextIInv == IInv /\ [Next]_vars => IInv'
<1>. SUFFICES ASSUME IInv, [Next]_vars PROVE IInv'
  OBVIOUS
<1>1. CASE \E q \in Query, u \in User, private \in BOOLEAN : CreateQuery(q, u, private)
  BY <1>1, CreateIInv
<1>2. ASSUME NEW r \in Request, Load(r) PROVE IInv'
  BY <1>2, LoadIInv
<1>3. ASSUME NEW r \in Request, Step(r) PROVE IInv'
  BY <1>3, UpdateIInv, DestroyIInv, TransactionIInv, CommitIInv, ServerIInv, FailIInv DEF Step
<1>4. CASE \E s \in Server : DestroyServer(s)
  BY <1>4, DestroyServerIInv
<1>5. CASE UNCHANGED vars
  <2>1. UNCHANGED <<queries, servers, request, spoilt>>
    BY <1>5 DEF vars
  <2>2. TypeOK' /\ OneDefault' /\ Exclusive'
    BY <2>1 DEF IInv, TypeOK, OneDefault, Exclusive, Defaults
  <2>3. ASSUME NEW r \in Request PROVE Holds(request[r])'
    <3>1. Holds(request[r])
      BY DEF IInv
    <3>. QED BY <2>1, <3>1 DEF Holds, QueryIn, ServerIn, KindOfPhase, FreshIn, PromotedIn,
                               PromotesIn, CurrentIn, ChosenIn, Defaults
  <2>. QED BY <2>2, <2>3 DEF IInv
<1>. QED BY <1>1, <1>2, <1>3, <1>4, <1>5 DEF Next

-----------------------------------------------------------------------------
(* The readers of a query.  What a request has loaded about its query is   *)
(* still so until it is overtaken (Reads), as whoever writes about a query *)
(* overtakes the requests that are about it.                               *)

Reads(x) ==
    ~x.overtaken =>
        /\ x.kind = "update" => queries[x.query].is_default = x.was_default
        /\ x.kind = "update" /\ x.value /\ ReferencedByStrangers(x.query) => x.strangers
        /\ x.kind = "make_default" => queries[x.query].is_private = x.was_private
        /\ x.kind = "create_server" => queries[x.query].is_default
        /\ x.kind = "update_server" /\ queries[x.query].is_private =>
               x.owner \in {queries[x.query].author, Shared}

\* The new default has been found public before it is written.
PublicIn(x) == x.phase \in {"promote", "commit"} => ~x.was_private

ReadInv == \A r \in Request : Reads(request[r]) /\ PublicIn(request[r])

(* A step leaves a query alone: its row is as it was, and servers do not   *)
(* come to refer to it.                                                    *)
Untouched(q) ==
    /\ queries'[q] = queries[q]
    /\ \A s \in Server : servers'[s].query = q =>
           servers[s].query = q /\ servers'[s].owner = servers[s].owner

LEMMA StrangersOf ==
    ASSUME NEW q, Untouched(q)
    PROVE  ReferencedByStrangers(q)' => ReferencedByStrangers(q)
BY DEF ReferencedByStrangers, References, Untouched

LEMMA ReadsStay ==
    ASSUME NEW x, Reads(x), x.kind # "none" => Untouched(x.query)
    PROVE  Reads(x)'
<1>1. CASE x.kind = "none"
  BY <1>1 DEF Reads
<1>2. CASE x.kind # "none"
  <2>. DEFINE q == x.query
  <2>1. Untouched(q)
    BY <1>2
  <2>2. ReferencedByStrangers(q)' => ReferencedByStrangers(q)
    BY <2>1, StrangersOf
  <2>3. queries'[q] = queries[q]
    BY <2>1 DEF Untouched
  <2>. QED BY <2>2, <2>3 DEF Reads
<1>. QED BY <1>1, <1>2

LEMMA ReadableStays ==
    ASSUME NEW q \in Query, Untouched(q), Readable(q)
    PROVE  Readable(q)'
BY DEF Untouched, Readable, References

(* The end of a request that has written about the queries in Q alone.     *)
LEMMA ReadEnded ==
    ASSUME TypeOK, ReadInv, \A r \in Request : QueryIn(request[r]),
           NEW r \in Request, NEW Q, End(r, Q), \A q \in Query \ Q : Untouched(q)
    PROVE  ReadInv'
<1>. SUFFICES ASSUME NEW other \in Request
              PROVE  (Reads(request[other]) /\ PublicIn(request[other]))'
  BY DEF ReadInv
<1>. DEFINE y == request[other]
<1>1. y \in RequestState /\ Reads(y) /\ PublicIn(y) /\ QueryIn(y)
  BY DEF ReadInv, TypeOK
<1>2. CASE other = r
  <2>1. request'[other] = Idle
    BY <1>2 DEF End
  <2>. QED BY <2>1 DEF Idle, Reads, PublicIn
<1>3. CASE other # r
  <2>1. request'[other] = [y EXCEPT !.overtaken = y.overtaken \/ y.query \in Q]
    BY <1>3 DEF End
  <2>. DEFINE z == request'[other]
  <2>2. /\ z.kind = y.kind /\ z.phase = y.phase /\ z.query = y.query /\ z.value = y.value
        /\ z.was_default = y.was_default /\ z.was_private = y.was_private
        /\ z.strangers = y.strangers /\ z.owner = y.owner
        /\ z.overtaken = (y.overtaken \/ y.query \in Q)
    BY <1>1, <2>1 DEF RequestState
  <2>. HIDE DEF z, y
  <2>3. PublicIn(z)
    BY <1>1, <2>2 DEF PublicIn
  <2>4. CASE y.overtaken \/ y.query \in Q
    <3>1. z.overtaken
      BY <2>2, <2>4
    <3>. QED BY <2>3, <3>1 DEF Reads, PublicIn, z
  <2>5. CASE ~y.overtaken /\ y.query \notin Q
    <3>1. y.kind # "none" => Untouched(y.query)
      BY <1>1, <2>5 DEF QueryIn
    <3>2. Reads(z)
      BY <1>1, <2>2 DEF Reads
    <3>3. z.kind # "none" => Untouched(z.query)
      BY <2>2, <3>1
    <3>4. \A x : x = z => (Reads(x) /\ (x.kind # "none" => Untouched(x.query)))
      BY <3>2, <3>3
    <3>5. \A x : x = z => Reads(x)'
      <4>1. TAKE x
      <4>2. HAVE x = z
      <4>3. Reads(x) /\ (x.kind # "none" => Untouched(x.query))
        BY <3>4, <4>2
      <4>. QED BY <4>3, ReadsStay
    <3>. QED BY <2>3, <3>5 DEF Reads, PublicIn, z
  <2>. QED BY <2>4, <2>5
<1>. QED BY <1>2, <1>3

(* A step of a request that leaves the tables alone.                       *)
LEMMA ReadContinued ==
    ASSUME TypeOK, ReadInv, NEW r \in Request, NEW x, Continue(r, x), Reads(x), PublicIn(x)
    PROVE  ReadInv'
<1>1. /\ \A other \in Request : request'[other] = IF other = r THEN x ELSE request[other]
      /\ UNCHANGED <<queries, servers>>
  BY DEF Continue, TypeOK
<1>2. \A q : Untouched(q)
  BY <1>1 DEF Untouched
<1>3. \A y : Reads(y) => Reads(y)'
  BY <1>2, ReadsStay
<1>4. ASSUME NEW other \in Request PROVE (Reads(request[other]) /\ PublicIn(request[other]))'
  <2>1. \E y : y = request'[other] /\ Reads(y) /\ PublicIn(y)
    BY <1>1 DEF ReadInv
  <2>2. PICK y : y = request'[other] /\ Reads(y) /\ PublicIn(y)
    BY <2>1
  <2>3. Reads(y)' /\ PublicIn(y)
    BY <1>3, <2>2
  <2>. QED BY <2>2, <2>3 DEF Reads, PublicIn
<1>. QED BY <1>4 DEF ReadInv

\* What a request that begins has loaded is so.
LEMMA ReadLoads ==
    ASSUME TypeOK, ReadInv, NEW r \in Request, Load(r)
    PROVE  ReadInv'
<1>1. ASSUME NEW x, Begin(r, x), Reads(x), PublicIn(x) PROVE ReadInv'
  BY <1>1, ReadContinued DEF Begin, Continue
<1>2. ASSUME NEW q \in Query, NEW u \in User, NEW private \in BOOLEAN,
             UpdateLoad(r, q, u, private)
      PROVE  ReadInv'
  <2>. DEFINE strangers == private /\ ReferencedByStrangers(q)
              x == [Idle EXCEPT !.kind = "update", !.phase = "write", !.query = q,
                       !.was_default = queries[q].is_default, !.value = private,
                       !.strangers = strangers]
  <2>1. /\ x.kind = "update" /\ x.phase = "write" /\ x.query = q
        /\ x.was_default = queries[q].is_default /\ x.value = private /\ x.strangers = strangers
    BY DEF Idle
  <2>2. Begin(r, x)
    BY <1>2 DEF UpdateLoad
  <2>. HIDE DEF x
  <2>. QED BY <1>1, <2>1, <2>2 DEF Reads, PublicIn
<1>3. ASSUME NEW q \in Query, NEW u \in User, DestroyLoad(r, q, u) PROVE ReadInv'
  <2>. DEFINE x == [Idle EXCEPT !.kind = "destroy", !.phase = "write", !.query = q]
  <2>1. x.kind = "destroy" /\ x.phase = "write"
    BY DEF Idle
  <2>2. Begin(r, x)
    BY <1>3 DEF DestroyLoad
  <2>. HIDE DEF x
  <2>. QED BY <1>1, <2>1, <2>2 DEF Reads, PublicIn
<1>4. ASSUME NEW q \in Query, NEW u \in Admin, MakeDefaultLoad(r, q, u) PROVE ReadInv'
  <2>. DEFINE x == [Idle EXCEPT !.kind = "make_default", !.phase = "read", !.query = q,
                       !.was_private = queries[q].is_private]
  <2>1. /\ x.kind = "make_default" /\ x.phase = "read" /\ x.query = q
        /\ x.was_private = queries[q].is_private
    BY DEF Idle
  <2>2. Begin(r, x)
    BY <1>4 DEF MakeDefaultLoad
  <2>. HIDE DEF x
  <2>. QED BY <1>1, <2>1, <2>2 DEF Reads, PublicIn
<1>5. ASSUME NEW s \in Server, NEW o \in User \cup {Shared}, NEW d \in Query,
             CreateServerLoad(r, s, o, d)
      PROVE  ReadInv'
  <2>. DEFINE x == [Idle EXCEPT !.kind = "create_server", !.phase = "write", !.query = d,
                       !.server = s, !.owner = o]
  <2>1. x.kind = "create_server" /\ x.phase = "write" /\ x.query = d
    BY DEF Idle
  <2>2. Begin(r, x) /\ queries[d].is_default
    BY <1>5 DEF CreateServerLoad, Defaults
  <2>. HIDE DEF x
  <2>. QED BY <1>1, <2>1, <2>2 DEF Reads, PublicIn
<1>6. ASSUME NEW s \in Server, NEW u \in User, NEW q \in Query, UpdateServerLoad(r, s, u, q)
      PROVE  ReadInv'
  <2>. DEFINE x == [Idle EXCEPT !.kind = "update_server", !.phase = "write", !.query = q,
                       !.server = s, !.owner = servers[s].owner]
  <2>1. /\ x.kind = "update_server" /\ x.phase = "write" /\ x.query = q
        /\ x.owner = servers[s].owner
    BY DEF Idle
  <2>2. Begin(r, x)
    BY <1>6 DEF UpdateServerLoad
  <2>3. queries[q].is_private => servers[s].owner \in {queries[q].author, Shared}
    BY <1>6 DEF UpdateServerLoad, Shows
  <2>. HIDE DEF x
  <2>. QED BY <1>1, <2>1, <2>2, <2>3 DEF Reads, PublicIn
<1>. QED BY <1>2, <1>3, <1>4, <1>5, <1>6 DEF Load

\* The transaction loads nothing about its query anew.
LEMMA ReadTransaction ==
    ASSUME TypeOK, ReadInv, NEW r \in Request, KindOfPhase(request[r]),
           ReadDefault(r) \/ Demote(r) \/ Validate(r) \/ Promote(r)
    PROVE  ReadInv'
<1>. DEFINE y == request[r]
<1>1. y \in RequestState /\ Reads(y) /\ PublicIn(y) /\ KindOfPhase(y)
  BY DEF ReadInv, TypeOK
<1>2. y.kind = "make_default"
  BY <1>1 DEF KindOfPhase, ReadDefault, Demote, Validate, Promote
<1>3. ASSUME NEW x, Continue(r, x), x.kind = y.kind, x.query = y.query,
             x.overtaken = y.overtaken, x.was_private = y.was_private,
             x.phase \in {"promote", "commit"} => ~y.was_private
      PROVE  ReadInv'
  <2>1. Reads(x) /\ PublicIn(x)
    BY <1>1, <1>2, <1>3 DEF Reads, PublicIn
  <2>. QED BY <1>3, <2>1, ReadContinued
<1>. HIDE DEF y
<1>4. ASSUME ReadDefault(r) PROVE ReadInv'
  <2>1. CASE Continue(r, [y EXCEPT !.phase = "demote"])
    BY <1>1, <1>3, <2>1 DEF RequestState
  <2>2. ASSUME NEW d, NEW l, NEW m,
               Continue(r, [y EXCEPT !.phase = "demote", !.current = d, !.loaded = l,
                                     !.moved = m])
        PROVE  ReadInv'
    BY <1>1, <1>3, <2>2 DEF RequestState
  <2>. QED BY <1>4, <2>1, <2>2 DEF ReadDefault, y
<1>5. ASSUME Demote(r) PROVE ReadInv'
  <2>1. Continue(r, [y EXCEPT !.phase = "validate"])
    BY <1>5 DEF Demote, y
  <2>. QED BY <1>1, <1>3, <2>1 DEF RequestState
<1>6. ASSUME Validate(r) PROVE ReadInv'
  <2>1. Continue(r, [y EXCEPT !.phase = "promote"]) /\ ~y.was_private
    BY <1>6 DEF Validate, y
  <2>. QED BY <1>1, <1>3, <2>1 DEF RequestState
<1>7. ASSUME Promote(r) PROVE ReadInv'
  <2>1. /\ y.phase = "promote"
        /\ \E p, m : Continue(r, [y EXCEPT !.phase = "commit", !.promoted = p, !.moved = m])
    BY <1>7 DEF Promote, y
  <2>. QED BY <1>1, <1>3, <2>1 DEF RequestState, PublicIn
<1>. QED BY <1>4, <1>5, <1>6, <1>7

(* What each writing request leaves alone.                                 *)
LEMMA UpdateTouches ==
    ASSUME TypeOK, NEW r \in Request, UpdateWrite(r), QueryIn(request[r])
    PROVE  /\ End(r, {request[r].query})
           /\ \A q \in Query \ {request[r].query} : Untouched(q)
BY DEF UpdateWrite, Untouched, QueryIn, TypeOK

LEMMA DestroyTouches ==
    ASSUME TypeOK, NEW r \in Request, DestroyWrite(r), QueryIn(request[r])
    PROVE  /\ End(r, {request[r].query})
           /\ \A q \in Query \ {request[r].query} : Untouched(q)
BY DEF DestroyWrite, Untouched, QueryIn, TypeOK

LEMMA ServerTouches ==
    ASSUME TypeOK, NEW r \in Request, ServerWrite(r), QueryIn(request[r]), ServerIn(request[r])
    PROVE  \E Q : /\ End(r, Q)
                  /\ \A q \in Query \ Q : Untouched(q)
<1>. DEFINE y == request[r]
            Q == {y.query, servers[y.server].query} \ {NoQuery}
<1>1. /\ End(r, Q) /\ UNCHANGED queries
      /\ servers' = servers \/ servers' = [servers EXCEPT ![y.server] = [owner |-> y.owner, query |-> y.query]]
      /\ y.query \in Query /\ y.server \in Server
  BY DEF ServerWrite, QueryIn, ServerIn
<1>2. servers \in [Server -> ServerRow]
  BY DEF TypeOK
<1>. HIDE DEF y
<1>3. ASSUME NEW q \in Query \ Q PROVE Untouched(q)
  <2>1. q # y.query
    BY <1>1, <1>3
  <2>. QED BY <1>1, <1>2, <2>1 DEF Untouched
<1>. QED BY <1>1, <1>3

LEMMA CommitTouches ==
    ASSUME TypeOK, NEW r \in Request, Commit(r), request[r].query \in Query
    PROVE  /\ End(r, {request[r].query, request[r].current} \ {NoQuery})
           /\ \A q \in Query \ {request[r].query, request[r].current} : Untouched(q)
<1>. DEFINE y == request[r]
            moved == {s \in y.moved : servers[s].query # NoQuery}
            Flagged(x) == (queries[x].is_default /\ x # y.current) \/ (x = y.query /\ y.promoted)
<1>1. /\ queries' = [x \in Query |-> [queries[x] EXCEPT !.is_default = Flagged(x)]]
      /\ servers' = [s \in Server |-> IF s \in moved THEN [servers[s] EXCEPT !.query = y.query]
                                                     ELSE servers[s]]
      /\ End(r, {y.query, y.current} \ {NoQuery})
  BY DEF Commit
<1>2. servers \in [Server -> ServerRow] /\ queries \in [Query -> QueryRow]
  BY DEF TypeOK
<1>. HIDE DEF moved, y
<1>3. ASSUME NEW q \in Query \ {y.query, y.current} PROVE Untouched(q)
  <2>1. Flagged(q) = queries[q].is_default
    BY <1>2, <1>3 DEF QueryRow
  <2>2. queries'[q] = [queries[q] EXCEPT !.is_default = queries[q].is_default]
    BY <1>1, <2>1
  <2>3. queries'[q] = queries[q]
    BY <1>2, <2>2 DEF QueryRow
  <2>4. ASSUME NEW s \in Server, servers'[s].query = q
        PROVE  servers[s].query = q /\ servers'[s].owner = servers[s].owner
    <3>1. servers[s] \in ServerRow
      BY <1>2
    <3>2. CASE s \in moved
      BY <1>1, <1>3, <2>4, <3>1, <3>2 DEF ServerRow
    <3>3. CASE s \notin moved
      BY <1>1, <2>4, <3>3
    <3>. QED BY <3>2, <3>3
  <2>. QED BY <2>3, <2>4 DEF Untouched
<1>. QED BY <1>1, <1>3 DEF y

\* A query is created while no request is about it, and a server is destroyed at any time.
LEMMA ReadTables ==
    ASSUME TypeOK, ReadInv, \A r \in Request : QueryIn(request[r]), UNCHANGED request,
           \A r \in Request : request[r].query \in Query => Untouched(request[r].query)
    PROVE  ReadInv'
<1>. SUFFICES ASSUME NEW r \in Request PROVE (Reads(request[r]) /\ PublicIn(request[r]))'
  BY DEF ReadInv
<1>1. PICK x : x = request[r]
  OBVIOUS
<1>2. Reads(x) /\ PublicIn(x) /\ (x.kind # "none" => Untouched(x.query))
  BY <1>1 DEF ReadInv, QueryIn
<1>3. Reads(x)'
  BY <1>2, ReadsStay
<1>. QED BY <1>1, <1>2, <1>3 DEF Reads, PublicIn

LEMMA ReadNext == IInv /\ ReadInv /\ [Next]_vars => ReadInv'
<1>. SUFFICES ASSUME IInv, ReadInv, [Next]_vars PROVE ReadInv'
  OBVIOUS
<1>1. TypeOK /\ \A r \in Request : Holds(request[r])
  BY DEF IInv
<1>2. \A r \in Request : QueryIn(request[r]) /\ ServerIn(request[r]) /\ KindOfPhase(request[r])
  BY <1>1 DEF Holds
<1>3. ASSUME NEW q \in Query, NEW u \in User, NEW private \in BOOLEAN, CreateQuery(q, u, private)
      PROVE  ReadInv'
  <2>1. /\ UNCHANGED <<servers, request>> /\ \A x \in Query \ {q} : queries'[x] = queries[x]
        /\ \A r \in Request : request[r].query # q
    BY <1>1, <1>3 DEF CreateQuery, TypeOK
  <2>. QED BY <1>1, <1>2, <2>1, ReadTables DEF Untouched
<1>4. ASSUME NEW s \in Server, DestroyServer(s) PROVE ReadInv'
  <2>1. /\ UNCHANGED <<queries, request>>
        /\ \A t \in Server : servers'[t] = servers[t] \/ servers'[t].query = NoQuery
    BY <1>1, <1>4 DEF DestroyServer, TypeOK, NoServerRow
  <2>2. \A q \in Query : Untouched(q)
    BY <2>1 DEF Untouched
  <2>. QED BY <1>1, <1>2, <2>1, <2>2, ReadTables
<1>5. ASSUME NEW r \in Request, Step(r) PROVE ReadInv'
  <2>1. CASE ReadDefault(r) \/ Demote(r) \/ Validate(r) \/ Promote(r)
    BY <1>1, <1>2, <2>1, ReadTransaction
  <2>2. CASE UpdateWrite(r) \/ DestroyWrite(r)
    BY <1>1, <1>2, <2>2, UpdateTouches, DestroyTouches, ReadEnded
  <2>3. CASE ServerWrite(r)
    BY <1>1, <1>2, <2>3, ServerTouches, ReadEnded
  <2>4. CASE Commit(r)
    <3>1. request[r].query \in Query
      BY <1>2, <2>4 DEF Commit, KindOfPhase, QueryIn
    <3>. DEFINE Q == {request[r].query, request[r].current}
    <3>2. End(r, Q \ {NoQuery}) /\ \A q \in Query \ Q : Untouched(q)
      BY <1>1, <2>4, <3>1, CommitTouches
    <3>3. Query \ (Q \ {NoQuery}) = Query \ Q
      OBVIOUS
    <3>. HIDE DEF Q
    <3>. QED BY <1>1, <1>2, <3>2, <3>3, ReadEnded
  <2>5. CASE Fail(r)
    <3>1. Continue(r, Idle) /\ Reads(Idle) /\ PublicIn(Idle)
      BY <2>5 DEF Fail, Idle, Reads, PublicIn
    <3>. QED BY <1>1, <3>1, ReadContinued
  <2>. QED BY <1>5, <2>1, <2>2, <2>3, <2>4, <2>5 DEF Step
<1>6. CASE UNCHANGED vars
  <2>1. \A q : Untouched(q)
    BY <1>6 DEF vars, Untouched
  <2>2. UNCHANGED request
    BY <1>6 DEF vars
  <2>. QED BY <1>1, <1>2, <2>1, <2>2, ReadTables
<1>. QED BY <1>1, <1>3, <1>4, <1>5, <1>6, ReadLoads DEF Next

LEMMA ReadInvAlways == Spec => [](IInv /\ ReadInv)
<1>1. Init => ReadInv
  <2>1. Reads(Idle) /\ PublicIn(Idle)
    BY DEF Idle, Reads, PublicIn
  <2>2. Init => \A r \in Request : request[r] = Idle
    BY DEF Init
  <2>. QED BY <2>1, <2>2 DEF ReadInv
<1>2. Init => IInv
  BY InitIInv
<1>3. (IInv /\ ReadInv) /\ [Next]_vars => (IInv /\ ReadInv)'
  BY NextIInv, ReadNext
<1>. QED BY <1>1, <1>2, <1>3, PTL DEF Spec

-----------------------------------------------------------------------------
(* What the requests that were not overtaken do to the readers.            *)

\* A query is made private if it is no default and no stranger's server refers to it.
LEMMA UpdateKeepsReaders ==
    ASSUME IInv, ReadInv, NEW r \in Request, UpdateWrite(r), ~request[r].overtaken,
           NEW q \in Query, Readable(q)
    PROVE  Readable(q)'
<1>. DEFINE y == request[r]
<1>1. TypeOK /\ Reads(y) /\ QueryIn(y) /\ ~y.overtaken /\ y.kind = "update"
  BY DEF IInv, Holds, ReadInv, UpdateWrite
<1>2. CASE q # y.query
  BY <1>1, <1>2, UpdateTouches, ReadableStays
<1>3. CASE q = y.query /\ y.value
  <2>1. ~y.was_default /\ (References(q) = {} \/ ~y.strangers)
    BY <1>3 DEF UpdateWrite, MayBePrivate
  <2>2. ~queries[q].is_default /\ ~ReferencedByStrangers(q)
    BY <1>1, <1>3, <2>1 DEF Reads, ReferencedByStrangers
  <2>3. /\ servers' = servers /\ queries'[q].author = queries[q].author
        /\ queries'[q].is_default = queries[q].is_default
    BY <1>1, <1>3 DEF UpdateWrite, TypeOK, QueryRow
  <2>. QED BY <2>2, <2>3 DEF Readable, References, ReferencedByStrangers
<1>4. CASE q = y.query /\ ~y.value
  <2>1. queries'[q].exists => ~queries'[q].is_private
    BY <1>1, <1>4 DEF UpdateWrite, TypeOK, QueryRow
  <2>. QED BY <2>1 DEF Readable
<1>. QED BY <1>2, <1>3, <1>4

LEMMA DestroyKeepsReaders ==
    ASSUME IInv, ReadInv, NEW r \in Request, DestroyWrite(r), NEW q \in Query, Readable(q)
    PROVE  Readable(q)'
<1>. DEFINE y == request[r]
<1>1. TypeOK /\ QueryIn(y)
  BY DEF IInv, Holds
<1>2. CASE q # y.query
  BY <1>1, <1>2, DestroyTouches, ReadableStays
<1>3. CASE q = y.query
  <2>1. ~queries'[q].exists
    BY <1>1, <1>3 DEF DestroyWrite, TypeOK, NoQueryRow
  <2>. QED BY <2>1 DEF Readable
<1>. QED BY <1>2, <1>3

\* The new default is public, and the old one has fewer servers than before.
LEMMA CommitKeepsReaders ==
    ASSUME IInv, ReadInv, NEW r \in Request, Commit(r), ~request[r].overtaken,
           NEW q \in Query, Readable(q)
    PROVE  Readable(q)'
<1>. DEFINE y == request[r]
            moved == {s \in y.moved : servers[s].query # NoQuery}
            Flagged(x) == (queries[x].is_default /\ x # y.current) \/ (x = y.query /\ y.promoted)
<1>1. /\ queries' = [x \in Query |-> [queries[x] EXCEPT !.is_default = Flagged(x)]]
      /\ servers' = [s \in Server |-> IF s \in moved THEN [servers[s] EXCEPT !.query = y.query]
                                                     ELSE servers[s]]
      /\ y.phase = "commit"
  BY DEF Commit
<1>2. TypeOK /\ Reads(y) /\ PublicIn(y) /\ QueryIn(y) /\ KindOfPhase(y) /\ ~y.overtaken
  BY DEF IInv, Holds, ReadInv
<1>3. /\ y.query \in Query /\ ~queries[y.query].is_private
      /\ servers \in [Server -> ServerRow] /\ queries \in [Query -> QueryRow]
  BY <1>1, <1>2 DEF Reads, PublicIn, QueryIn, KindOfPhase, TypeOK
<1>. HIDE DEF moved, y, Flagged
<1>4. /\ queries'[q].exists = queries[q].exists /\ queries'[q].is_private = queries[q].is_private
      /\ queries'[q].author = queries[q].author /\ queries'[q].is_default = Flagged(q)
  BY <1>1, <1>3 DEF QueryRow
<1>5. CASE q = y.query
  BY <1>3, <1>4, <1>5 DEF Readable
<1>6. CASE q # y.query
  <2>1. Flagged(q) => queries[q].is_default
    BY <1>6 DEF Flagged
  <2>2. ASSUME NEW s \in Server, servers'[s].query = q
        PROVE  servers[s].query = q /\ servers'[s].owner = servers[s].owner
    <3>1. servers[s] \in ServerRow
      BY <1>3
    <3>2. CASE s \in moved
      BY <1>1, <1>6, <2>2, <3>1, <3>2 DEF ServerRow
    <3>3. CASE s \notin moved
      BY <1>1, <2>2, <3>3
    <3>. QED BY <3>2, <3>3
  <2>. QED BY <1>4, <2>1, <2>2 DEF Readable, References
<1>. QED BY <1>5, <1>6

\* A server gets the default, which is public, or a query that its owner can read.
LEMMA ServerKeepsReaders ==
    ASSUME IInv, ReadInv, NEW r \in Request, ServerWrite(r), ~request[r].overtaken,
           NEW q \in Query, Readable(q)
    PROVE  Readable(q)'
<1>. DEFINE y == request[r]
<1>1. /\ UNCHANGED queries /\ queries[y.query].exists
      /\ servers' = servers \/ servers' = [servers EXCEPT ![y.server] = [owner |-> y.owner, query |-> y.query]]
      /\ y.kind \in {"create_server", "update_server"}
  BY DEF ServerWrite
<1>2. TypeOK /\ Reads(y) /\ QueryIn(y) /\ ServerIn(y) /\ ~y.overtaken
  BY DEF IInv, Holds, ReadInv
<1>3. y.query \in Query /\ y.server \in Server /\ servers \in [Server -> ServerRow]
  BY <1>1, <1>2 DEF QueryIn, ServerIn, TypeOK
<1>. HIDE DEF y
<1>4. CASE q # y.query
  <2>1. Untouched(q)
    BY <1>1, <1>3, <1>4 DEF Untouched
  <2>. QED BY <2>1, ReadableStays
<1>5. CASE q = y.query
  <2>1. queries[q].is_private => ~queries[q].is_default
    BY <1>1, <1>5 DEF Readable
  <2>2. queries[q].is_private => y.owner \in {queries[q].author, Shared}
    BY <1>1, <1>2, <1>5, <2>1 DEF Reads
  <2>3. \A s \in Server : servers'[s] = servers[s] \/ servers'[s].owner = y.owner
    BY <1>1, <1>3
  <2>. QED BY <1>1, <2>2, <2>3 DEF Readable, References
<1>. QED BY <1>4, <1>5

LEMMA ReadersKept ==
    ASSUME IInv, ReadInv, [Next]_vars, ~OvertakenEnds, NEW q \in Query, Readable(q)
    PROVE  Readable(q)'
<1>1. TypeOK
  BY DEF IInv
<1>2. CASE UNCHANGED <<queries, servers>>
  BY <1>2, ReadableStays DEF Untouched
<1>3. ASSUME NEW p \in Query, NEW u \in User, NEW private \in BOOLEAN, CreateQuery(p, u, private)
      PROVE  Readable(q)'
  <2>1. /\ servers' = servers /\ ~queries[p].exists
        /\ \A x \in Query \ {p} : queries'[x] = queries[x]
        /\ ~queries'[p].is_default
    BY <1>1, <1>3 DEF CreateQuery, TypeOK
  <2>2. CASE q # p
    BY <2>1, <2>2, ReadableStays DEF Untouched
  <2>3. CASE q = p
    <3>1. \A s \in Server : servers[s].query # p
      BY <1>1, <2>1, <2>3 DEF TypeOK
    <3>. QED BY <2>1, <2>3, <3>1 DEF Readable, References
  <2>. QED BY <2>2, <2>3
<1>4. ASSUME NEW s \in Server, DestroyServer(s) PROVE Readable(q)'
  <2>1. /\ UNCHANGED <<queries, request>>
        /\ \A t \in Server : servers'[t] = servers[t] \/ servers'[t].query = NoQuery
    BY <1>1, <1>4 DEF DestroyServer, TypeOK, NoServerRow
  <2>. QED BY <2>1, ReadableStays DEF Untouched
<1>5. ASSUME NEW r \in Request, Step(r) PROVE Readable(q)'
  <2>1. CASE ReadDefault(r) \/ Demote(r) \/ Validate(r) \/ Promote(r) \/ Fail(r)
    <3>1. UNCHANGED <<queries, servers>>
      BY <2>1 DEF ReadDefault, Demote, Validate, Promote, Fail, Continue
    <3>. QED BY <1>2, <3>1
  <2>2. CASE UpdateWrite(r) \/ DestroyWrite(r) \/ Commit(r) \/ ServerWrite(r)
    <3>1. request'[r] = Idle
      BY <2>2 DEF UpdateWrite, DestroyWrite, Commit, ServerWrite, End
    <3>2. ~request[r].overtaken
      BY <3>1 DEF OvertakenEnds
    <3>. QED BY <2>2, <3>2, UpdateKeepsReaders, DestroyKeepsReaders, CommitKeepsReaders,
                ServerKeepsReaders
  <2>. QED BY <1>5, <2>1, <2>2 DEF Step
<1>6. ASSUME NEW r \in Request, Load(r) PROVE Readable(q)'
  <2>1. UNCHANGED <<queries, servers>>
    BY <1>6 DEF Load, UpdateLoad, DestroyLoad, MakeDefaultLoad, CreateServerLoad,
                UpdateServerLoad, Begin
  <2>. QED BY <1>2, <2>1
<1>7. CASE UNCHANGED vars
  BY <1>2, <1>7 DEF vars
<1>. QED BY <1>3, <1>4, <1>5, <1>6, <1>7 DEF Next

-----------------------------------------------------------------------------
(* The theorems                                                            *)

LEMMA IInvAlways == Spec => []IInv
BY InitIInv, NextIInv, PTL DEF Spec

(* The tables keep their types, and no server refers to a query that is    *)
(* gone: the foreign key and the order of the writes see to it             *)
(* (database_schema_query.rb:107-119 and 161-167).                         *)
THEOREM TypeCorrect == Spec => []TypeOK
<1>1. IInv => TypeOK
  BY DEF IInv
<1>. QED BY <1>1, IInvAlways, PTL

(* For any number of users, queries and requests there is exactly one      *)
(* default, as long as no overtaken request destroys or promotes a query   *)
(* (database_schema_query.rb:107-119 and 132-141).                         *)
THEOREM OneDefaultAlways == Spec => []OneDefault
<1>1. IInv => OneDefault
  BY DEF IInv
<1>. QED BY <1>1, IInvAlways, PTL

(* With any number of users, queries, servers and requests, what takes a   *)
(* query from those who depend on it, the default made private or a private*)
(* query given to strangers, is the end of a request that another one has  *)
(* overtaken since it had loaded its rows: each request alone checks what  *)
(* keeps the readers (database_schema_query.rb:143-152 and 169-175).       *)
THEOREM ReadersLostByRaceAlways == Spec => ReadersLostByRace
<1>1. IInv /\ ReadInv /\ [Next]_vars =>
          [\A q \in Query : Readable(q) /\ ~Readable(q)' => OvertakenEnds]_vars
  BY ReadersKept
<1>. QED BY <1>1, ReadInvAlways, PTL DEF Spec, ReadersLostByRace

=============================================================================
