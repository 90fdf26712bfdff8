--------------------------- MODULE GroupKeysProofs ----------------------------
(***************************************************************************)
(* Theorems about the key of a group (GroupKeys) and about its messages    *)
(* (GroupMail), for every value of the constants.                          *)
(***************************************************************************)
EXTENDS GroupMail, FiniteSetTheorems, WellFoundedInduction, TLAPS

------------------------------------------------------------------------------
(* Least numbers *)

\* A set of numbers has a least one.
LEMMA Least ==
  ASSUME NEW T, T \subseteq Nat, T # {}
  PROVE  \E x \in T : \A y \in T : x <= y
<1> DEFINE Below(x) == 0 .. x
           F == {Below(x) : x \in T}
<1>1. F \subseteq FiniteSubsetsOf(Nat) /\ F # {}
  <2>1. ASSUME NEW x \in T PROVE Below(x) \in FiniteSubsetsOf(Nat)
    <3>1. 0 \in Int /\ x \in Int /\ 0 .. x \subseteq Nat
      OBVIOUS
    <3>2. IsFiniteSet(0 .. x)
      BY <3>1, FS_Interval
    <3>3. QED
      BY <3>1, <3>2 DEF FiniteSubsetsOf
  <2> HIDE DEF Below
  <2>2. QED
    BY <2>1
<1>2. IsWellFoundedOn(StrictSubsetOrdering(Nat), FiniteSubsetsOf(Nat))
  BY FS_StrictSubsetOrderingWellFounded
<1>3. PICK B \in F : \A C \in F : <<C, B>> \notin StrictSubsetOrdering(Nat)
  <2> HIDE DEF F
  <2>1. QED
    BY <1>1, <1>2, WFMin
<1>4. PICK x \in T : B = Below(x)
  BY <1>3
<1>5. ASSUME NEW y \in T, y < x PROVE FALSE
  <2>1. Below(y) \in F /\ Below(y) \subseteq B /\ Below(y) # B /\ B \subseteq Nat
    BY <1>4, <1>5
  <2>2. <<Below(y), B>> \in StrictSubsetOrdering(Nat)
    BY <2>1 DEF StrictSubsetOrdering
  <2>3. QED
    BY <1>3, <2>1, <2>2
<1>6. QED
  BY <1>5

LEMMA MinIs ==
  ASSUME NEW T, T \subseteq Nat, T # {}
  PROVE  Min(T) \in T /\ \A y \in T : Min(T) <= y
BY Least DEF Min

------------------------------------------------------------------------------
(* Types *)

Blocks == [key : Nat, from : Users, nr : Nat]

\* The sets that some maps hold instead of an element or nothing.
AtMostOne(S) == {T \in SUBSET S : \A x, y \in T : x = y}

Places ==
  {Idle, [at |-> "check"], [at |-> "relist"], [at |-> "left"]}
    \cup [at : {"groups"}, got : AtMostOne(Blocks)]
    \cup [at : {"apply"}, got : {{b} : b \in Blocks}]
    \cup [at : {"members"}, got : SUBSET Users]
    \cup [at : {"rekey"}, got : SUBSET Users]
    \cup [at : {"seal"}, todo : (SUBSET Users) \ {{}}]
    \cup [at : {"deliver"}, to : Users, todo : SUBSET Users, sealed : Blocks]

GKTypeOK ==
  /\ members \subseteq Users
  /\ DOMAIN block \subseteq members /\ block \in [DOMAIN block -> Blocks]
  /\ key \in [Users -> AtMostOne(Nat)]
  /\ applied \in [Users -> AtMostOne(Blocks)]
  /\ last \in [Users -> AtMostOne(SUBSET Users)]
  /\ thread \in [Threads -> Places]
  /\ made \in Nat /\ sealed \in Nat
  /\ done \in [Kinds -> Nat]
  /\ known \in [Users -> SUBSET Nat]
  /\ gone \subseteq Users
  /\ calm \in BOOLEAN

LEMMA OneOf ==
  ASSUME NEW S, NEW x \in S
  PROVE  {x} \in AtMostOne(S) /\ {} \in AtMostOne(S)
BY DEF AtMostOne

LEMMA PlaceIs ==
  ASSUME NEW p \in Places
  PROVE  /\ p = Idle <=> p.at = "idle"
         /\ p.at = "groups" => p.got \in AtMostOne(Blocks)
         /\ p.at = "apply" => \E b \in Blocks : p.got = {b}
         /\ p.at \in {"members", "rekey"} => p.got \in SUBSET Users
         /\ p.at = "seal" => p.todo \in (SUBSET Users) \ {{}}
         /\ p.at = "deliver" => p.to \in Users /\ p.todo \in SUBSET Users /\ p.sealed \in Blocks
BY DEF Places, Idle

LEMMA ThreadIs ==
  ASSUME NEW u \in Users, NEW kind \in {"poll", "req"}
  PROVE  <<u, kind>> \in Threads /\ <<u, kind>>[1] = u /\ <<u, kind>>[2] = kind
BY DEF Threads

\* A thread goes to another place.
LEMMA Goes ==
  ASSUME thread \in [Threads -> Places], NEW t \in Threads, NEW p \in Places, Go(t, p)
  PROVE  /\ thread' \in [Threads -> Places]
         /\ thread'[t] = p
         /\ \A s \in Threads : s # t => thread'[s] = thread[s]
BY DEF Go

LEMMA InviteIs ==
  ASSUME NEW todo \in SUBSET Users
  PROVE  Invite(todo) \in Places
BY DEF Invite, Places

LEMMA LostIs ==
  ASSUME done \in [Kinds -> Nat], UNCHANGED done \/ LoseAnswer
  PROVE  /\ done' \in [Kinds -> Nat]
         /\ \A kind \in Kinds \ {"lost"} : done'[kind] = done[kind]
BY DEF LoseAnswer, Kinds

LEMMA AskIs ==
  ASSUME done \in [Kinds -> Nat], NEW kind \in Kinds, NEW bound, Ask(kind, bound), calm \in BOOLEAN
  PROVE  /\ done' \in [Kinds -> Nat] /\ calm' \in BOOLEAN
         /\ done'[kind] = done[kind] + 1
         /\ \A k \in Kinds \ {kind} : done'[k] = done[k]
<1>1. done' = [done EXCEPT ![kind] = @ + 1] /\ calm' = (calm /\ Settled)
  BY DEF Ask
<1>2. done' \in [Kinds -> Nat] /\ done'[kind] = done[kind] + 1
      /\ \A k \in Kinds \ {kind} : done'[k] = done[k]
  BY <1>1
<1>3. calm' \in BOOLEAN
  BY <1>1
<1>4. QED
  BY <1>2, <1>3

\* The relay answers with what is in its state.
LEMMA AnswersOK ==
  ASSUME GKTypeOK, NEW u \in Users
  PROVE  BlocksOf(u) \in AtMostOne(Blocks) /\ MembersFor(u) \in SUBSET Users
         /\ {} \in AtMostOne(Blocks) /\ {} \in SUBSET Users
BY OneOf DEF GKTypeOK, BlocksOf, MembersFor, AtMostOne

LEMMA ReadIs ==
  ASSUME GKTypeOK, NEW t \in Threads, NEW place, NEW got, Read(t, place, got)
  PROVE  /\ done' \in [Kinds -> Nat]
         /\ \A kind \in Kinds \ {"lost"} : done'[kind] = done[kind]
         /\ \E found \in {got, {}} : Go(t, [at |-> place, got |-> found])
         /\ done' = done => Go(t, [at |-> place, got |-> got]) \/ LoseAnswer
BY LostIs DEF Read, GKTypeOK

LEMMA TypesAnswered ==
  ASSUME GKTypeOK, NEW t \in Threads, NEW place, NEW got, Read(t, place, got),
         [at |-> place, got |-> got] \in Places, [at |-> place, got |-> {}] \in Places,
         UNCHANGED <<relayVars, clientVars, made, sealed, known, gone, calm>>
  PROVE  GKTypeOK'
<1>1. thread' \in [Threads -> Places] /\ done' \in [Kinds -> Nat]
  BY Goes, ReadIs, ZenonT(40) DEF GKTypeOK
<1>2. UNCHANGED <<members, block, key, applied, last, made, sealed, known, gone, calm>>
  BY DEF relayVars, clientVars
<1>3. QED
  BY <1>1, <1>2 DEF GKTypeOK

LEMMA TypesRead ==
  ASSUME GKTypeOK, NEW t \in Threads,
         \/ ListToCheck(t) \/ ListToRekey(t)
         \/ t[2] = "poll" /\ FetchGroups(t[1])
  PROVE  GKTypeOK'
<1>1. t[1] \in Users /\ t = <<t[1], t[2]>>
  BY DEF Threads
<1>2. /\ \A got \in AtMostOne(Blocks) : [at |-> "groups", got |-> got] \in Places
      /\ \A got \in SUBSET Users : [at |-> "members", got |-> got] \in Places
      /\ \A got \in SUBSET Users : [at |-> "rekey", got |-> got] \in Places
  BY DEF Places
<1>3. /\ [at |-> "groups", got |-> BlocksOf(t[1])] \in Places
      /\ [at |-> "members", got |-> MembersFor(t[1])] \in Places
      /\ [at |-> "rekey", got |-> MembersFor(t[1])] \in Places
      /\ [at |-> "groups", got |-> {}] \in Places
      /\ [at |-> "members", got |-> {}] \in Places
      /\ [at |-> "rekey", got |-> {}] \in Places
  BY <1>1, <1>2, AnswersOK
<1>4. CASE ListToCheck(t)
  <2>1. Read(t, "members", MembersFor(t[1]))
        /\ UNCHANGED <<relayVars, clientVars, made, sealed, known, gone, calm>>
    BY <1>4 DEF ListToCheck
  <2>2. QED
    BY <1>3, <2>1, TypesAnswered
<1>5. CASE ListToRekey(t)
  <2>1. Read(t, "rekey", MembersFor(t[1]))
        /\ UNCHANGED <<relayVars, clientVars, made, sealed, known, gone, calm>>
    BY <1>5 DEF ListToRekey
  <2>2. QED
    BY <1>3, <2>1, TypesAnswered
<1>6. CASE t[2] = "poll" /\ FetchGroups(t[1])
  <2>1. Read(t, "groups", BlocksOf(t[1]))
        /\ UNCHANGED <<relayVars, clientVars, made, sealed, known, gone, calm>>
    BY <1>1, <1>6 DEF FetchGroups
  <2>2. QED
    BY <1>3, <2>1, TypesAnswered
<1>7. QED
  BY <1>4, <1>5, <1>6

\* A thread goes on, or it has a sealed key that is not the one applied last.
LEMMA CheckIs ==
  ASSUME GKTypeOK, NEW t \in Threads, CheckBlock(t)
  PROVE  \E p \in Places :
           /\ thread[t].at = "groups" /\ Go(t, p)
           /\ \/ /\ p = Idle \/ (p = [at |-> "check"] /\ t[2] = "poll")
                 /\ thread[t].got \subseteq applied[t[1]]
              \/ \E b \in Blocks : /\ p = [at |-> "apply", got |-> {b}]
                                   /\ thread[t].got = {b} /\ b \notin applied[t[1]]
<1>1. thread[t].at = "groups" /\ thread[t].got \in AtMostOne(Blocks)
  <2>1. thread[t] \in Places /\ thread[t].at = "groups"
    BY DEF CheckBlock, GKTypeOK
  <2>2. QED
    BY <2>1, PlaceIs
<1>2. PICK new : new = thread[t].got \ applied[t[1]]
  OBVIOUS
<1>3. Go(t, IF new = {} THEN Fetched(t, key[t[1]]) ELSE [at |-> "apply", got |-> new])
  BY <1>2 DEF CheckBlock, Unapplied
<1>4. CASE new = {}
  <2>1. PICK p : p = Fetched(t, key[t[1]])
    OBVIOUS
  <2>2. Go(t, p) /\ (p = Idle \/ (p = [at |-> "check"] /\ t[2] = "poll"))
    BY <1>3, <1>4, <2>1 DEF Fetched
  <2>3. p \in Places
    BY <2>2 DEF Places
  <2>4. QED
    BY <1>1, <1>2, <1>4, <2>2, <2>3
<1>5. CASE new # {}
  <2>1. PICK b : b \in new
    BY <1>5
  <2>2. b \in Blocks /\ thread[t].got = {b} /\ new = {b} /\ b \notin applied[t[1]]
    BY <1>1, <1>2, <2>1 DEF AtMostOne
  <2>3. [at |-> "apply", got |-> {b}] \in Places
    BY <2>2 DEF Places
  <2>4. QED
    BY <1>1, <1>3, <1>5, <2>2, <2>3
<1>6. QED
  BY <1>4, <1>5

LEMMA TypesChecked ==
  ASSUME GKTypeOK, NEW t \in Threads, CheckBlock(t)
  PROVE  GKTypeOK'
<1>1. thread' \in [Threads -> Places]
  BY CheckIs, Goes DEF GKTypeOK
<1>2. UNCHANGED <<members, block, key, applied, last, made, sealed, done, known, gone, calm>>
  BY DEF CheckBlock, relayVars, clientVars, history
<1>3. QED
  BY <1>1, <1>2 DEF GKTypeOK

\* What a client has once a sealed key is applied.
LEMMA AppliedIs ==
  ASSUME GKTypeOK, NEW t \in Threads, ApplyBlock(t)
  PROVE  \E b \in Blocks :
           /\ thread[t].at = "apply" /\ thread[t].got = {b}
           /\ key' = [key EXCEPT ![t[1]] = {b.key}]
           /\ applied' = [applied EXCEPT ![t[1]] = {b}]
           /\ known' = [known EXCEPT ![t[1]] = @ \cup {b.key}]
           /\ \/ Go(t, Idle)
              \/ Go(t, [at |-> "check"]) /\ t[2] = "poll"
<1>1. thread[t] \in Places /\ thread[t].at = "apply"
  BY DEF ApplyBlock, GKTypeOK
<1>2. PICK b \in Blocks : thread[t].got = {b}
  BY <1>1, PlaceIs
<1>3. {c.key : c \in {b}} = {b.key}
  OBVIOUS
<1>4. /\ key' = [key EXCEPT ![t[1]] = {b.key}]
      /\ applied' = [applied EXCEPT ![t[1]] = {b}]
      /\ known' = [known EXCEPT ![t[1]] = @ \cup {b.key}]
  BY <1>2, <1>3 DEF ApplyBlock
<1>5. Go(t, Idle) \/ (Go(t, [at |-> "check"]) /\ t[2] = "poll")
  BY DEF ApplyBlock, Fetched
<1>6. QED
  BY <1>1, <1>2, <1>4, <1>5

LEMMA TypesApplied ==
  ASSUME GKTypeOK, NEW t \in Threads, ApplyBlock(t)
  PROVE  GKTypeOK'
<1>1. t[1] \in Users
  BY DEF Threads
<1>2. PICK b \in Blocks :
        /\ key' = [key EXCEPT ![t[1]] = {b.key}]
        /\ applied' = [applied EXCEPT ![t[1]] = {b}]
        /\ known' = [known EXCEPT ![t[1]] = @ \cup {b.key}]
        /\ Go(t, Idle) \/ Go(t, [at |-> "check"])
  BY AppliedIs
<1>3. b.key \in Nat /\ {b.key} \in AtMostOne(Nat) /\ {b} \in AtMostOne(Blocks)
  <2>1. b.key \in Nat
    BY DEF Blocks
  <2>2. QED
    BY <2>1, OneOf
<1>4. /\ key' \in [Users -> AtMostOne(Nat)] /\ applied' \in [Users -> AtMostOne(Blocks)]
      /\ known' \in [Users -> SUBSET Nat]
  BY <1>1, <1>2, <1>3, ZenonT(40) DEF GKTypeOK
<1>5. thread' \in [Threads -> Places]
  <2>1. [at |-> "check"] \in Places /\ Idle \in Places
    BY DEF Places
  <2>2. QED
    BY <1>2, <2>1, Goes DEF GKTypeOK
<1>6. UNCHANGED <<members, block, last, made, sealed, done, gone, calm>>
  BY DEF ApplyBlock, relayVars
<1>7. QED
  BY <1>4, <1>5, <1>6 DEF GKTypeOK

LEMMA TypesObserved ==
  ASSUME GKTypeOK, NEW t \in Threads, ObserveMembers(t)
  PROVE  GKTypeOK'
<1>1. t[1] \in Users /\ thread[t] \in Places
  BY DEF Threads, GKTypeOK
<1>2. thread[t].got \in SUBSET Users
  BY <1>1, PlaceIs DEF ObserveMembers
<1>3. last' \in [Users -> AtMostOne(SUBSET Users)]
  <2>1. {thread[t].got} \in AtMostOne(SUBSET Users)
    BY <1>2, OneOf
  <2>2. QED
    BY <1>1, <2>1 DEF ObserveMembers, GKTypeOK
<1>4. thread' \in [Threads -> Places]
  <2>1. [at |-> "relist"] \in Places /\ Idle \in Places
    BY DEF Places
  <2>2. QED
    BY <2>1, Goes DEF ObserveMembers, GKTypeOK
<1>5. UNCHANGED <<members, block, key, applied, made, sealed, done, known, gone, calm>>
  BY DEF ObserveMembers, relayVars, history
<1>6. QED
  BY <1>3, <1>4, <1>5 DEF GKTypeOK

LEMMA TypesNewKey ==
  ASSUME GKTypeOK, NEW t \in Threads, NewKey(t)
  PROVE  GKTypeOK'
<1> DEFINE u == t[1]
           got == thread[t].got
<1>1. u \in Users /\ thread[t] \in Places
  BY DEF Threads, GKTypeOK
<1>2. got \in SUBSET Users /\ got \ {u} \in SUBSET Users
  BY <1>1, PlaceIs DEF NewKey
<1>3. UNCHANGED <<members, block, applied, sealed, done, gone, calm>>
  BY DEF NewKey, relayVars
<1>4. CASE u \notin got
  <2>1. Go(t, Idle) /\ UNCHANGED <<key, last, made, known>>
    BY <1>4 DEF NewKey
  <2>2. Idle \in Places
    BY DEF Places
  <2>3. thread' \in [Threads -> Places]
    BY <2>1, <2>2, Goes DEF GKTypeOK
  <2>4. QED
    BY <1>3, <2>1, <2>3 DEF GKTypeOK
<1>5. CASE u \in got
  <2>1. /\ made' = made + 1
        /\ key' = [key EXCEPT ![u] = {made + 1}]
        /\ known' = [known EXCEPT ![u] = @ \cup {made + 1}]
        /\ last' = [last EXCEPT ![u] = {got}]
        /\ Go(t, Invite(got \ {u}))
    BY <1>5 DEF NewKey
  <2>2. thread' \in [Threads -> Places]
    BY <1>2, <2>1, Goes, InviteIs DEF GKTypeOK
  <2>3. made' \in Nat /\ {made + 1} \in AtMostOne(Nat) /\ {got} \in AtMostOne(SUBSET Users)
    <3>1. made + 1 \in Nat
      BY DEF GKTypeOK
    <3>2. QED
      BY <1>2, <2>1, <3>1, OneOf
  <2> HIDE DEF got
  <2>4. key' \in [Users -> AtMostOne(Nat)] /\ last' \in [Users -> AtMostOne(SUBSET Users)]
        /\ known' \in [Users -> SUBSET Nat]
    BY <1>1, <2>1, <2>3 DEF GKTypeOK
  <2>5. QED
    BY <1>3, <2>2, <2>3, <2>4 DEF GKTypeOK
<1>6. QED
  BY <1>4, <1>5

LEMMA TypesSealed ==
  ASSUME GKTypeOK, NEW t \in Threads, SealKey(t)
  PROVE  GKTypeOK'
<1> DEFINE u == t[1]
           to == Min(thread[t].todo)
           todo == thread[t].todo \ {to}
<1>1. u \in Users /\ thread[t] \in Places
  BY DEF Threads, GKTypeOK
<1>2. thread[t].todo \in (SUBSET Users) \ {{}}
  BY <1>1, PlaceIs DEF SealKey
<1>3. to \in Users /\ todo \in SUBSET Users
  BY <1>2, MinIs, NamesAssumption
<1>4. /\ UNCHANGED <<members, block, key, applied, last, made, done, known, gone, calm>>
      /\ \/ Go(t, Invite(todo)) /\ UNCHANGED sealed
         \/ \E k \in key[u] :
              /\ sealed' = sealed + 1
              /\ Go(t, [at |-> "deliver", to |-> to, todo |-> todo,
                        sealed |-> Block(k, u, sealed + 1)])
  BY DEF SealKey, relayVars, clientVars
<1> HIDE DEF u, to, todo
<1>5. CASE Go(t, Invite(todo)) /\ UNCHANGED sealed
  <2>1. thread' \in [Threads -> Places]
    BY <1>3, <1>5, Goes, InviteIs DEF GKTypeOK
  <2>2. QED
    BY <1>4, <1>5, <2>1 DEF GKTypeOK
<1>6. ASSUME NEW k \in key[u], sealed' = sealed + 1,
             Go(t, [at |-> "deliver", to |-> to, todo |-> todo,
                    sealed |-> Block(k, u, sealed + 1)])
      PROVE  GKTypeOK'
  <2>1. k \in Nat /\ sealed + 1 \in Nat
    BY <1>1 DEF GKTypeOK, AtMostOne
  <2>2. Block(k, u, sealed + 1) \in Blocks
    BY <1>1, <2>1 DEF Block, Blocks
  <2>3. [at |-> "deliver", to |-> to, todo |-> todo, sealed |-> Block(k, u, sealed + 1)] \in Places
    BY <1>3, <2>2 DEF Places
  <2>4. thread' \in [Threads -> Places]
    BY <1>6, <2>3, Goes DEF GKTypeOK
  <2>5. QED
    BY <1>4, <1>6, <2>1, <2>4 DEF GKTypeOK
<1>7. QED
  BY <1>4, <1>5, <1>6

\* What the relay has of the group after an invitation.
LEMMA DeliveredIs ==
  ASSUME GKTypeOK, NEW t \in Threads, DeliverInvite(t)
  PROVE  /\ thread[t].to \in Users /\ thread[t].todo \in SUBSET Users /\ thread[t].sealed \in Blocks
         /\ \/ /\ t[1] \in members
               /\ members' = members \cup {thread[t].to}
               /\ DOMAIN block' = DOMAIN block \cup {thread[t].to}
               /\ block'[thread[t].to] = thread[t].sealed
               /\ \A u \in DOMAIN block \ {thread[t].to} : block'[u] = block[u]
               /\ block' \in [DOMAIN block' -> Blocks]
            \/ UNCHANGED <<members, block>>
<1>1. thread[t].to \in Users /\ thread[t].todo \in SUBSET Users /\ thread[t].sealed \in Blocks
  <2>1. thread[t] \in Places
    BY DEF GKTypeOK
  <2>2. QED
    BY <2>1, PlaceIs DEF DeliverInvite
<1> DEFINE to == thread[t].to
           new == thread[t].sealed
<1>2. \/ /\ t[1] \in members
         /\ members' = members \cup {to}
         /\ block' = [u \in DOMAIN block \cup {to} |-> IF u = to THEN new ELSE block[u]]
      \/ UNCHANGED <<members, block>>
  BY DEF DeliverInvite, relayVars
<1> HIDE DEF to, new
<1>3. new \in Blocks /\ block \in [DOMAIN block -> Blocks]
  BY <1>1 DEF new, GKTypeOK
<1>4. ASSUME block' = [u \in DOMAIN block \cup {to} |-> IF u = to THEN new ELSE block[u]]
      PROVE  /\ DOMAIN block' = DOMAIN block \cup {to} /\ block'[to] = new
             /\ \A u \in DOMAIN block \ {to} : block'[u] = block[u]
             /\ block' \in [DOMAIN block' -> Blocks]
  BY <1>3, <1>4
<1>5. QED
  BY <1>1, <1>2, <1>4 DEF to, new

LEMMA TypesDelivered ==
  ASSUME GKTypeOK, NEW t \in Threads, DeliverInvite(t)
  PROVE  GKTypeOK'
<1>1. thread' \in [Threads -> Places]
  BY DeliveredIs, Goes, InviteIs DEF DeliverInvite, GKTypeOK
<1>2. done' \in [Kinds -> Nat]
  BY LostIs DEF DeliverInvite, GKTypeOK
<1>3. UNCHANGED <<key, applied, last, made, sealed, known, gone, calm>>
  BY DEF DeliverInvite, clientVars
<1>4. members' \subseteq Users /\ DOMAIN block' \subseteq members' /\ block' \in [DOMAIN block' -> Blocks]
  BY DeliveredIs DEF GKTypeOK
<1>5. QED
  BY <1>1, <1>2, <1>3, <1>4 DEF GKTypeOK

LEMMA TypesForgotten ==
  ASSUME GKTypeOK, NEW t \in Threads, ForgetGroup(t)
  PROVE  GKTypeOK'
<1> DEFINE u == t[1]
<1>1. u \in Users
  BY DEF Threads
<1>2. {} \in AtMostOne(Nat) /\ {} \in AtMostOne(Blocks) /\ {} \in AtMostOne(SUBSET Users)
  BY DEF AtMostOne
<1>3. /\ key' = [key EXCEPT ![u] = {}]
      /\ applied' = [applied EXCEPT ![u] = {}]
      /\ last' = [last EXCEPT ![u] = {}]
      /\ Go(t, Idle)
      /\ UNCHANGED <<members, block, made, sealed, done, known, gone, calm>>
  BY DEF ForgetGroup, relayVars, history
<1>4. thread' \in [Threads -> Places]
  <2>1. Idle \in Places
    BY DEF Places
  <2>2. QED
    BY <1>3, <2>1, Goes DEF GKTypeOK
<1> HIDE DEF u
<1>5. key' \in [Users -> AtMostOne(Nat)] /\ applied' \in [Users -> AtMostOne(Blocks)]
      /\ last' \in [Users -> AtMostOne(SUBSET Users)]
  BY <1>1, <1>2, <1>3 DEF GKTypeOK
<1>6. QED
  BY <1>3, <1>4, <1>5 DEF GKTypeOK

LEMMA TypesRequestLost ==
  ASSUME GKTypeOK, NEW t \in Threads, LoseRequest(t)
  PROVE  GKTypeOK'
<1>1. thread' \in [Threads -> Places]
  <2>1. Idle \in Places
    BY DEF Places
  <2>2. QED
    BY <2>1, Goes DEF LoseRequest, GKTypeOK
<1>2. done' \in [Kinds -> Nat]
  BY LostIs DEF LoseRequest, GKTypeOK
<1>3. UNCHANGED <<members, block, key, applied, last, made, sealed, known, gone, calm>>
  BY DEF LoseRequest, relayVars, clientVars
<1>4. QED
  BY <1>1, <1>2, <1>3 DEF GKTypeOK

\* What the relay has of the group after u has left or was kicked.
LEMMA RemovedIs ==
  ASSUME GKTypeOK, NEW u, RemoveMember(u)
  PROVE  /\ members' = members \ {u}
         /\ DOMAIN block' = DOMAIN block \ {u}
         /\ \A v \in DOMAIN block \ {u} : block'[v] = block[v]
         /\ block' \in [DOMAIN block' -> Blocks]
BY DEF RemoveMember, Restrict, GKTypeOK

\* A request of a user; it goes to a place and is counted.
Requested(u, kind, place) ==
  /\ \E bound : Ask(kind, bound)
  /\ thread[<<u, "req">>] = Idle
  /\ Go(<<u, "req">>, place)
  /\ UNCHANGED <<clientVars, made, sealed, known>>

LEMMA RequestsAre ==
  ASSUME GKTypeOK, NEW u \in Users, NEW v \in Users
  PROVE  /\ RequestInvite(u, v) =>
              /\ Requested(u, "invite", [at |-> "seal", todo |-> {v}])
              /\ UNCHANGED relayVars /\ gone' = gone \ {v} /\ key[u] # {}
         /\ RequestGroups(u) =>
              /\ Requested(u, "groups", [at |-> "groups", got |-> BlocksOf(u)])
              /\ UNCHANGED <<relayVars, gone>>
         /\ RequestKick(u, v) =>
              /\ Requested(u, "kick", [at |-> "relist"]) /\ u \in members
              /\ v \in members \ {u} /\ RemoveMember(v) /\ gone' = gone \cup {v}
         /\ RequestLeave(u) =>
              /\ Requested(u, "leave", [at |-> "left"])
              /\ u \in members /\ RemoveMember(u) /\ gone' = gone \cup {u}
<1>1. Invite({v}) = [at |-> "seal", todo |-> {v}]
  BY DEF Invite
<1>2. QED
  BY <1>1 DEF RequestInvite, RequestGroups, RequestKick, RequestLeave, Requested

LEMMA TypesRequested ==
  ASSUME GKTypeOK, NEW u \in Users, NEW v \in Users,
         RequestInvite(u, v) \/ RequestGroups(u) \/ RequestKick(u, v) \/ RequestLeave(u)
  PROVE  GKTypeOK'
<1>1. PICK kind \in Kinds, place \in Places : Requested(u, kind, place)
  <2>1. /\ [at |-> "seal", todo |-> {v}] \in Places /\ [at |-> "relist"] \in Places
        /\ [at |-> "left"] \in Places
    BY DEF Places
  <2>2. [at |-> "groups", got |-> BlocksOf(u)] \in Places
    BY AnswersOK DEF Places
  <2>3. "invite" \in Kinds /\ "groups" \in Kinds /\ "kick" \in Kinds /\ "leave" \in Kinds
    BY DEF Kinds
  <2>4. QED
    BY <2>1, <2>2, <2>3, RequestsAre
<1>2. PICK bound : Ask(kind, bound)
  BY <1>1 DEF Requested
<1>3. done' \in [Kinds -> Nat] /\ calm' \in BOOLEAN
  BY <1>2, AskIs DEF GKTypeOK
<1>4. thread' \in [Threads -> Places]
  BY <1>1, Goes, ThreadIs DEF Requested, GKTypeOK
<1>5. UNCHANGED <<key, applied, last, made, sealed, known>>
  BY <1>1 DEF Requested, clientVars
<1>6. gone' \subseteq Users
  BY RequestsAre DEF GKTypeOK
<1>7. members' \subseteq Users /\ DOMAIN block' \subseteq members' /\ block' \in [DOMAIN block' -> Blocks]
  <2>1. UNCHANGED <<members, block>> \/ \E w \in Users : RemoveMember(w)
    BY RequestsAre DEF relayVars
  <2>2. QED
    BY <2>1, RemovedIs DEF GKTypeOK
<1>8. QED
  BY <1>3, <1>4, <1>5, <1>6, <1>7 DEF GKTypeOK

LEMMA TypesInit == Init => GKTypeOK
<1> SUFFICES ASSUME Init PROVE GKTypeOK
  OBVIOUS
<1>1. {0} \in AtMostOne(Nat) /\ {} \in AtMostOne(Nat) /\ {} \in AtMostOne(Blocks)
      /\ {} \in AtMostOne(SUBSET Users) /\ {Founders} \in AtMostOne(SUBSET Users)
  BY NamesAssumption DEF AtMostOne
<1>2. Block(0, Creator, 0) \in Blocks
  BY NamesAssumption DEF Block, Blocks
<1>3. members \subseteq Users /\ DOMAIN block \subseteq members /\ block \in [DOMAIN block -> Blocks]
  BY <1>2, NamesAssumption DEF Init
<1>4. key \in [Users -> AtMostOne(Nat)] /\ known \in [Users -> SUBSET Nat]
  BY <1>1 DEF Init
<1>5. applied \in [Users -> AtMostOne(Blocks)]
  <2>1. \A u \in DOMAIN block : {block[u]} \in AtMostOne(Blocks)
    BY <1>3, OneOf
  <2>2. QED
    BY <1>1, <2>1 DEF Init
<1>6. last \in [Users -> AtMostOne(SUBSET Users)]
  BY <1>1 DEF Init
<1>7. thread \in [Threads -> Places]
  BY DEF Init, Places
<1>8. /\ made \in Nat /\ sealed \in Nat
      /\ done \in [Kinds -> Nat] /\ gone \subseteq Users /\ calm \in BOOLEAN
  BY DEF Init
<1>9. QED
  BY <1>3, <1>4, <1>5, <1>6, <1>7, <1>8 DEF GKTypeOK

LEMMA TypesStep ==
  ASSUME GKTypeOK, [Next]_vars
  PROVE  GKTypeOK'
<1>1. ASSUME NEW t \in Threads, Work(t) \/ LoseRequest(t) PROVE GKTypeOK'
  BY <1>1, TypesChecked, TypesApplied, TypesRead, TypesObserved, TypesNewKey, TypesSealed, TypesDelivered,
     TypesForgotten, TypesRequestLost DEF Work
<1>2. ASSUME NEW u \in Users, NEW v \in Users,
             \/ RequestInvite(u, v) \/ RequestKick(u, v)
             \/ RequestGroups(u) \/ RequestLeave(u)
      PROVE  GKTypeOK'
  BY <1>2, TypesRequested
<1>3. ASSUME NEW u \in Users, FetchGroups(u) PROVE GKTypeOK'
  <2>1. <<u, "poll">> \in Threads /\ <<u, "poll">>[1] = u /\ <<u, "poll">>[2] = "poll"
    BY ThreadIs
  <2>2. PICK t \in Threads : t[2] = "poll" /\ FetchGroups(t[1])
    BY <1>3, <2>1
  <2>3. QED
    BY <2>2, TypesRead
<1>4. CASE UNCHANGED vars
  BY <1>4 DEF vars, relayVars, clientVars, history, GKTypeOK
<1>5. QED
  BY <1>1, <1>2, <1>3, <1>4 DEF Next

\* Type correctness of the group at the relay and at its members.
THEOREM GroupTypes == Spec => []GKTypeOK
BY TypesInit, TypesStep, PTL DEF Spec

------------------------------------------------------------------------------
(* One key per departure *)

Poll(u) == thread[<<u, "poll">>]
LeavesOnly == done["kick"] = 0 /\ done["invite"] = 0
Lowest(u, S) == \A x \in S : u <= x
Rekeying(u) == Poll(u).at \in {"relist", "rekey", "seal", "deliver"}
Observes(u) == Poll(u).at = "members" /\ u \in Poll(u).got

\* With departures alone, whoever changes the key has the lowest name of all
\* members, as long as it is one, and invites nobody with a lower one.
LeastRekeys(u) ==
  /\ Rekeying(u) \/ (Observes(u) /\ Lowest(u, Poll(u).got)) => Lowest(u, members)
  /\ Poll(u).at = "rekey" => Lowest(u, Poll(u).got)
  /\ Poll(u).at \in {"seal", "deliver"} => Lowest(u, Poll(u).todo)
  /\ Poll(u).at = "deliver" => u <= Poll(u).to
  /\ thread[<<u, "req">>].at \in {"idle", "groups", "apply", "left"}

\* u was elected, or will be with the answer it has, and has not made its key yet.
Pending(u) ==
  \/ Poll(u).at = "relist"
  \/ Poll(u).at = "rekey" /\ u \in Poll(u).got
  \/ Observes(u) /\ Elected(u, Poll(u).got)

Electees == {u \in Users : Pending(u)}

\* Somebody is missing in the group since it was S.
Fewer(S) == members \subseteq S /\ members # S

\* u, if it has the lowest name, will be elected once it asks again.
Shrunk(u) ==
  \/ Poll(u).at = "rekey" /\ u \in Poll(u).got /\ Fewer(Poll(u).got)
  \/ /\ ~Pending(u)
     /\ \/ \E prev \in last[u] : Fewer(prev)
        \/ Observes(u) /\ Fewer(Poll(u).got)

\* The departures pay for the keys that were made, for those that will be, and for
\* the next election.
Budget ==
  /\ made + Cardinality(Electees) <= done["leave"]
  /\ \A u \in members : Lowest(u, members) /\ Shrunk(u) =>
       made + Cardinality(Electees) + 1 <= done["leave"]

LeaveInv == LeavesOnly => (\A u \in Users : LeastRekeys(u)) /\ Budget

\* A step of other threads than the poll loop of u, that makes nobody a member who
\* comes before u.
LEMMA LeastKept ==
  ASSUME NEW u \in Users, LeastRekeys(u), Poll(u)' = Poll(u),
         thread'[<<u, "req">>].at \in {"idle", "groups", "apply", "left"},
         \A x \in members' : x \in members \/ (Lowest(u, members) => u <= x)
  PROVE  LeastRekeys(u)'
<1>1. PICK p : p = Poll(u) /\ p = Poll(u)'
  OBVIOUS
<1>2. Lowest(u, members) => Lowest(u, members)'
  BY DEF Lowest
<1>3. /\ (p.at \in {"relist", "rekey", "seal", "deliver"}
            \/ (p.at = "members" /\ u \in p.got /\ Lowest(u, p.got))) => Lowest(u, members)
      /\ p.at = "rekey" => Lowest(u, p.got)
      /\ p.at \in {"seal", "deliver"} => Lowest(u, p.todo)
      /\ p.at = "deliver" => u <= p.to
  BY <1>1 DEF LeastRekeys, Rekeying, Observes
<1>4. QED
  BY <1>1, <1>2, <1>3 DEF LeastRekeys, Rekeying, Observes, Lowest

\* A step of the poll loop of u to place p.
LEMMA LeastMoves ==
  ASSUME NEW u \in Users, LeastRekeys(u), NEW p, Poll(u)' = p, members' = members,
         thread'[<<u, "req">>].at \in {"idle", "groups", "apply", "left"},
         p.at \in {"relist", "rekey", "seal", "deliver"} => Lowest(u, members),
         p.at \in {"members", "rekey"} => p.got \in {members, {}},
         p.at \in {"seal", "deliver"} => Lowest(u, p.todo),
         p.at = "deliver" => u <= p.to
  PROVE  LeastRekeys(u)'
BY DEF LeastRekeys, Rekeying, Observes, Lowest

LEMMA ElectedIs ==
  ASSUME NEW u, NEW got \in SUBSET Users, u \in got, Elected(u, got)
  PROVE  Lowest(u, got)
<1>1. got \subseteq Nat /\ got # {}
  BY NamesAssumption
<1>2. u = Min(got)
  BY DEF Elected
<1>3. QED
  BY <1>1, <1>2, MinIs DEF Lowest

\* Without invitations and kicks a request is one for the groups, or to leave.
LEMMA OtherRequests ==
  ASSUME GKTypeOK, LeavesOnly', NEW u \in Users, NEW v \in Users
  PROVE  ~RequestInvite(u, v) /\ ~RequestKick(u, v)
<1>1. ASSUME NEW kind \in {"invite", "kick"}, NEW bound, Ask(kind, bound) PROVE FALSE
  <2>1. done'[kind] = done[kind] + 1 /\ done[kind] \in Nat
    BY <1>1, AskIs DEF GKTypeOK, Kinds
  <2>2. QED
    BY <2>1 DEF LeavesOnly
<1>2. QED
  BY <1>1 DEF RequestInvite, RequestKick

\* The answer of the relay to who is in the group is right when it is given.
LEMMA ListedIs ==
  ASSUME NEW t \in Threads, NEW place, GKTypeOK, Read(t, place, MembersFor(t[1]))
  PROVE  \E got \in {members, {}} : Go(t, [at |-> place, got |-> got])
BY ReadIs DEF MembersFor

LEMMA LeastStep ==
  ASSUME GKTypeOK, LeavesOnly, LeavesOnly', \A u \in Users : LeastRekeys(u), [Next]_vars,
         NEW u \in Users
  PROVE  LeastRekeys(u)'
<1>0. /\ <<u, "poll">> \in Threads /\ <<u, "req">> \in Threads /\ <<u, "poll">> # <<u, "req">>
      /\ thread \in [Threads -> Places] /\ LeastRekeys(u) /\ members \subseteq Users
  BY ThreadIs DEF GKTypeOK
<1> DEFINE ReqOK == thread'[<<u, "req">>].at \in {"idle", "groups", "apply", "left"}
<1>1. ASSUME UNCHANGED <<thread, members>> PROVE LeastRekeys(u)'
  BY <1>0, <1>1 DEF LeastRekeys, Rekeying, Observes, Poll, Lowest
\* What t goes to, and who has become a member.
<1>2. ASSUME NEW t \in Threads, NEW p \in Places, Go(t, p), members' = members,
             t = <<u, "poll">> =>
               /\ p.at \in {"relist", "rekey", "seal", "deliver"} => Lowest(u, members)
               /\ p.at \in {"members", "rekey"} => p.got \in {members, {}}
               /\ p.at \in {"seal", "deliver"} => Lowest(u, p.todo)
               /\ p.at = "deliver" => u <= p.to,
             t = <<u, "req">> => p.at \in {"idle", "groups", "apply", "left"}
      PROVE  LeastRekeys(u)'
  <2>1. thread'[t] = p /\ \A s \in Threads : s # t => thread'[s] = thread[s]
    BY <1>0, <1>2, Goes
  <2>2. ReqOK
    BY <1>0, <1>2, <2>1 DEF LeastRekeys
  <2>3. CASE t = <<u, "poll">>
    BY <1>0, <1>2, <2>1, <2>2, <2>3, LeastMoves DEF Poll
  <2>4. CASE t # <<u, "poll">>
    BY <1>0, <1>2, <2>1, <2>2, <2>4, LeastKept DEF Poll
  <2>5. QED
    BY <2>3, <2>4
<1>3. ASSUME NEW t \in Threads PROVE t[1] \in Users /\ (t = <<t[1], "poll">> \/ t = <<t[1], "req">>)
  BY DEF Threads
\* Only poll loops change keys.
<1>4. ASSUME NEW t \in Threads, thread[t].at \in {"check", "members", "relist", "rekey", "seal", "deliver"}
      PROVE  t = <<t[1], "poll">> /\ t[1] \in Users /\ LeastRekeys(t[1]) /\ thread[t] = Poll(t[1])
             /\ thread[t] \in Places
  BY <1>0, <1>3, <1>4 DEF LeastRekeys, Poll
<1>5. ASSUME NEW t \in Threads, CheckBlock(t) \/ ApplyBlock(t) PROVE LeastRekeys(u)'
  <2>1. [at |-> "check"] \in Places /\ Idle \in Places /\ Idle.at = "idle"
    BY DEF Places, Idle
  <2>2. PICK p \in Places : Go(t, p) /\ members' = members /\ p.at \in {"check", "idle", "apply"}
                           /\ (t[2] = "req" => p.at \in {"idle", "apply"})
    <3>1. members' = members
      BY <1>5 DEF CheckBlock, ApplyBlock, relayVars
    <3>2. CASE CheckBlock(t)
      BY <1>3, <2>1, <3>1, <3>2, CheckIs
    <3>3. CASE ApplyBlock(t)
      BY <1>3, <2>1, <3>1, <3>3, AppliedIs
    <3>4. QED
      BY <1>5, <3>2, <3>3
  <2>3. QED
    BY <1>2, <2>2
<1>6. ASSUME NEW t \in Threads, ListToCheck(t) \/ ListToRekey(t) PROVE LeastRekeys(u)'
  <2>1. members' = members
    BY <1>6 DEF ListToCheck, ListToRekey, relayVars
  <2>2. CASE ListToCheck(t)
    <3>1. PICK got \in {members, {}} : Go(t, [at |-> "members", got |-> got])
      BY <2>2, ListedIs DEF ListToCheck
    <3>2. [at |-> "members", got |-> got] \in Places
      BY <1>0 DEF Places
    <3>3. t # <<u, "req">>
      BY <1>0, <2>2 DEF ListToCheck, LeastRekeys
    <3>4. QED
      BY <1>2, <2>1, <3>1, <3>2, <3>3
  <2>3. CASE ListToRekey(t)
    <3>1. PICK got \in {members, {}} : Go(t, [at |-> "rekey", got |-> got])
      BY <2>3, ListedIs DEF ListToRekey
    <3>2. [at |-> "rekey", got |-> got] \in Places
      BY <1>0 DEF Places
    <3>3. t # <<u, "req">>
      BY <1>0, <2>3 DEF ListToRekey, LeastRekeys
    <3>4. t = <<u, "poll">> => Lowest(u, members)
      BY <1>0, <2>3 DEF ListToRekey, LeastRekeys, Rekeying, Poll
    <3>5. QED
      BY <1>2, <2>1, <3>1, <3>2, <3>3, <3>4
  <2>4. QED
    BY <1>6, <2>2, <2>3
<1>7. ASSUME NEW t \in Threads, ObserveMembers(t) PROVE LeastRekeys(u)'
  <2>1. thread[t].at = "members" /\ thread[t] \in Places /\ thread[t].got \in SUBSET Users
    BY <1>0, <1>7, PlaceIs DEF ObserveMembers
  <2>2. t = <<t[1], "poll">> /\ t[1] \in Users /\ LeastRekeys(t[1]) /\ thread[t] = Poll(t[1])
    BY <1>4, <2>1
  <2>3. PICK p \in Places : /\ Go(t, p) /\ members' = members /\ p.at \in {"idle", "relist"}
                           /\ (p.at = "relist" => t[1] \in thread[t].got /\ Elected(t[1], thread[t].got))
    BY <1>7 DEF ObserveMembers, Places, relayVars, Idle
  <2>4. p.at = "relist" => Lowest(t[1], thread[t].got)
    BY <2>1, <2>2, <2>3, ElectedIs
  <2>5. p.at = "relist" => Lowest(t[1], members)
    BY <2>1, <2>2, <2>3, <2>4 DEF LeastRekeys, Observes
  <2>6. t # <<u, "req">> /\ (t = <<u, "poll">> => t[1] = u)
    BY <2>2
  <2>7. QED
    BY <1>2, <2>3, <2>5, <2>6
<1>8. ASSUME NEW t \in Threads, NewKey(t) PROVE LeastRekeys(u)'
  <2>1. thread[t].at = "rekey" /\ thread[t] \in Places /\ thread[t].got \in SUBSET Users
    BY <1>0, <1>8, PlaceIs DEF NewKey
  <2>2. t = <<t[1], "poll">> /\ t[1] \in Users /\ LeastRekeys(t[1]) /\ thread[t] = Poll(t[1])
    BY <1>4, <2>1
  <2>3. Lowest(t[1], members) /\ Lowest(t[1], thread[t].got)
    BY <2>1, <2>2 DEF LeastRekeys, Rekeying
  <2>4. members' = members /\ (Go(t, Idle) \/ Go(t, Invite(thread[t].got \ {t[1]})))
    BY <1>8 DEF NewKey, relayVars
  <2>5. PICK p \in Places : /\ Go(t, p) /\ p.at \in {"idle", "seal"}
                           /\ (p.at = "seal" => p.todo \subseteq thread[t].got)
    <3>1. Idle \in Places /\ Idle.at = "idle"
      BY DEF Places, Idle
    <3>2. Invite(thread[t].got \ {t[1]}) \in Places
      BY <2>1, InviteIs
    <3>3. Invite(thread[t].got \ {t[1]}).at \in {"idle", "seal"}
          /\ (Invite(thread[t].got \ {t[1]}).at = "seal" =>
                Invite(thread[t].got \ {t[1]}).todo \subseteq thread[t].got)
      BY DEF Invite, Idle
    <3>4. QED
      BY <2>4, <3>1, <3>2, <3>3
  <2>6. p.at = "seal" => Lowest(t[1], p.todo)
    BY <2>3, <2>5 DEF Lowest
  <2>7. t # <<u, "req">> /\ (t = <<u, "poll">> => t[1] = u)
    BY <2>2
  <2>8. QED
    BY <1>2, <2>3, <2>4, <2>5, <2>6, <2>7
<1>9. ASSUME NEW t \in Threads, SealKey(t) PROVE LeastRekeys(u)'
  <2>1. thread[t].at = "seal" /\ thread[t] \in Places /\ thread[t].todo \in (SUBSET Users) \ {{}}
    BY <1>0, <1>9, PlaceIs DEF SealKey
  <2>2. t = <<t[1], "poll">> /\ t[1] \in Users /\ LeastRekeys(t[1]) /\ thread[t] = Poll(t[1])
    BY <1>4, <2>1
  <2>3. Lowest(t[1], members) /\ Lowest(t[1], thread[t].todo)
    BY <2>1, <2>2 DEF LeastRekeys, Rekeying
  <2>4. PICK todo, to : todo = thread[t].todo /\ to = Min(todo)
    OBVIOUS
  <2>5. to \in todo /\ to \in Users /\ t[1] <= to /\ Lowest(t[1], todo \ {to}) /\ todo \ {to} \in SUBSET Users
    BY <2>1, <2>3, <2>4, MinIs, NamesAssumption DEF Lowest
  <2>6. \/ Go(t, Invite(todo \ {to}))
        \/ \E block0 : Go(t, [at |-> "deliver", to |-> to, todo |-> todo \ {to}, sealed |-> block0])
    BY <1>9, <2>4 DEF SealKey
  <2>7. CASE Go(t, Invite(todo \ {to}))
    <3>1. PICK p : p = Invite(todo \ {to})
      OBVIOUS
    <3>2. p \in Places /\ p.at \in {"idle", "seal"} /\ (p.at = "seal" => p.todo = todo \ {to})
      BY <2>5, <3>1, InviteIs DEF Invite, Idle
    <3>3. Go(t, p) /\ members' = members /\ t # <<u, "req">> /\ (t = <<u, "poll">> => t[1] = u)
      BY <1>9, <2>2, <2>7, <3>1 DEF SealKey, relayVars
    <3>4. QED
      BY <1>2, <2>3, <2>5, <3>2, <3>3
  <2>8. ASSUME NEW new, Go(t, [at |-> "deliver", to |-> to, todo |-> todo \ {to}, sealed |-> new])
        PROVE  LeastRekeys(u)'
    <3>1. PICK p : p = [at |-> "deliver", to |-> to, todo |-> todo \ {to}, sealed |-> new]
      OBVIOUS
    <3>2. p.at = "deliver" /\ p.to = to /\ p.todo = todo \ {to}
      BY <3>1
    <3>3. Go(t, p) /\ members' = members /\ t # <<u, "req">> /\ (t = <<u, "poll">> => t[1] = u)
      BY <1>9, <2>2, <2>8, <3>1 DEF SealKey, relayVars
    <3>4. thread' = [thread EXCEPT ![t] = p]
      BY <3>3 DEF Go
    <3>5. thread'[t] = p /\ \A s \in Threads : s # t => thread'[s] = thread[s]
      BY <1>0, <3>4
    <3>6. thread'[<<u, "req">>].at \in {"idle", "groups", "apply", "left"}
      BY <1>0, <3>3, <3>5 DEF LeastRekeys
    <3>7. CASE t = <<u, "poll">>
      BY <1>0, <2>3, <2>5, <3>2, <3>3, <3>5, <3>6, <3>7, LeastMoves DEF Poll
    <3>8. CASE t # <<u, "poll">>
      BY <1>0, <3>3, <3>5, <3>6, <3>8, LeastKept DEF Poll
    <3>9. QED
      BY <3>7, <3>8
  <2>9. QED
    BY <2>6, <2>7, <2>8
<1>10. ASSUME NEW t \in Threads, DeliverInvite(t) PROVE LeastRekeys(u)'
  <2>1. thread[t].at = "deliver" /\ thread[t] \in Places
    BY <1>0, <1>10 DEF DeliverInvite
  <2>2. t = <<t[1], "poll">> /\ t[1] \in Users /\ LeastRekeys(t[1]) /\ thread[t] = Poll(t[1])
    BY <1>4, <2>1
  <2>3. /\ Lowest(t[1], members) /\ Lowest(t[1], thread[t].todo) /\ t[1] <= thread[t].to
        /\ thread[t].to \in Users /\ thread[t].todo \in SUBSET Users
    BY <1>10, <2>1, <2>2, DeliveredIs DEF LeastRekeys, Rekeying
  <2>4. members' = members \/ (t[1] \in members /\ members' = members \cup {thread[t].to})
    BY <1>10, DeliveredIs
  <2>5. \A w \in members' : w \in members \/ (Lowest(u, members) => u <= w)
    BY <2>2, <2>3, <2>4, NamesAssumption DEF Lowest
  <2>6. PICK p : p = Invite(thread[t].todo)
    OBVIOUS
  <2>7. p \in Places /\ p.at \in {"idle", "seal"} /\ (p.at = "seal" => p.todo = thread[t].todo)
    BY <2>3, <2>6, InviteIs DEF Invite, Idle
  <2>8. thread'[t] = p /\ \A s \in Threads : s # t => thread'[s] = thread[s]
    BY <1>0, <1>10, <2>6, <2>7, Goes DEF DeliverInvite
  <2>9. ReqOK
    BY <1>0, <2>2, <2>8 DEF LeastRekeys
  <2>10. CASE t # <<u, "poll">>
    BY <1>0, <2>5, <2>8, <2>9, <2>10, LeastKept DEF Poll
  <2>11. CASE t = <<u, "poll">>
    <3>1. t[1] = u /\ Poll(u)' = p
      BY <2>8, <2>11 DEF Poll
    <3>2. Lowest(u, members)'
      BY <2>3, <2>5, <3>1 DEF Lowest
    <3>3. p.at = "seal" => Lowest(u, p.todo)
      BY <2>3, <2>7, <3>1
    <3>4. QED
      BY <2>7, <2>9, <3>1, <3>2, <3>3 DEF LeastRekeys, Rekeying, Observes, Lowest
  <2>12. QED
    BY <2>10, <2>11
<1>11. ASSUME NEW t \in Threads, ForgetGroup(t) \/ LoseRequest(t) PROVE LeastRekeys(u)'
  <2>1. Go(t, Idle) /\ members' = members /\ Idle \in Places /\ Idle.at = "idle"
    BY <1>11 DEF ForgetGroup, LoseRequest, relayVars, Places, Idle
  <2>2. QED
    BY <1>2, <2>1
<1>12. ASSUME NEW w \in Users, RequestGroups(w) PROVE LeastRekeys(u)'
  <2>1. PICK t, p : t = <<w, "req">> /\ p = [at |-> "groups", got |-> BlocksOf(w)]
    OBVIOUS
  <2>2. Go(t, p) /\ members' = members /\ p.at = "groups"
    BY <1>12, <2>1 DEF RequestGroups, relayVars
  <2>3. p \in Places /\ t \in Threads /\ t # <<u, "poll">>
    BY <2>1, AnswersOK, ThreadIs DEF Places
  <2>4. QED
    BY <1>2, <2>2, <2>3
<1>13. ASSUME NEW w \in Users, RequestLeave(w) PROVE LeastRekeys(u)'
  <2>1. PICK t, p : t = <<w, "req">> /\ p = [at |-> "left"]
    OBVIOUS
  <2>2. Go(t, p) /\ members' \subseteq members /\ p.at = "left"
    BY <1>13, <2>1 DEF RequestLeave, RemoveMember
  <2>3. p \in Places /\ t \in Threads /\ t # <<u, "poll">>
    BY <2>1, ThreadIs DEF Places
  <2>4. thread'[t] = p /\ \A s \in Threads : s # t => thread'[s] = thread[s]
    BY <1>0, <2>2, <2>3, Goes
  <2>5. QED
    BY <1>0, <2>2, <2>3, <2>4, LeastKept DEF Poll, LeastRekeys
<1>14. ASSUME NEW w \in Users, FetchGroups(w) PROVE LeastRekeys(u)'
  <2>1. PICK t : t = <<w, "poll">>
    OBVIOUS
  <2>2. t \in Threads /\ t # <<u, "req">> /\ members' = members
    BY <1>14, <2>1, ThreadIs DEF FetchGroups, relayVars
  <2>3. PICK got \in {BlocksOf(w), {}} : Go(t, [at |-> "groups", got |-> got])
    BY <1>14, <2>1, <2>2, ReadIs DEF FetchGroups
  <2>4. [at |-> "groups", got |-> got] \in Places
    BY AnswersOK DEF Places
  <2>5. QED
    BY <1>2, <2>2, <2>3, <2>4
<1>15. CASE UNCHANGED vars
  BY <1>1, <1>15 DEF vars, relayVars
<1>16. QED
  BY <1>5, <1>6, <1>7, <1>8, <1>9, <1>10, <1>11, <1>12, <1>13, <1>14, <1>15, OtherRequests
  DEF Next, Work

LEMMA ElecteesFinite ==
  ASSUME NEW E \in SUBSET Users
  PROVE  IsFiniteSet(E) /\ Cardinality(E) \in Nat
BY FS_Subset, FS_CardinalityType, NamesAssumption

\* A step that elects nobody and makes no key: whoever will be elected now would
\* have been before, or was on the way to a key that it does not make.
LEMMA NobodyElected ==
  ASSUME GKTypeOK, GKTypeOK', Budget, made' = made, done'["leave"] = done["leave"],
         \A u \in Users : Pending(u)' => Pending(u),
         \A u \in Users : Shrunk(u)' => Shrunk(u) \/ (Pending(u) /\ ~Pending(u)'),
         \A u \in members' : Lowest(u, members)' => u \in members /\ Lowest(u, members)
  PROVE  Budget'
<1>1. PICK E, F : E = Electees /\ F = Electees'
  OBVIOUS
<1>2. F \subseteq E /\ E \subseteq Users
  BY <1>1 DEF Electees
<1>3. /\ IsFiniteSet(E) /\ Cardinality(E) \in Nat /\ Cardinality(F) \in Nat
      /\ Cardinality(F) <= Cardinality(E)
  BY <1>2, ElecteesFinite, FS_Subset
<1>4. /\ made \in Nat /\ done["leave"] \in Nat /\ members' \subseteq Users
  BY DEF GKTypeOK, Kinds
<1>5. made + Cardinality(E) <= done["leave"]
  BY <1>1 DEF Budget
<1>6. made' + Cardinality(F) <= done'["leave"]
  BY <1>3, <1>4, <1>5
<1>7. ASSUME NEW u \in members', Lowest(u, members)', Shrunk(u)'
      PROVE  made' + Cardinality(F) + 1 <= done'["leave"]
  <2>1. u \in Users /\ u \in members /\ Lowest(u, members)
    BY <1>4, <1>7
  <2>2. CASE Shrunk(u)
    <3>1. made + Cardinality(E) + 1 <= done["leave"]
      BY <1>1, <2>1, <2>2 DEF Budget
    <3>2. QED
      BY <1>3, <1>4, <3>1
  <2>3. CASE Pending(u) /\ ~Pending(u)'
    <3>1. u \in E /\ F \subseteq E \ {u}
      BY <1>1, <1>2, <2>1, <2>3 DEF Electees
    <3>2. IsFiniteSet(E \ {u}) /\ Cardinality(E \ {u}) = Cardinality(E) - 1
      BY <1>3, <3>1, FS_RemoveElement
    <3>3. Cardinality(F) <= Cardinality(E) - 1
      BY <3>1, <3>2, FS_Subset
    <3>4. QED
      BY <1>3, <1>4, <1>5, <3>3
  <2>4. QED
    BY <1>7, <2>1, <2>2, <2>3
<1>8. QED
  BY <1>1, <1>6, <1>7 DEF Budget

\* The one with the lowest name is elected: the next election was paid for.
LEMMA LowestElected ==
  ASSUME GKTypeOK, GKTypeOK', Budget, made' = made, done'["leave"] = done["leave"],
         members' = members, NEW w \in members, Lowest(w, members), Shrunk(w),
         \A u \in Users \ {w} : Pending(u)' => Pending(u),
         ~Shrunk(w)'
  PROVE  Budget'
<1>1. PICK E, F : E = Electees /\ F = Electees'
  OBVIOUS
<1>2. F \subseteq E \cup {w} /\ E \subseteq Users
  BY <1>1 DEF Electees
<1>3. /\ IsFiniteSet(E \cup {w}) /\ Cardinality(E) \in Nat /\ Cardinality(F) \in Nat
      /\ Cardinality(E \cup {w}) <= Cardinality(E) + 1
      /\ Cardinality(F) <= Cardinality(E \cup {w})
  <2>1. F \subseteq Users
    BY <1>1 DEF Electees
  <2>2. IsFiniteSet(E) /\ Cardinality(E) \in Nat /\ Cardinality(F) \in Nat
    BY <1>2, <2>1, ElecteesFinite
  <2>3. IsFiniteSet(E \cup {w}) /\ Cardinality(E \cup {w}) <= Cardinality(E) + 1
    <3>1. /\ IsFiniteSet(E \cup {w})
          /\ Cardinality(E \cup {w}) = IF w \in E THEN Cardinality(E) ELSE Cardinality(E) + 1
      BY <2>2, FS_AddElement
    <3>2. QED
      BY <2>2, <3>1
  <2>4. QED
    BY <1>2, <2>2, <2>3, FS_Subset
<1>4. made \in Nat /\ done["leave"] \in Nat /\ members \subseteq Nat /\ Cardinality(E \cup {w}) \in Nat
  BY <1>3, FS_CardinalityType, NamesAssumption DEF GKTypeOK, Kinds
<1>5. made + Cardinality(E) + 1 <= done["leave"]
  BY <1>1 DEF Budget
<1>6. made' + Cardinality(F) <= done'["leave"]
  BY <1>3, <1>4, <1>5
<1>7. ASSUME NEW u \in members, Lowest(u, members), Shrunk(u)' PROVE FALSE
  <2>1. u <= w /\ w <= u
    BY <1>7 DEF Lowest
  <2>2. u = w
    BY <1>4, <2>1
  <2>3. QED
    BY <1>7, <2>2
<1>8. QED
  BY <1>1, <1>6, <1>7 DEF Budget, Lowest

\* A key is made by one that was elected.
LEMMA ElectedMakes ==
  ASSUME GKTypeOK, GKTypeOK', Budget, made' = made + 1, done'["leave"] = done["leave"],
         members' = members, NEW w \in Users, Pending(w), ~Pending(w)',
         \A u \in Users : Pending(u)' => Pending(u),
         \A u \in Users : Shrunk(u)' => Shrunk(u)
  PROVE  Budget'
<1>1. PICK E, F : E = Electees /\ F = Electees'
  OBVIOUS
<1>2. w \in E /\ F \subseteq E \ {w} /\ E \subseteq Users
  BY <1>1 DEF Electees
<1>3. /\ Cardinality(E) \in Nat /\ Cardinality(F) \in Nat
      /\ Cardinality(F) <= Cardinality(E) - 1
  <2>1. F \subseteq Users
    BY <1>2
  <2>2. IsFiniteSet(E) /\ Cardinality(E) \in Nat /\ Cardinality(F) \in Nat
    BY <1>2, <2>1, ElecteesFinite
  <2>3. IsFiniteSet(E \ {w}) /\ Cardinality(E \ {w}) = Cardinality(E) - 1
    BY <1>2, <2>2, FS_RemoveElement
  <2>4. Cardinality(F) <= Cardinality(E \ {w})
    BY <1>2, <2>3, FS_Subset
  <2>5. QED
    BY <2>2, <2>3, <2>4
<1>4. made \in Nat /\ done["leave"] \in Nat /\ members \subseteq Users
  BY DEF GKTypeOK, Kinds
<1>5. made + Cardinality(E) <= done["leave"]
  BY <1>1 DEF Budget
<1>6. made' + Cardinality(F) <= done'["leave"]
  BY <1>3, <1>4, <1>5
<1>7. ASSUME NEW u \in members, Lowest(u, members), Shrunk(u)'
      PROVE  made' + Cardinality(F) + 1 <= done'["leave"]
  <2>1. made + Cardinality(E) + 1 <= done["leave"]
    BY <1>1, <1>4, <1>7 DEF Budget
  <2>2. QED
    BY <1>3, <1>4, <2>1
<1>8. QED
  BY <1>1, <1>6, <1>7 DEF Budget, Lowest

\* A departure pays for the next election.
LEMMA DeparturePays ==
  ASSUME GKTypeOK, GKTypeOK', Budget, made' = made, done'["leave"] = done["leave"] + 1,
         \A u \in Users : Pending(u)' => Pending(u)
  PROVE  Budget'
<1>1. PICK E, F : E = Electees /\ F = Electees'
  OBVIOUS
<1>2. F \subseteq E /\ E \subseteq Users
  BY <1>1 DEF Electees
<1>3. /\ Cardinality(E) \in Nat /\ Cardinality(F) \in Nat
      /\ Cardinality(F) <= Cardinality(E)
  BY <1>2, ElecteesFinite, FS_Subset
<1>4. made \in Nat /\ done["leave"] \in Nat
  BY DEF GKTypeOK, Kinds
<1>5. made + Cardinality(E) <= done["leave"]
  BY <1>1 DEF Budget
<1>6. made' + Cardinality(F) + 1 <= done'["leave"] /\ made' + Cardinality(F) <= done'["leave"]
  BY <1>3, <1>4, <1>5
<1>7. QED
  BY <1>1, <1>6 DEF Budget

\* A user whose poll loop does not move, and that loses no list of members.
LEMMA NotMoved ==
  ASSUME NEW u, Poll(u)' = Poll(u), last'[u] = last[u]
  PROVE  /\ Pending(u)' <=> Pending(u)
         /\ members \subseteq members' => (Shrunk(u)' => Shrunk(u))
<1>1. Pending(u)' <=> Pending(u)
  BY DEF Pending, Observes, Elected
<1>2. ASSUME members \subseteq members' PROVE \A S : Fewer(S)' => Fewer(S)
  BY <1>2 DEF Fewer
<1>3. ASSUME members \subseteq members', Shrunk(u)' PROVE Shrunk(u)
  BY <1>1, <1>2, <1>3 DEF Shrunk, Observes
<1>4. QED
  BY <1>1, <1>3

LEMMA BudgetStep ==
  ASSUME GKTypeOK, GKTypeOK', LeavesOnly, LeavesOnly', \A u \in Users : LeastRekeys(u), Budget,
         [Next]_vars
  PROVE  Budget'
<1>0. /\ thread \in [Threads -> Places] /\ members \subseteq Users
      /\ last \in [Users -> AtMostOne(SUBSET Users)] /\ done \in [Kinds -> Nat] /\ calm \in BOOLEAN
  BY DEF GKTypeOK
<1>1. CASE UNCHANGED vars
  <2>1. UNCHANGED <<members, last, thread, made, done>>
    BY <1>1 DEF vars, relayVars, clientVars, history
  <2>2. Electees' = Electees
    BY <2>1 DEF Electees, Pending, Poll, Observes, Elected
  <2>3. \A u \in Users : Shrunk(u)' => Shrunk(u)
    BY <2>1, NotMoved DEF Poll
  <2>4. QED
    BY <2>1, <2>2, <2>3, NobodyElected DEF Electees, Lowest
\* A step of poll loop w, or of a request, that only makes others members.
<1>2. ASSUME NEW w \in Users, made' = made, done'["leave"] = done["leave"],
             members \subseteq members',
             \A u \in Users \ {w} : Poll(u)' = Poll(u) /\ last'[u] = last[u],
             Pending(w)' => Pending(w),
             Shrunk(w)' => Shrunk(w) \/ (Pending(w) /\ ~Pending(w)'),
             \A u \in members' : Lowest(u, members)' => u \in members /\ Lowest(u, members)
      PROVE  Budget'
  <2>1. \A u \in Users : Pending(u)' => Pending(u)
    BY <1>2, NotMoved
  <2>2. \A u \in Users : Shrunk(u)' => Shrunk(u) \/ (Pending(u) /\ ~Pending(u)')
    BY <1>2, NotMoved
  <2>3. QED
    BY <1>2, <2>1, <2>2, NobodyElected
\* A thread other than a poll loop at a place that matters here.
<1>3. ASSUME NEW w \in Users, made' = made, done'["leave"] = done["leave"], members' = members,
             \A u \in Users \ {w} : Poll(u)' = Poll(u) /\ last'[u] = last[u],
             last'[w] \subseteq last[w],
             Poll(w).at \notin {"relist", "rekey", "members"},
             Poll(w)'.at \notin {"relist", "rekey", "members"}
      PROVE  Budget'
  <2>1. PICK p, q : p = Poll(w) /\ q = Poll(w)'
    OBVIOUS
  <2>2. p.at \notin {"relist", "rekey", "members"} /\ q.at \notin {"relist", "rekey", "members"}
    BY <1>3, <2>1
  <2>3. ~Pending(w) /\ ~Pending(w)'
    BY <2>1, <2>2 DEF Pending, Observes
  <2>4. \A S : Fewer(S)' => Fewer(S)
    BY <1>3 DEF Fewer
  <2>5. Shrunk(w)' => Shrunk(w)
    BY <1>3, <2>1, <2>2, <2>3, <2>4 DEF Shrunk, Observes
  <2>6. \A u \in members' : Lowest(u, members)' => u \in members /\ Lowest(u, members)
    BY <1>3 DEF Lowest
  <2>7. QED
    BY <1>2, <1>3, <2>3, <2>5, <2>6
\* What poll loops do not move.
<1>4. ASSUME NEW t \in Threads, NEW p \in Places, Go(t, p)
      PROVE  /\ t[1] \in Users /\ (t = <<t[1], "poll">> \/ t = <<t[1], "req">>)
             /\ \A u \in Users \ {t[1]} : Poll(u)' = Poll(u)
             /\ t = <<t[1], "poll">> => thread[t] = Poll(t[1]) /\ Poll(t[1])' = p
             /\ t = <<t[1], "req">> => Poll(t[1])' = Poll(t[1])
             /\ t = <<t[1], "req">> => thread[t].at \in {"idle", "groups", "apply", "left"}
  <2>1. thread'[t] = p /\ \A s \in Threads : s # t => thread'[s] = thread[s]
    BY <1>0, <1>4, Goes
  <2>2. t[1] \in Users /\ (t = <<t[1], "poll">> \/ t = <<t[1], "req">>)
    BY DEF Threads
  <2>3. \A u \in Users : <<u, "poll">> \in Threads /\ <<u, "req">> \in Threads
                          /\ <<u, "poll">> # <<u, "req">>
    BY DEF Threads
  <2>4. \A u \in Users \ {t[1]} : <<u, "poll">> # t
    BY <2>2
  <2>5. t = <<t[1], "req">> => thread[t].at \in {"idle", "groups", "apply", "left"}
    BY <2>2 DEF LeastRekeys
  <2>6. QED
    BY <2>1, <2>2, <2>3, <2>4, <2>5 DEF Poll
<1>5. ASSUME NEW t \in Threads, NEW p \in Places, Go(t, p), made' = made,
             done'["leave"] = done["leave"], UNCHANGED <<members, last>>,
             thread[t].at \notin {"relist", "rekey", "members"} \/ t[2] = "req",
             p.at \notin {"relist", "rekey", "members"} \/ t[2] = "req"
      PROVE  Budget'
  <2>1. CASE t = <<t[1], "req">>
    <3>1. \A u \in Users : Poll(u)' = Poll(u)
      BY <1>4, <1>5, <2>1
    <3>2. \A u \in Users : (Pending(u)' => Pending(u)) /\ (Shrunk(u)' => Shrunk(u))
      BY <1>5, <3>1, NotMoved
    <3>3. QED
      BY <1>5, <3>2, NobodyElected DEF Lowest
  <2>2. CASE t = <<t[1], "poll">>
    <3>1. t[2] = "poll"
      BY <2>2
    <3>2. QED
      BY <1>3, <1>4, <1>5, <2>2, <3>1
  <2>3. QED
    BY <1>4, <1>5, <2>1, <2>2
<1>6. ASSUME NEW t \in Threads, CheckBlock(t) \/ ApplyBlock(t) PROVE Budget'
  <2>1. [at |-> "check"] \in Places /\ Idle \in Places /\ Idle.at = "idle"
    BY DEF Places, Idle
  <2>2. PICK p \in Places : Go(t, p) /\ p.at \in {"check", "idle", "apply"}
                           /\ thread[t].at \in {"groups", "apply"}
    <3>1. CASE CheckBlock(t)
      BY <2>1, <3>1, CheckIs
    <3>2. CASE ApplyBlock(t)
      BY <2>1, <3>2, AppliedIs
    <3>3. QED
      BY <1>6, <3>1, <3>2
  <2>3. UNCHANGED <<members, last, made, done>>
    BY <1>6 DEF CheckBlock, ApplyBlock, relayVars, clientVars, history
  <2>4. QED
    BY <1>5, <2>2, <2>3
<1>7. ASSUME NEW t \in Threads, SealKey(t) PROVE Budget'
  <2>1. /\ UNCHANGED <<members, last, made, done>> /\ thread[t].at = "seal"
    BY <1>7 DEF SealKey, relayVars, clientVars
  <2>2. thread[t].todo \in (SUBSET Users) \ {{}}
    BY <1>0, <2>1, PlaceIs
  <2>3. PICK todo, to : todo = thread[t].todo /\ to = Min(todo)
    OBVIOUS
  <2>4. to \in Users /\ todo \ {to} \in SUBSET Users
    BY <2>2, <2>3, MinIs, NamesAssumption
  <2>5. \/ Go(t, Invite(todo \ {to}))
        \/ \E k \in key[t[1]] :
             Go(t, [at |-> "deliver", to |-> to, todo |-> todo \ {to}, sealed |-> Block(k, t[1], sealed + 1)])
    BY <1>7, <2>3 DEF SealKey
  <2>6. CASE Go(t, Invite(todo \ {to}))
    <3>1. PICK p : p = Invite(todo \ {to})
      OBVIOUS
    <3>2. p \in Places /\ p.at \in {"idle", "seal"}
      BY <2>4, <3>1, InviteIs DEF Invite, Idle
    <3>3. QED
      BY <1>5, <2>1, <2>6, <3>1, <3>2
  <2>7. ASSUME NEW k \in key[t[1]],
               Go(t, [at |-> "deliver", to |-> to, todo |-> todo \ {to}, sealed |-> Block(k, t[1], sealed + 1)])
        PROVE  Budget'
    <3>1. PICK p : p = [at |-> "deliver", to |-> to, todo |-> todo \ {to},
                        sealed |-> Block(k, t[1], sealed + 1)]
      OBVIOUS
    <3>2. t[1] \in Users /\ k \in Nat /\ sealed + 1 \in Nat
      BY <2>7 DEF GKTypeOK, Threads, AtMostOne
    <3>3. Block(k, t[1], sealed + 1) \in Blocks
      BY <3>2 DEF Block, Blocks
    <3>4. p \in Places /\ p.at = "deliver"
      BY <2>4, <3>1, <3>3 DEF Places
    <3>5. QED
      BY <1>5, <2>1, <2>7, <3>1, <3>4
  <2>8. QED
    BY <2>5, <2>6, <2>7
<1>8. ASSUME NEW w \in Users, FetchGroups(w) PROVE Budget'
  <2>1. PICK t : t = <<w, "poll">>
    OBVIOUS
  <2>2. /\ t \in Threads /\ UNCHANGED <<members, last, made>> /\ thread[t] = Idle
    BY <1>8, <2>1, ThreadIs DEF FetchGroups, relayVars, clientVars
  <2>3. PICK got \in {BlocksOf(w), {}} : Go(t, [at |-> "groups", got |-> got])
    BY <1>8, <2>1, <2>2, ReadIs DEF FetchGroups
  <2>4. [at |-> "groups", got |-> got] \in Places
    BY AnswersOK DEF Places
  <2>5. done'["leave"] = done["leave"]
    BY <1>0, <1>8, LostIs DEF FetchGroups, Read, Kinds
  <2>6. QED
    BY <1>5, <2>2, <2>3, <2>4, <2>5 DEF Idle
<1>9. ASSUME NEW w \in Users, RequestGroups(w) PROVE Budget'
  <2>1. PICK t, p : t = <<w, "req">> /\ p = [at |-> "groups", got |-> BlocksOf(w)]
    OBVIOUS
  <2>2. t \in Threads /\ p \in Places /\ t[2] = "req"
    BY <2>1, AnswersOK, ThreadIs DEF Places
  <2>3. Go(t, p) /\ UNCHANGED <<members, last, made>>
    BY <1>9, <2>1 DEF RequestGroups, relayVars, clientVars
  <2>4. done'["leave"] = done["leave"]
    BY <1>0, <1>9, AskIs DEF RequestGroups, Kinds
  <2>5. QED
    BY <1>5, <2>2, <2>3, <2>4
<1>10. ASSUME NEW w \in Users, RequestLeave(w) PROVE Budget'
  <2>1. PICK t, p : t = <<w, "req">> /\ p = [at |-> "left"]
    OBVIOUS
  <2>2. t \in Threads /\ p \in Places
    BY <2>1, ThreadIs DEF Places
  <2>3. Go(t, p) /\ UNCHANGED <<last, made>>
    BY <1>10, <2>1 DEF RequestLeave, clientVars
  <2>4. done'["leave"] = done["leave"] + 1
    BY <1>0, <1>10, AskIs DEF RequestLeave, Kinds
  <2>5. t = <<t[1], "req">> /\ t[1] = w
    BY <2>1
  <2>6. \A u \in Users : Poll(u)' = Poll(u) /\ last'[u] = last[u]
    BY <1>4, <2>2, <2>3, <2>5
  <2>7. QED
    BY <2>3, <2>4, <2>6, NotMoved, DeparturePays
<1>11. ASSUME NEW t \in Threads, LoseRequest(t) PROVE Budget'
  <2>1. Go(t, Idle) /\ UNCHANGED <<members, last, made>> /\ t[2] = "req"
    BY <1>11 DEF LoseRequest, relayVars, clientVars
  <2>2. Idle \in Places
    BY DEF Places
  <2>3. done'["leave"] = done["leave"]
    BY <1>0, <1>11, LostIs DEF LoseRequest, Kinds
  <2>4. QED
    BY <1>5, <2>1, <2>2, <2>3
<1>12. ASSUME NEW t \in Threads, ForgetGroup(t) PROVE Budget'
  <2>1. Go(t, Idle) /\ UNCHANGED <<members, made, done>> /\ last' = [last EXCEPT ![t[1]] = {}]
        /\ thread[t].at = "left"
    BY <1>12 DEF ForgetGroup, relayVars, history
  <2>2. Idle \in Places /\ Idle.at = "idle"
    BY DEF Places, Idle
  <2>3. PICK w : w = t[1]
    OBVIOUS
  <2>4. /\ w \in Users /\ (t = <<w, "poll">> \/ t = <<w, "req">>)
        /\ \A u \in Users \ {w} : Poll(u)' = Poll(u)
        /\ t = <<w, "poll">> => thread[t] = Poll(w) /\ Poll(w)' = Idle
        /\ t = <<w, "req">> => Poll(w)' = Poll(w)
    BY <1>4, <2>1, <2>2, <2>3
  <2>5. last'[w] = {} /\ \A u \in Users \ {w} : last'[u] = last[u]
    BY <1>0, <2>1, <2>3, <2>4
  <2>6. CASE t = <<w, "poll">>
    BY <1>3, <2>1, <2>2, <2>4, <2>5, <2>6
  <2>7. CASE t = <<w, "req">>
    <3>1. Pending(w)' => Pending(w)
      BY <2>4, <2>5, <2>7 DEF Pending, Observes, Elected
    <3>2. \A S : Fewer(S)' => Fewer(S)
      BY <2>1 DEF Fewer
    <3>3. Shrunk(w)' => Shrunk(w) \/ (Pending(w) /\ ~Pending(w)')
      BY <2>4, <2>5, <2>7, <3>2 DEF Shrunk, Observes
    <3>4. QED
      BY <1>2, <2>1, <2>4, <2>5, <3>1, <3>3 DEF Lowest
  <2>8. QED
    BY <2>4, <2>6, <2>7
\* A poll loop at a place where requests are not.
<1>13. ASSUME NEW t \in Threads, NEW p \in Places, Go(t, p),
              thread[t].at \notin {"idle", "groups", "apply", "left"}
       PROVE  /\ t[1] \in Users /\ thread[t] = Poll(t[1]) /\ Poll(t[1])' = p
              /\ \A u \in Users \ {t[1]} : Poll(u)' = Poll(u)
  BY <1>4, <1>13
<1>14. ASSUME NEW t \in Threads, DeliverInvite(t) PROVE Budget'
  <2>1. PICK p : p = Invite(thread[t].todo)
    OBVIOUS
  <2>2. /\ Go(t, p) /\ p \in Places /\ p.at \in {"idle", "seal"} /\ thread[t].at = "deliver"
        /\ UNCHANGED <<last, made>> /\ done'["leave"] = done["leave"]
    <3>1. p \in Places /\ p.at \in {"idle", "seal"}
      BY <1>14, <2>1, DeliveredIs, InviteIs DEF Invite, Idle
    <3>2. done'["leave"] = done["leave"]
      BY <1>0, <1>14, LostIs DEF DeliverInvite, Kinds
    <3>3. QED
      BY <1>14, <2>1, <3>1, <3>2 DEF DeliverInvite, clientVars
  <2>3. PICK w : w = t[1]
    OBVIOUS
  <2>4. /\ w \in Users /\ thread[t] = Poll(w) /\ Poll(w)' = p
        /\ \A u \in Users \ {w} : Poll(u)' = Poll(u)
    BY <1>13, <2>2, <2>3
  <2>5. Poll(w).at = "deliver"
    BY <2>2, <2>4
  <2>6. ~Pending(w)
    BY <2>5 DEF Pending, Observes
  <2>7. ~Pending(w)'
    BY <2>2, <2>4 DEF Pending, Observes
  <2>8. members' = members \/ (w \in members /\ members' = members \cup {thread[t].to})
    BY <1>14, <2>3, DeliveredIs
  <2>9. \A S : Fewer(S)' => Fewer(S)
    BY <2>8 DEF Fewer
  <2>10. Shrunk(w)' => Shrunk(w)
    BY <2>2, <2>4, <2>6, <2>7, <2>9 DEF Shrunk, Observes
  <2>11. w <= thread[t].to /\ Lowest(w, members) /\ thread[t].to \in Users
    BY <1>14, <2>4, <2>5, DeliveredIs DEF LeastRekeys, Rekeying
  <2>12. ASSUME NEW u \in members', Lowest(u, members)'
         PROVE  u \in members /\ Lowest(u, members)
    <3>1. u \in Nat /\ w \in Nat /\ thread[t].to \in Nat
      BY <1>0, <2>4, <2>8, <2>11, NamesAssumption
    <3>2. CASE members' = members
      BY <2>12, <3>2 DEF Lowest
    <3>3. CASE w \in members /\ members' = members \cup {thread[t].to}
      <4>1. u <= w
        BY <2>12, <3>3 DEF Lowest
      <4>2. u \in members
        BY <2>11, <3>1, <3>3, <4>1
      <4>3. QED
        BY <2>12, <3>3, <4>2 DEF Lowest
    <3>4. QED
      BY <2>8, <3>2, <3>3
  <2>13. members \subseteq members' /\ \A u \in Users \ {w} : last'[u] = last[u]
    BY <2>2, <2>8
  <2>14. QED
    BY <1>2, <2>2, <2>4, <2>6, <2>7, <2>10, <2>12, <2>13
<1>15. ASSUME NEW t \in Threads, ListToCheck(t) PROVE Budget'
  <2>1. PICK got \in {members, {}} : Go(t, [at |-> "members", got |-> got])
    BY <1>15, ListedIs DEF ListToCheck
  <2>2. PICK p, w : p = [at |-> "members", got |-> got] /\ w = t[1]
    OBVIOUS
  <2>3. /\ p \in Places /\ p.at = "members" /\ p.got = got /\ thread[t].at = "check"
        /\ UNCHANGED <<members, last, made>> /\ done'["leave"] = done["leave"]
    <3>1. done'["leave"] = done["leave"]
      BY <1>0, <1>15, LostIs DEF ListToCheck, Read, Kinds
    <3>2. QED
      BY <1>0, <1>15, <2>2, <3>1 DEF ListToCheck, Places, relayVars, clientVars
  <2>4. /\ w \in Users /\ thread[t] = Poll(w) /\ Poll(w)' = p
        /\ \A u \in Users \ {w} : Poll(u)' = Poll(u)
    BY <1>13, <2>1, <2>2, <2>3
  <2>5. ~Pending(w)
    BY <2>3, <2>4 DEF Pending, Observes
  <2>6. Pending(w)' <=> w \in got /\ Elected(w, got)
    BY <2>3, <2>4 DEF Pending, Observes, Elected
  <2>7. (\E prev \in last[w] : Fewer(prev)) => Shrunk(w)
    BY <2>5 DEF Shrunk
  <2>8. got \subseteq Users
    BY <1>0
  <2>9. CASE Pending(w)'
    <3>1. w \in got /\ Elected(w, got) /\ got = members
      BY <2>1, <2>6, <2>9
    <3>2. Lowest(w, members)
      BY <2>8, <3>1, ElectedIs
    <3>3. Shrunk(w)
      BY <2>7, <3>1 DEF Elected, Fewer
    <3>4. ~Shrunk(w)'
      BY <2>3, <2>4, <2>9 DEF Shrunk
    <3>5. \A u \in Users \ {w} : Pending(u)' => Pending(u)
      BY <2>3, <2>4, NotMoved
    <3>6. QED
      BY <2>3, <3>1, <3>2, <3>3, <3>4, <3>5, LowestElected
  <2>10. CASE ~Pending(w)'
    <3>1. \A S : Fewer(S)' <=> Fewer(S)
      BY <2>3 DEF Fewer
    <3>2. ~(w \in got /\ Fewer(got))
      BY <2>1 DEF Fewer
    <3>3. Shrunk(w)' => \E prev \in last[w] : Fewer(prev)
      BY <2>3, <2>4, <3>1, <3>2 DEF Shrunk, Observes
    <3>4. Shrunk(w)' => Shrunk(w)
      BY <2>7, <3>3
    <3>5. QED
      BY <1>2, <2>3, <2>4, <2>10, <3>4 DEF Lowest
  <2>11. QED
    BY <2>9, <2>10
<1>16. ASSUME NEW t \in Threads, ObserveMembers(t) PROVE Budget'
  <2>1. PICK w, got : w = t[1] /\ got = thread[t].got
    OBVIOUS
  <2>2. /\ thread[t].at = "members" /\ UNCHANGED <<members, made, done>>
        /\ last' = IF w \in got THEN [last EXCEPT ![w] = {got}] ELSE last
        /\ Go(t, IF w \in got /\ Elected(w, got) THEN [at |-> "relist"] ELSE Idle)
    BY <1>16, <2>1 DEF ObserveMembers, relayVars, history
  <2>3. PICK p : p = IF w \in got /\ Elected(w, got) THEN [at |-> "relist"] ELSE Idle
    OBVIOUS
  <2>4. p \in Places /\ p.at = IF w \in got /\ Elected(w, got) THEN "relist" ELSE "idle"
    BY <2>3 DEF Places, Idle
  <2>5. /\ w \in Users /\ thread[t] = Poll(w) /\ Poll(w)' = p
        /\ \A u \in Users \ {w} : Poll(u)' = Poll(u)
    BY <1>13, <2>1, <2>2, <2>3, <2>4
  <2>6. last'[w] = (IF w \in got THEN {got} ELSE last[w]) /\ \A u \in Users \ {w} : last'[u] = last[u]
    BY <1>0, <2>2, <2>5
  <2>7. \A S : Fewer(S)' <=> Fewer(S)
    BY <2>2 DEF Fewer
  <2>8. Pending(w) <=> w \in got /\ Elected(w, got)
    BY <2>1, <2>2, <2>5 DEF Pending, Observes
  <2>9. Pending(w)' <=> w \in got /\ Elected(w, got)
    BY <2>4, <2>5 DEF Pending, Observes
  <2>10. ASSUME Shrunk(w)' PROVE Shrunk(w)
    <3>1. ~Pending(w) /\ \E prev \in last'[w] : Fewer(prev)
      BY <2>4, <2>5, <2>7, <2>8, <2>9, <2>10 DEF Shrunk, Observes
    <3>2. CASE w \in got
      BY <2>1, <2>2, <2>5, <2>6, <3>1, <3>2 DEF Shrunk, Observes
    <3>3. CASE w \notin got
      BY <2>6, <3>1, <3>3 DEF Shrunk
    <3>4. QED
      BY <3>2, <3>3
  <2>11. QED
    BY <1>2, <2>2, <2>5, <2>6, <2>8, <2>9, <2>10 DEF Lowest
<1>17. ASSUME NEW t \in Threads, ListToRekey(t) PROVE Budget'
  <2>1. PICK got \in {members, {}} : Go(t, [at |-> "rekey", got |-> got])
    BY <1>17, ListedIs DEF ListToRekey
  <2>2. PICK p, w : p = [at |-> "rekey", got |-> got] /\ w = t[1]
    OBVIOUS
  <2>3. /\ p \in Places /\ p.at = "rekey" /\ p.got = got /\ thread[t].at = "relist"
        /\ UNCHANGED <<members, last, made>> /\ done'["leave"] = done["leave"]
    <3>1. done'["leave"] = done["leave"]
      BY <1>0, <1>17, LostIs DEF ListToRekey, Read, Kinds
    <3>2. QED
      BY <1>0, <1>17, <2>2, <3>1 DEF ListToRekey, Places, relayVars, clientVars
  <2>4. /\ w \in Users /\ thread[t] = Poll(w) /\ Poll(w)' = p
        /\ \A u \in Users \ {w} : Poll(u)' = Poll(u)
    BY <1>13, <2>1, <2>2, <2>3
  <2>5. Pending(w)
    BY <2>3, <2>4 DEF Pending
  <2>6. Shrunk(w)' => ~Pending(w)'
    BY <2>1, <2>3, <2>4 DEF Shrunk, Fewer
  <2>7. QED
    BY <1>2, <2>3, <2>4, <2>5, <2>6 DEF Lowest
<1>18. ASSUME NEW t \in Threads, NewKey(t) PROVE Budget'
  <2>1. PICK w, got : w = t[1] /\ got = thread[t].got
    OBVIOUS
  <2>2. thread[t].at = "rekey" /\ UNCHANGED <<members, done>> /\ got \in SUBSET Users
    BY <1>0, <1>18, <2>1, PlaceIs DEF NewKey, relayVars
  <2>3. \/ w \notin got /\ Go(t, Idle) /\ UNCHANGED <<last, made>>
        \/ /\ w \in got /\ Go(t, Invite(got \ {w})) /\ made' = made + 1
           /\ last' = [last EXCEPT ![w] = {got}]
    BY <1>18, <2>1 DEF NewKey
  <2>4. PICK p \in Places : Go(t, p) /\ p.at \in {"idle", "seal"}
    <3>1. Idle \in Places /\ Idle.at = "idle"
      BY DEF Places, Idle
    <3>2. Invite(got \ {w}) \in Places /\ Invite(got \ {w}).at \in {"idle", "seal"}
      BY <2>2, InviteIs DEF Invite, Idle
    <3>3. QED
      BY <2>3, <3>1, <3>2
  <2>5. /\ w \in Users /\ thread[t] = Poll(w) /\ Poll(w)' = p
        /\ \A u \in Users \ {w} : Poll(u)' = Poll(u)
    BY <1>13, <2>1, <2>2, <2>4
  <2>6. \A S : Fewer(S)' <=> Fewer(S)
    BY <2>2 DEF Fewer
  <2>7. Pending(w) <=> w \in got
    BY <2>1, <2>2, <2>5 DEF Pending, Observes
  <2>8. ~Pending(w)'
    BY <2>4, <2>5 DEF Pending, Observes
  <2>9. Shrunk(w)' => \E prev \in last'[w] : Fewer(prev)
    BY <2>4, <2>5, <2>6 DEF Shrunk, Observes
  <2>10. CASE w \notin got
    <3>1. UNCHANGED <<last, made>>
      BY <2>3, <2>10
    <3>2. Shrunk(w)' => Shrunk(w)
      BY <2>7, <2>9, <2>10, <3>1 DEF Shrunk
    <3>3. QED
      BY <1>2, <2>2, <2>5, <2>8, <3>1, <3>2 DEF Lowest
  <2>11. CASE w \in got
    <3>1. made' = made + 1 /\ last'[w] = {got} /\ \A u \in Users \ {w} : last'[u] = last[u]
      BY <1>0, <2>3, <2>5, <2>11
    <3>2. Shrunk(w)' => Shrunk(w)
      BY <2>1, <2>2, <2>5, <2>9, <2>11, <3>1 DEF Shrunk
    <3>3. \A u \in Users : (Pending(u)' => Pending(u)) /\ (Shrunk(u)' => Shrunk(u))
      BY <2>2, <2>5, <2>8, <3>1, <3>2, NotMoved
    <3>4. QED
      BY <2>2, <2>5, <2>7, <2>8, <2>11, <3>1, <3>3, ElectedMakes
  <2>12. QED
    BY <2>10, <2>11
<1>19. QED
  BY <1>1, <1>6, <1>7, <1>8, <1>9, <1>10, <1>11, <1>12, <1>14, <1>15, <1>16, <1>17, <1>18,
     OtherRequests DEF Next, Work

\* Requests are only counted up.
LEMMA OnlyLeavesBefore ==
  ASSUME GKTypeOK, [Next]_vars, LeavesOnly'
  PROVE  LeavesOnly
<1>0. done \in [Kinds -> Nat] /\ calm \in BOOLEAN
  BY DEF GKTypeOK
<1>1. ASSUME UNCHANGED done \/ LoseAnswer PROVE LeavesOnly
  BY <1>0, <1>1, LostIs DEF LeavesOnly, Kinds
<1>2. ASSUME NEW t \in Threads, Work(t) \/ LoseRequest(t) PROVE UNCHANGED done \/ LoseAnswer
  BY <1>2 DEF Work, LoseRequest, CheckBlock, ApplyBlock, ListToCheck, Read, ObserveMembers, history,
     ListToRekey, NewKey, SealKey, DeliverInvite, ForgetGroup
<1>3. ASSUME NEW u \in Users, FetchGroups(u) PROVE UNCHANGED done \/ LoseAnswer
  BY <1>3 DEF FetchGroups, Read
<1>4. ASSUME NEW u \in Users, RequestGroups(u) PROVE LeavesOnly
  BY <1>0, <1>4, AskIs DEF RequestGroups, LeavesOnly, Kinds
<1>5. ASSUME NEW u \in Users, RequestLeave(u) PROVE LeavesOnly
  BY <1>0, <1>5, AskIs DEF RequestLeave, LeavesOnly, Kinds
<1>6. CASE UNCHANGED vars
  BY <1>1, <1>6 DEF vars, history
<1>7. QED
  BY <1>1, <1>2, <1>3, <1>4, <1>5, <1>6, OtherRequests DEF Next

LEMMA LeastInit == Init => LeaveInv
<1> SUFFICES ASSUME Init PROVE (\A u \in Users : LeastRekeys(u)) /\ Budget
  BY DEF LeaveInv
<1>1. \A t \in Threads : thread[t].at = "idle"
  BY DEF Init, Idle
<1>2. \A u \in Users : Poll(u).at = "idle" /\ thread[<<u, "req">>].at = "idle"
  BY <1>1, ThreadIs DEF Poll
<1>3. \A u \in Users : LeastRekeys(u)
  BY <1>2 DEF LeastRekeys, Rekeying, Observes
<1>4. \A u \in Users : ~Pending(u)
  BY <1>2 DEF Pending, Observes
<1>5. Electees = {}
  BY <1>4 DEF Electees
<1>6. Cardinality(Electees) = 0
  BY <1>5, FS_EmptySet
<1>7. ASSUME NEW u \in members, Shrunk(u) PROVE FALSE
  <2>1. u \in Users /\ u \in Founders /\ members = Founders
    BY NamesAssumption DEF Init
  <2>2. last[u] = {members}
    BY <2>1 DEF Init
  <2>3. QED
    BY <1>2, <1>7, <2>1, <2>2 DEF Shrunk, Observes, Fewer
<1>8. made = 0 /\ done["leave"] = 0
  BY DEF Init, Kinds
<1>9. QED
  BY <1>3, <1>6, <1>7, <1>8 DEF Budget

LEMMA LeaveStep == GKTypeOK /\ LeaveInv /\ [Next]_vars => LeaveInv'
<1> SUFFICES ASSUME GKTypeOK, LeaveInv, [Next]_vars, LeavesOnly'
             PROVE  (\A u \in Users : LeastRekeys(u)') /\ Budget'
  BY DEF LeaveInv
<1>1. LeavesOnly /\ GKTypeOK'
  BY OnlyLeavesBefore, TypesStep
<1>2. (\A u \in Users : LeastRekeys(u)) /\ Budget
  BY <1>1 DEF LeaveInv
<1>3. \A u \in Users : LeastRekeys(u)'
  BY <1>1, <1>2, LeastStep
<1>4. Budget'
  BY <1>1, <1>2, BudgetStep
<1>5. QED
  BY <1>3, <1>4

LEMMA LeaveIsEnough == GKTypeOK /\ LeaveInv => OneKeyPerLeave
<1> SUFFICES ASSUME GKTypeOK, LeaveInv, LeavesOnly PROVE made <= done["leave"]
  BY DEF OneKeyPerLeave, LeavesOnly
<1>1. made + Cardinality(Electees) <= done["leave"]
  BY DEF LeaveInv, Budget
<1>2. Cardinality(Electees) \in Nat
  BY ElecteesFinite DEF Electees
<1>3. made \in Nat /\ done["leave"] \in Nat
  BY DEF GKTypeOK, Kinds
<1>4. QED
  BY <1>1, <1>2, <1>3

\* Without kicks and invitations a departure costs at most one new key, for any
\* number of users and however their threads and the relay interleave: the
\* election of check_group_rekey has one winner for each.
THEOREM OneKeyEach == Spec => []OneKeyPerLeave
<1>1. Init => LeaveInv
  BY LeastInit
<1>2. GKTypeOK /\ LeaveInv /\ [Next]_vars => LeaveInv'
  BY LeaveStep
<1>3. GKTypeOK /\ LeaveInv => OneKeyPerLeave
  BY LeaveIsEnough
<1>4. QED
  BY <1>1, <1>2, <1>3, GroupTypes, PTL DEF Spec

------------------------------------------------------------------------------
(* Who knows the key, when requests wait for one another *)

\* u has a key of G and nothing else, or the relay has one for it that it will apply.
Good(u, G) == key[u] # {} /\ key[u] \subseteq G
Comes(u, G) == u \in DOMAIN block /\ block[u].key \in G /\ block[u] \notin applied[u]
Has(u, G) == Good(u, G) \/ Comes(u, G)

\* The sealed keys in got are of G, and so is what the relay has for u now.
OfGroup(u, got, G) ==
  (\A b \in got : b.key \in G) /\ (u \in DOMAIN block => block[u].key \in G)

\* The sealed keys in got, which the poll loop of u has fetched and not used yet: it
\* has applied them before, or they are of G.
SafeFor(u, got, G) == got \subseteq applied[u] \/ OfGroup(u, got, G)

\* What the members seal is of G, and what the relay and the poll loops hold is of G
\* or was applied before.
SoundAt(t, p, G) ==
  /\ t[1] \in members /\ p.at \in {"seal", "deliver"} => Good(t[1], G)
  /\ t[1] \in members /\ p.at = "deliver" => p.sealed.key \in G
  /\ t[2] = "poll" /\ p.at = "groups" =>
       SafeFor(t[1], p.got, G) /\ (t[1] \notin members => p.got = {})
  /\ t[2] = "poll" /\ p.at = "apply" => t[1] \in members /\ OfGroup(t[1], p.got, G)

Sound(G) ==
  /\ \A t \in Threads : SoundAt(t, thread[t], G)
  /\ \A u \in DOMAIN block : block[u].key \in G \/ block[u] \in applied[u]

\* Nothing changes: what is under way are lists of the group and sealed keys that are
\* known, and invitations by those who are out.
RestsAt(t, p) ==
  /\ p.at \notin {"apply", "relist", "rekey", "left"}
  /\ p.at \in {"seal", "deliver"} => t[1] \notin members
  /\ p.at = "groups" => p.got \subseteq applied[t[1]]
  /\ p.at = "members" => p.got \in {members, {}}

Resting(G) ==
  /\ \A t \in Threads : RestsAt(t, thread[t])
  /\ \A u \in members : BlocksOf(u) \subseteq applied[u] /\ last[u] = {members} /\ Good(u, G)

\* Whom a thread at p is still to invite.
Invites(p, v) ==
  (p.at \in {"seal", "deliver"} /\ v \in p.todo) \/ (p.at = "deliver" /\ v = p.to)

\* After somebody has left or was kicked, members alone work, for members, on lists
\* that are right.
ShrinksAt(t, p) ==
  /\ p.at \in {"relist", "rekey", "seal", "deliver"} => t[1] \in members
  /\ p.at = "left" => t[1] \notin members
  /\ p.at = "groups" /\ t[2] = "req" => p.got = {}
  /\ p.at = "apply" => t[2] = "poll"
  /\ p.at = "members" => p.got \in {members, {}}
  /\ p.at = "rekey" => p.got = members
  /\ \A v \in Users : Invites(p, v) => v \in members

Shrinking == \A t \in Threads : ShrinksAt(t, thread[t])

\* The lowest member has not noticed a departure yet, or is about to change the key.
Due(u) == \E prev \in last[u] : Fewer(prev)
Changes(u) == \E t \in Threads : t[1] = u /\ thread[t].at \in {"relist", "rekey"}
Awaited == \E e \in members : Lowest(e, members) /\ (Due(e) \/ Changes(e))

\* Everybody has a key of G or will get it.
Covered(G) ==
  \A u \in members : Has(u, G) \/ \E t \in Threads : Invites(thread[t], u)

\* After a member has begun to invite somebody.
GrowsAt(t, p) ==
  /\ p.at \in {"relist", "rekey", "seal", "deliver"} => t[1] \in members
  /\ p.at # "left"
  /\ p.at = "groups" /\ t[2] = "req" => p.got = {}
  /\ p.at = "apply" => t[2] = "poll"
  /\ p.at \in {"members", "rekey"} => p.got \subseteq members

Growing(G) == (\A t \in Threads : GrowsAt(t, thread[t])) /\ \A u \in members : Has(u, G)

OneByOne(G) ==
  Sound(G) /\ (Resting(G) \/ (Shrinking /\ (Awaited \/ Covered(G))) \/ Growing(G))

\* No key of G is known to anybody outside.
Secret(G) == \A v \in Users \ members : known[v] \cap G = {}

LockInv ==
  calm /\ done["lost"] = 0 => \E G \in SUBSET Nat : Secret(G) /\ OneByOne(G)

\* Thread t goes to place p, and no other thread goes anywhere.
Moves(t, p) ==
  /\ t \in Threads /\ p \in Places
  /\ thread'[t] = p
  /\ \A s \in Threads : s # t => thread'[s] = thread[s]

LEMMA MovesTo ==
  ASSUME GKTypeOK, NEW t \in Threads, NEW p \in Places, Go(t, p)
  PROVE  Moves(t, p)
BY Goes DEF Moves, GKTypeOK

\* A step that changes nothing but where one thread is.
Walks(t, p) ==
  Moves(t, p) /\ UNCHANGED <<members, block, key, applied, last, made, sealed, known>>

\* The steps that change nothing else, with what the thread learns from the relay.
LEMMA FetchWalks ==
  ASSUME GKTypeOK, NEW u \in Users, FetchGroups(u)
  PROVE  \E got \in {BlocksOf(u), {}} : Walks(<<u, "poll">>, [at |-> "groups", got |-> got])
<1>1. PICK t : t = <<u, "poll">>
  OBVIOUS
<1>2. t \in Threads /\ UNCHANGED <<members, block, key, applied, last, made, sealed, known>>
  BY <1>1, ThreadIs DEF FetchGroups, relayVars, clientVars
<1>3. PICK got \in {BlocksOf(u), {}} : Go(t, [at |-> "groups", got |-> got])
  BY <1>1, <1>2, ReadIs DEF FetchGroups
<1>4. [at |-> "groups", got |-> got] \in Places
  BY AnswersOK DEF Places
<1>5. Moves(t, [at |-> "groups", got |-> got])
  BY <1>2, <1>3, <1>4, MovesTo
<1>6. QED
  BY <1>1, <1>2, <1>5 DEF Walks

LEMMA ListWalks ==
  ASSUME GKTypeOK, NEW t \in Threads, ListToCheck(t) \/ ListToRekey(t)
  PROVE  \/ /\ thread[t].at = "check"
            /\ \E got \in {MembersFor(t[1]), {}} : Walks(t, [at |-> "members", got |-> got])
         \/ /\ thread[t].at = "relist"
            /\ \/ Walks(t, [at |-> "rekey", got |-> MembersFor(t[1])])
               \/ Walks(t, [at |-> "rekey", got |-> {}]) /\ done'["lost"] > done["lost"]
<1>1. UNCHANGED <<members, block, key, applied, last, made, sealed, known>>
  BY DEF ListToCheck, ListToRekey, relayVars, clientVars
<1>2. \A place \in {"members", "rekey"} : \A got \in {MembersFor(t[1]), {}} :
        [at |-> place, got |-> got] \in Places
  BY AnswersOK, t[1] \in Users DEF Places, Threads
<1>3. done["lost"] \in Nat /\ done \in [Kinds -> Nat] /\ "lost" \in Kinds
  BY DEF GKTypeOK, Kinds
<1>4. LoseAnswer => done'["lost"] > done["lost"]
  BY <1>3 DEF LoseAnswer
<1>5. CASE ListToCheck(t)
  <2>1. PICK got \in {MembersFor(t[1]), {}} : Go(t, [at |-> "members", got |-> got])
    BY <1>5 DEF ListToCheck, Read
  <2>2. Walks(t, [at |-> "members", got |-> got])
    BY <1>1, <1>2, <2>1, MovesTo DEF Walks
  <2>3. QED
    BY <1>5, <2>2 DEF ListToCheck
<1>6. CASE ListToRekey(t)
  <2>1. \/ Go(t, [at |-> "rekey", got |-> MembersFor(t[1])])
        \/ Go(t, [at |-> "rekey", got |-> {}]) /\ done'["lost"] > done["lost"]
    BY <1>4, <1>6 DEF ListToRekey, Read
  <2>2. \A got \in {MembersFor(t[1]), {}} :
          Go(t, [at |-> "rekey", got |-> got]) => Walks(t, [at |-> "rekey", got |-> got])
    BY <1>1, <1>2, MovesTo DEF Walks
  <2>3. QED
    BY <1>6, <2>1, <2>2 DEF ListToRekey
<1>7. QED
  BY <1>5, <1>6

\* What a client has fetched is nothing new, or it is to be applied.
LEMMA CheckWalks ==
  ASSUME GKTypeOK, NEW t \in Threads, CheckBlock(t)
  PROVE  /\ thread[t].at = "groups" /\ t[1] \in Users
         /\ \E p : /\ Walks(t, p)
                   /\ \/ /\ p \in {Idle, [at |-> "check"]} /\ (p # Idle => t[2] = "poll")
                         /\ thread[t].got \subseteq applied[t[1]]
                      \/ \E b \in Blocks : /\ p = [at |-> "apply", got |-> {b}]
                                           /\ thread[t].got = {b} /\ b \notin applied[t[1]]
<1>1. t[1] \in Users
  BY DEF Threads
<1>2. PICK p \in Places :
        /\ thread[t].at = "groups" /\ Go(t, p)
        /\ \/ /\ p = Idle \/ (p = [at |-> "check"] /\ t[2] = "poll")
              /\ thread[t].got \subseteq applied[t[1]]
           \/ \E b \in Blocks : /\ p = [at |-> "apply", got |-> {b}]
                                /\ thread[t].got = {b} /\ b \notin applied[t[1]]
  BY CheckIs
<1>3. Walks(t, p)
  BY <1>2, MovesTo DEF Walks, CheckBlock, relayVars, clientVars, history
<1>4. QED
  BY <1>1, <1>2, <1>3

\* A sealed key is applied, whatever the other thread of the client did meanwhile.
LEMMA ApplyIs ==
  ASSUME GKTypeOK, NEW t \in Threads, ApplyBlock(t)
  PROVE  /\ thread[t].at = "apply" /\ t[1] \in Users
         /\ \E p \in {Idle, [at |-> "check"]} :
              /\ p # Idle => t[2] = "poll"
              /\ Moves(t, p) /\ UNCHANGED <<members, block, last, made, sealed>>
              /\ \E b \in Blocks :
                   /\ thread[t].got = {b}
                   /\ key' = [key EXCEPT ![t[1]] = {b.key}]
                   /\ applied' = [applied EXCEPT ![t[1]] = {b}]
                   /\ known' = [known EXCEPT ![t[1]] = @ \cup {b.key}]
<1>1. t[1] \in Users /\ Idle \in Places /\ [at |-> "check"] \in Places
  BY DEF Threads, Places
<1>2. PICK b \in Blocks :
        /\ thread[t].at = "apply" /\ thread[t].got = {b}
        /\ key' = [key EXCEPT ![t[1]] = {b.key}]
        /\ applied' = [applied EXCEPT ![t[1]] = {b}]
        /\ known' = [known EXCEPT ![t[1]] = @ \cup {b.key}]
        /\ Go(t, Idle) \/ (Go(t, [at |-> "check"]) /\ t[2] = "poll")
  BY AppliedIs
<1>3. PICK p \in {Idle, [at |-> "check"]} : Moves(t, p) /\ (p # Idle => t[2] = "poll")
  BY <1>1, <1>2, MovesTo
<1>4. UNCHANGED <<members, block, last, made, sealed>>
  BY DEF ApplyBlock, relayVars
<1>5. QED
  BY <1>1, <1>2, <1>3, <1>4

LEMMA ObserveIs ==
  ASSUME GKTypeOK, NEW t \in Threads, ObserveMembers(t)
  PROVE  /\ thread[t].at = "members" /\ t[1] \in Users /\ thread[t].got \in SUBSET Users
         /\ UNCHANGED <<members, block, key, applied, made, sealed, known>>
         /\ last' = IF t[1] \in thread[t].got THEN [last EXCEPT ![t[1]] = {thread[t].got}] ELSE last
         /\ IF t[1] \in thread[t].got /\ Elected(t[1], thread[t].got)
            THEN Moves(t, [at |-> "relist"])
            ELSE Moves(t, Idle)
<1>1. Idle \in Places /\ [at |-> "relist"] \in Places
  BY DEF Places
<1>2. t[1] \in Users /\ thread[t].got \in SUBSET Users /\ thread[t].at = "members"
  <2>1. thread[t].at = "members" /\ thread[t] \in Places /\ t[1] \in Users
    BY DEF GKTypeOK, ObserveMembers, Threads
  <2>2. QED
    BY <2>1, PlaceIs
<1>3. UNCHANGED <<members, block, key, applied, made, sealed, known>>
  BY DEF ObserveMembers, relayVars, history
<1>4. QED
  BY <1>1, <1>2, <1>3, MovesTo DEF ObserveMembers

LEMMA NewKeyIs ==
  ASSUME GKTypeOK, NEW t \in Threads, NewKey(t)
  PROVE  /\ thread[t].at = "rekey" /\ t[1] \in Users /\ thread[t].got \in SUBSET Users
         /\ \/ t[1] \notin thread[t].got /\ Walks(t, Idle)
            \/ /\ t[1] \in thread[t].got
               /\ Moves(t, Invite(thread[t].got \ {t[1]}))
               /\ UNCHANGED <<members, block, applied, sealed>>
               /\ made' = made + 1
               /\ key' = [key EXCEPT ![t[1]] = {made + 1}]
               /\ known' = [known EXCEPT ![t[1]] = @ \cup {made + 1}]
               /\ last' = [last EXCEPT ![t[1]] = {thread[t].got}]
<1>1. PICK u, got : u = t[1] /\ got = thread[t].got
  OBVIOUS
<1>2. thread[t].at = "rekey" /\ u \in Users /\ got \in SUBSET Users /\ got \ {u} \in SUBSET Users
  <2>1. thread[t].at = "rekey" /\ thread[t] \in Places /\ u \in Users
    BY <1>1 DEF GKTypeOK, NewKey, Threads
  <2>2. QED
    BY <1>1, <2>1, PlaceIs
<1>3. Idle \in Places /\ Invite(got \ {u}) \in Places
  BY <1>2, InviteIs DEF Places
<1>4. UNCHANGED <<members, block, applied, sealed>>
  BY DEF NewKey, relayVars
<1>5. CASE u \notin got
  <2>1. Go(t, Idle) /\ UNCHANGED <<key, last, made, known>>
    BY <1>1, <1>5 DEF NewKey
  <2>2. Walks(t, Idle)
    BY <1>3, <1>4, <2>1, MovesTo DEF Walks
  <2>3. QED
    BY <1>1, <1>2, <1>5, <2>2
<1>6. CASE u \in got
  <2>1. /\ made' = made + 1
        /\ key' = [key EXCEPT ![u] = {made + 1}]
        /\ known' = [known EXCEPT ![u] = @ \cup {made + 1}]
        /\ last' = [last EXCEPT ![u] = {got}]
        /\ Go(t, Invite(got \ {u}))
    BY <1>1, <1>6 DEF NewKey
  <2>2. Moves(t, Invite(got \ {u}))
    BY <1>3, <2>1, MovesTo
  <2>3. QED
    BY <1>1, <1>2, <1>4, <1>6, <2>1, <2>2
<1>7. QED
  BY <1>5, <1>6

\* A key is sealed for the first of those who are to be invited, or nobody has one.
LEMMA SealIs ==
  ASSUME GKTypeOK, NEW t \in Threads, SealKey(t)
  PROVE  /\ thread[t].at = "seal" /\ t[1] \in Users /\ thread[t].todo \in SUBSET Users
         /\ UNCHANGED <<members, block, key, applied, last, made, known>>
         /\ \E to \in thread[t].todo :
              \/ /\ key[t[1]] = {} /\ sealed' = sealed
                 /\ Moves(t, Invite(thread[t].todo \ {to}))
              \/ \E k \in key[t[1]] :
                   /\ sealed' = sealed + 1 /\ Block(k, t[1], sealed + 1) \in Blocks
                   /\ Moves(t, [at |-> "deliver", to |-> to, todo |-> thread[t].todo \ {to},
                                sealed |-> Block(k, t[1], sealed + 1)])
<1>1. PICK u, todo, to : u = t[1] /\ todo = thread[t].todo /\ to = Min(todo)
  OBVIOUS
<1>2. thread[t].at = "seal" /\ u \in Users /\ todo \in (SUBSET Users) \ {{}}
  <2>1. thread[t].at = "seal" /\ thread[t] \in Places /\ u \in Users
    BY <1>1 DEF GKTypeOK, SealKey, Threads
  <2>2. QED
    BY <1>1, <2>1, PlaceIs
<1>3. to \in todo /\ to \in Users /\ todo \ {to} \in SUBSET Users
  BY <1>1, <1>2, MinIs, NamesAssumption
<1>4. UNCHANGED <<members, block, key, applied, last, made, known>>
  BY DEF SealKey, relayVars, clientVars
<1>5. \/ key[u] = {} /\ sealed' = sealed /\ Go(t, Invite(todo \ {to}))
      \/ \E k \in key[u] :
           /\ sealed' = sealed + 1
           /\ Go(t, [at |-> "deliver", to |-> to, todo |-> todo \ {to},
                     sealed |-> Block(k, u, sealed + 1)])
  BY <1>1 DEF SealKey
<1>6. CASE key[u] = {} /\ sealed' = sealed /\ Go(t, Invite(todo \ {to}))
  <2>1. Moves(t, Invite(todo \ {to}))
    BY <1>3, <1>6, InviteIs, MovesTo
  <2>2. QED
    BY <1>1, <1>2, <1>3, <1>4, <1>6, <2>1
<1>7. ASSUME NEW k \in key[u], sealed' = sealed + 1,
             Go(t, [at |-> "deliver", to |-> to, todo |-> todo \ {to},
                    sealed |-> Block(k, u, sealed + 1)])
      PROVE  /\ Block(k, u, sealed + 1) \in Blocks
             /\ Moves(t, [at |-> "deliver", to |-> to, todo |-> todo \ {to},
                          sealed |-> Block(k, u, sealed + 1)])
  <2>1. k \in Nat /\ sealed + 1 \in Nat
    BY <1>2 DEF GKTypeOK, AtMostOne
  <2>2. Block(k, u, sealed + 1) \in Blocks
    BY <1>2, <2>1 DEF Block, Blocks
  <2>3. [at |-> "deliver", to |-> to, todo |-> todo \ {to}, sealed |-> Block(k, u, sealed + 1)] \in Places
    BY <1>3, <2>2 DEF Places
  <2>4. QED
    BY <1>7, <2>2, <2>3, MovesTo
<1>8. CASE \E k \in key[u] :
             /\ sealed' = sealed + 1
             /\ Go(t, [at |-> "deliver", to |-> to, todo |-> todo \ {to},
                       sealed |-> Block(k, u, sealed + 1)])
  <2>1. \E k \in key[u] :
          /\ sealed' = sealed + 1 /\ Block(k, u, sealed + 1) \in Blocks
          /\ Moves(t, [at |-> "deliver", to |-> to, todo |-> todo \ {to},
                       sealed |-> Block(k, u, sealed + 1)])
    BY <1>7, <1>8
  <2>2. QED
    BY <1>1, <1>2, <1>3, <1>4, <2>1
<1>9. QED
  BY <1>5, <1>6, <1>8

\* A sealed key reaches the relay, which takes it from members only.
LEMMA DeliverIs ==
  ASSUME GKTypeOK, NEW t \in Threads, DeliverInvite(t)
  PROVE  /\ thread[t].at = "deliver" /\ t[1] \in Users
         /\ thread[t].to \in Users /\ thread[t].todo \in SUBSET Users /\ thread[t].sealed \in Blocks
         /\ \/ /\ Walks(t, Invite(thread[t].todo))
               /\ t[1] \notin members \/ done'["lost"] > done["lost"]
            \/ /\ t[1] \in members
               /\ Moves(t, Invite(thread[t].todo))
               /\ UNCHANGED <<key, applied, last, made, sealed, known>>
               /\ members' = members \cup {thread[t].to}
               /\ DOMAIN block' = DOMAIN block \cup {thread[t].to}
               /\ block'[thread[t].to] = thread[t].sealed
               /\ \A v \in DOMAIN block \ {thread[t].to} : block'[v] = block[v]
<1>1. /\ thread[t].at = "deliver" /\ t[1] \in Users
      /\ thread[t].to \in Users /\ thread[t].todo \in SUBSET Users /\ thread[t].sealed \in Blocks
  BY DeliveredIs DEF DeliverInvite, Threads
<1>2. Moves(t, Invite(thread[t].todo)) /\ UNCHANGED <<key, applied, last, made, sealed, known>>
  <2>1. Go(t, Invite(thread[t].todo)) /\ UNCHANGED <<key, applied, last, made, sealed, known>>
    BY DEF DeliverInvite, clientVars
  <2>2. QED
    BY <1>1, <2>1, InviteIs, MovesTo
<1>3. LoseAnswer => done'["lost"] > done["lost"]
  <2>1. done["lost"] \in Nat /\ done \in [Kinds -> Nat] /\ "lost" \in Kinds
    BY DEF GKTypeOK, Kinds
  <2>2. QED
    BY <2>1 DEF LoseAnswer
<1>4. \/ /\ t[1] \in members
         /\ members' = members \cup {thread[t].to}
         /\ block' = [u \in DOMAIN block \cup {thread[t].to} |->
                        IF u = thread[t].to THEN thread[t].sealed ELSE block[u]]
      \/ UNCHANGED <<members, block>> /\ (t[1] \notin members \/ done'["lost"] > done["lost"])
  BY <1>3 DEF DeliverInvite, relayVars
<1>5. CASE UNCHANGED <<members, block>> /\ (t[1] \notin members \/ done'["lost"] > done["lost"])
  <2>1. Walks(t, Invite(thread[t].todo))
    BY <1>2, <1>5 DEF Walks
  <2>2. QED
    BY <1>1, <1>5, <2>1
<1>6. CASE /\ t[1] \in members
           /\ members' = members \cup {thread[t].to}
           /\ block' = [u \in DOMAIN block \cup {thread[t].to} |->
                          IF u = thread[t].to THEN thread[t].sealed ELSE block[u]]
  <2>1. /\ DOMAIN block' = DOMAIN block \cup {thread[t].to}
        /\ block'[thread[t].to] = thread[t].sealed
        /\ \A v \in DOMAIN block \ {thread[t].to} : block'[v] = block[v]
    BY <1>6
  <2>2. QED
    BY <1>1, <1>2, <1>6, <2>1
<1>7. QED
  BY <1>4, <1>5, <1>6

LEMMA ForgetIs ==
  ASSUME GKTypeOK, NEW t \in Threads, ForgetGroup(t)
  PROVE  /\ thread[t].at = "left" /\ t[1] \in Users
         /\ Moves(t, Idle)
         /\ UNCHANGED <<members, block, made, sealed, known>>
         /\ key' = [key EXCEPT ![t[1]] = {}]
         /\ applied' = [applied EXCEPT ![t[1]] = {}]
         /\ last' = [last EXCEPT ![t[1]] = {}]
<1>1. Idle \in Places
  BY DEF Places
<1>2. QED
  BY <1>1, MovesTo DEF ForgetGroup, Threads, relayVars, history

LEMMA LoseIs ==
  ASSUME GKTypeOK, NEW t \in Threads, LoseRequest(t)
  PROVE  Walks(t, Idle) /\ done'["lost"] > done["lost"]
<1>1. Idle \in Places /\ done["lost"] \in Nat /\ done \in [Kinds -> Nat] /\ "lost" \in Kinds
  BY DEF GKTypeOK, Kinds, Places
<1>2. done'["lost"] > done["lost"]
  BY <1>1 DEF LoseRequest, LoseAnswer
<1>3. QED
  BY <1>1, <1>2, MovesTo DEF LoseRequest, relayVars, clientVars, Walks

\* A sealed key that is at the relay, in use, or on its way to a client.
Around(b) ==
  \/ \E u \in DOMAIN block : b = block[u]
  \/ \E u \in Users : b \in applied[u]
  \/ \E t \in Threads : thread[t].at \in {"groups", "apply"} /\ b \in thread[t].got

\* Keys and sealed keys are counted, and a sealed key that is in the hand of its sealer
\* is nowhere else yet.
InHand(b) == b.key <= made /\ b.nr <= sealed /\ ~Around(b)

Numbered ==
  /\ \A u \in Users : \A n \in key[u] \cup known[u] : n <= made
  /\ \A b \in Blocks : Around(b) => b.key <= made /\ b.nr <= sealed
  /\ \A t \in Threads : thread[t].at = "deliver" => InHand(thread[t].sealed)
  /\ \A s, t \in Threads : s # t /\ thread[s].at = "deliver" /\ thread[t].at = "deliver" =>
       thread[s].sealed # thread[t].sealed

LEMMA NumberedMoves ==
  ASSUME GKTypeOK, Numbered, NEW t, NEW p, Moves(t, p), p.at # "deliver",
         made <= made', sealed' = sealed, made' \in Nat,
         \A u \in Users : \A n \in key'[u] \cup known'[u] : n <= made',
         \A u \in DOMAIN block' : u \in DOMAIN block /\ block'[u] = block[u],
         \A u \in Users : \A b \in applied'[u] : Around(b),
         p.at \in {"groups", "apply"} => \A b \in p.got : Around(b)
  PROVE  Numbered'
<1>1. /\ t \in Threads /\ thread'[t] = p /\ \A s \in Threads : s # t => thread'[s] = thread[s]
      /\ made \in Nat /\ sealed \in Nat
  BY DEF Moves, GKTypeOK
<1>2. ASSUME NEW b, Around(b)' PROVE Around(b)
  <2>1. CASE \E u \in DOMAIN block' : b = block'[u]
    BY <2>1 DEF Around
  <2>2. CASE \E u \in Users : b \in applied'[u]
    BY <2>2
  <2>3. ASSUME NEW s \in Threads, thread'[s].at \in {"groups", "apply"}, b \in thread'[s].got
        PROVE  Around(b)
    BY <1>1, <2>3 DEF Around
  <2>4. QED
    BY <1>2, <2>1, <2>2, <2>3 DEF Around
<1>3. \A b \in Blocks : Around(b)' => b.key <= made' /\ b.nr <= sealed'
  <2>1. SUFFICES ASSUME NEW b \in Blocks, Around(b)' PROVE b.key <= made' /\ b.nr <= sealed'
    OBVIOUS
  <2>2. b.key \in Nat /\ b.key <= made /\ b.nr <= sealed
    BY <1>2, <2>1 DEF Numbered, Blocks
  <2>3. QED
    BY <1>1, <2>2
<1>4. \A s \in Threads : thread'[s].at = "deliver" =>
        s # t /\ thread'[s] = thread[s] /\ thread[s].at = "deliver" /\ thread[s].sealed \in Blocks
  <2>1. \A s \in Threads : thread[s] \in Places
    BY DEF GKTypeOK
  <2>2. QED
    BY <1>1, <2>1, PlaceIs
<1>5. ASSUME NEW s \in Threads, thread'[s].at = "deliver"
      PROVE  InHand(thread[s].sealed)'
  <2>1. PICK c : c = thread[s].sealed /\ c = thread'[s].sealed
    BY <1>4, <1>5
  <2>2. c \in Blocks /\ c.key <= made /\ c.nr <= sealed /\ ~Around(c)
    BY <1>4, <1>5, <2>1 DEF Numbered, InHand
  <2>3. ~Around(c)'
    BY <1>2, <2>2
  <2>4. c.key \in Nat
    BY <2>2 DEF Blocks
  <2>5. QED
    BY <1>1, <2>1, <2>2, <2>3, <2>4 DEF InHand
<1>6. \A r, s \in Threads : r # s /\ thread'[r].at = "deliver" /\ thread'[s].at = "deliver" =>
        thread'[r].sealed # thread'[s].sealed
  BY <1>4 DEF Numbered
<1>7. QED
  BY <1>3, <1>5, <1>6 DEF Numbered

LEMMA NumberedWalks ==
  ASSUME GKTypeOK, Numbered, NEW t, NEW p, Walks(t, p), p.at # "deliver",
         p.at \in {"groups", "apply"} => \A b \in p.got : Around(b)
  PROVE  Numbered'
<1>1. Moves(t, p) /\ UNCHANGED <<members, block, key, applied, last, made, sealed, known>>
  BY DEF Walks
<1>2. made \in Nat /\ made <= made' /\ made' \in Nat
  BY <1>1 DEF GKTypeOK
<1>3. \A u \in Users : \A n \in key'[u] \cup known'[u] : n <= made'
  BY <1>1 DEF Numbered
<1>4. \A u \in Users : \A b \in applied'[u] : Around(b)
  BY <1>1 DEF Around
<1>5. QED
  BY <1>1, <1>2, <1>3, <1>4, NumberedMoves

LEMMA NumberedSealed ==
  ASSUME GKTypeOK, Numbered, NEW t \in Threads, SealKey(t)
  PROVE  Numbered'
<1>1. PICK to \in thread[t].todo :
        \/ /\ key[t[1]] = {} /\ sealed' = sealed
           /\ Moves(t, Invite(thread[t].todo \ {to}))
        \/ \E k \in key[t[1]] :
             /\ sealed' = sealed + 1 /\ Block(k, t[1], sealed + 1) \in Blocks
             /\ Moves(t, [at |-> "deliver", to |-> to, todo |-> thread[t].todo \ {to},
                          sealed |-> Block(k, t[1], sealed + 1)])
  BY SealIs
<1>2. UNCHANGED <<members, block, key, applied, last, made, known>> /\ t[1] \in Users
  BY SealIs
<1>3. CASE /\ key[t[1]] = {} /\ sealed' = sealed
           /\ Moves(t, Invite(thread[t].todo \ {to}))
  <2>1. PICK p : p = Invite(thread[t].todo \ {to})
    OBVIOUS
  <2>2. p.at \notin {"groups", "apply", "deliver"}
    BY <2>1 DEF Invite, Idle
  <2>3. Walks(t, p)
    BY <1>2, <1>3, <2>1 DEF Walks
  <2>4. QED
    BY <2>2, <2>3, NumberedWalks
<1>4. ASSUME NEW k \in key[t[1]], sealed' = sealed + 1, NEW b \in Blocks, b = Block(k, t[1], sealed + 1),
             NEW p, Moves(t, p), p.at = "deliver", p.sealed = b
      PROVE  Numbered'
  <2>1. /\ thread'[t] = p /\ \A s \in Threads : s # t => thread'[s] = thread[s]
        /\ made \in Nat /\ sealed \in Nat /\ k \in Nat /\ k <= made /\ b.key = k /\ b.nr = sealed + 1
    <3>1. k <= made
      BY <1>2, <1>4 DEF Numbered
    <3>2. k \in Nat
      BY <1>2, <1>4 DEF GKTypeOK, AtMostOne
    <3>3. QED
      BY <1>4, <3>1, <3>2 DEF Moves, GKTypeOK, Block
  <2>2. \A c : Around(c)' => Around(c)
    <3>1. ASSUME NEW c, NEW s \in Threads, thread'[s].at \in {"groups", "apply"},
                 c \in thread'[s].got
          PROVE  Around(c)
      BY <1>4, <2>1, <3>1 DEF Around
    <3>2. QED
      BY <1>2, <3>1 DEF Around
  <2>3. \A c \in Blocks : Around(c) => c.key <= made /\ c.nr <= sealed
    BY DEF Numbered
  <2>4. \A c \in Blocks : c.nr \in Nat
    BY DEF Blocks
  <2>5. ~Around(b)
    BY <1>4, <2>1, <2>3
  <2>6. \A c \in Blocks : Around(c)' => c.key <= made' /\ c.nr <= sealed'
    BY <1>2, <1>4, <2>1, <2>2, <2>3, <2>4
  <2>7. \A s \in Threads : s # t /\ thread'[s].at = "deliver" =>
          /\ thread'[s] = thread[s] /\ thread[s].at = "deliver" /\ thread[s].sealed \in Blocks
          /\ thread[s].sealed.key <= made /\ thread[s].sealed.nr <= sealed /\ ~Around(thread[s].sealed)
    <3>1. \A s \in Threads : thread[s] \in Places
      BY DEF GKTypeOK
    <3>2. QED
      BY <2>1, <3>1, PlaceIs DEF Numbered, InHand
  <2>8. ASSUME NEW s \in Threads, thread'[s].at = "deliver"
        PROVE  InHand(thread[s].sealed)'
    <3>1. CASE s = t
      <4>1. ~Around(b)'
        BY <2>2, <2>5
      <4>2. thread'[s].sealed = b
        BY <1>4, <2>1, <3>1
      <4>3. b.key <= made' /\ b.nr <= sealed'
        BY <1>2, <1>4, <2>1
      <4>4. QED
        BY <4>1, <4>2, <4>3 DEF InHand
    <3>2. CASE s # t
      <4>1. PICK c \in Blocks : c = thread[s].sealed /\ c = thread'[s].sealed
        BY <2>7, <2>8, <3>2
      <4>2. c.key <= made /\ c.nr <= sealed /\ ~Around(c)
        BY <2>7, <2>8, <3>2, <4>1
      <4>3. ~Around(c)'
        BY <2>2, <4>2
      <4>4. c.nr <= sealed'
        BY <1>4, <2>1, <2>4, <4>1, <4>2
      <4>5. QED
        BY <1>2, <4>1, <4>2, <4>3, <4>4 DEF InHand
    <3>3. QED
      BY <3>1, <3>2
  <2>9. ASSUME NEW s \in Threads, s # t, thread'[s].at = "deliver"
        PROVE  thread'[s].sealed # b
    <3>1. thread'[s].sealed \in Blocks /\ thread'[s].sealed.nr <= sealed
      BY <2>7, <2>9
    <3>2. QED
      BY <2>1, <3>1
  <2>10. \A r, s \in Threads : r # s /\ thread'[r].at = "deliver" /\ thread'[s].at = "deliver" =>
           thread'[r].sealed # thread'[s].sealed
    <3>1. \A r, s \in Threads : r # s /\ r # t /\ s # t /\ thread'[r].at = "deliver"
             /\ thread'[s].at = "deliver" => thread'[r].sealed # thread'[s].sealed
      BY <2>7 DEF Numbered
    <3>2. thread'[t].sealed = b
      BY <1>4, <2>1
    <3>3. QED
      BY <2>9, <3>1, <3>2
  <2>11. \A u \in Users : \A n \in key'[u] \cup known'[u] : n <= made'
    BY <1>2 DEF Numbered
  <2>12. QED
    BY <2>6, <2>8, <2>10, <2>11 DEF Numbered
<1>5. CASE \E k \in key[t[1]] :
             /\ sealed' = sealed + 1 /\ Block(k, t[1], sealed + 1) \in Blocks
             /\ Moves(t, [at |-> "deliver", to |-> to, todo |-> thread[t].todo \ {to},
                          sealed |-> Block(k, t[1], sealed + 1)])
  <2>1. PICK k \in key[t[1]] :
             /\ sealed' = sealed + 1 /\ Block(k, t[1], sealed + 1) \in Blocks
             /\ Moves(t, [at |-> "deliver", to |-> to, todo |-> thread[t].todo \ {to},
                          sealed |-> Block(k, t[1], sealed + 1)])
    BY <1>5
  <2>2. PICK p : p = [at |-> "deliver", to |-> to, todo |-> thread[t].todo \ {to},
                      sealed |-> Block(k, t[1], sealed + 1)]
    OBVIOUS
  <2>3. p.at = "deliver" /\ p.sealed = Block(k, t[1], sealed + 1) /\ Moves(t, p)
    BY <2>1, <2>2
  <2>4. QED
    BY <1>4, <2>1, <2>3
<1>6. QED
  BY <1>1, <1>3, <1>5

LEMMA NumberedDelivered ==
  ASSUME GKTypeOK, Numbered, NEW t \in Threads, DeliverInvite(t)
  PROVE  Numbered'
<1>1. PICK to, b, p : to = thread[t].to /\ b = thread[t].sealed /\ p = Invite(thread[t].todo)
  OBVIOUS
<1>2. p.at \notin {"groups", "apply", "deliver"}
  BY <1>1 DEF Invite, Idle
<1>3. thread[t].at = "deliver" /\ b \in Blocks /\ to \in Users
  BY <1>1, DeliverIs
<1>4. CASE Walks(t, p)
  BY <1>2, <1>4, NumberedWalks
<1>5. CASE /\ Moves(t, p)
           /\ UNCHANGED <<key, applied, last, made, sealed, known>>
           /\ DOMAIN block' = DOMAIN block \cup {to}
           /\ block'[to] = b
           /\ \A v \in DOMAIN block \ {to} : block'[v] = block[v]
  <2>1. thread'[t] = p /\ \A s \in Threads : s # t => thread'[s] = thread[s]
    BY <1>5 DEF Moves
  <2>2. \A c : Around(c)' => Around(c) \/ c = b
    <3>1. ASSUME NEW c, NEW s \in Threads, thread'[s].at \in {"groups", "apply"},
                 c \in thread'[s].got
          PROVE  Around(c)
      BY <1>2, <2>1, <3>1 DEF Around
    <3>2. ASSUME NEW c, NEW v \in DOMAIN block', c = block'[v] PROVE Around(c) \/ c = b
      BY <1>5, <3>2 DEF Around
    <3>3. ASSUME NEW c, NEW u \in Users, c \in applied'[u] PROVE Around(c)
      BY <1>5, <3>3 DEF Around
    <3>4. QED
      BY <3>1, <3>2, <3>3 DEF Around
  <2>3. b.key <= made /\ b.nr <= sealed
    BY <1>1, <1>3 DEF Numbered, InHand
  <2>4. \A c \in Blocks : Around(c)' => c.key <= made' /\ c.nr <= sealed'
    BY <1>5, <2>2, <2>3 DEF Numbered
  <2>5. \A s \in Threads : thread'[s].at = "deliver" =>
          /\ s # t /\ thread'[s] = thread[s] /\ thread[s].at = "deliver"
          /\ thread[s].sealed.key <= made /\ thread[s].sealed.nr <= sealed
          /\ ~Around(thread[s].sealed) /\ thread[s].sealed # b
    BY <1>1, <1>2, <1>3, <2>1 DEF Numbered, InHand
  <2>6. ASSUME NEW s \in Threads, thread'[s].at = "deliver"
        PROVE  InHand(thread[s].sealed)'
    <3>1. PICK c : c = thread[s].sealed /\ c = thread'[s].sealed
      BY <2>5, <2>6
    <3>2. c.key <= made /\ c.nr <= sealed /\ ~Around(c)'
      BY <2>2, <2>5, <2>6, <3>1
    <3>3. QED
      BY <1>5, <3>1, <3>2 DEF InHand
  <2>7. \A r, s \in Threads : r # s /\ thread'[r].at = "deliver" /\ thread'[s].at = "deliver" =>
          thread'[r].sealed # thread'[s].sealed
    BY <2>5 DEF Numbered
  <2>8. \A u \in Users : \A n \in key'[u] \cup known'[u] : n <= made'
    BY <1>5 DEF Numbered
  <2>9. QED
    BY <2>4, <2>6, <2>7, <2>8 DEF Numbered
<1>6. QED
  BY <1>1, <1>4, <1>5, DeliverIs

LEMMA NumberedInit == Init => Numbered
<1> SUFFICES ASSUME Init PROVE Numbered
  OBVIOUS
<1>1. \A t \in Threads : thread[t].at = "idle"
  BY DEF Init, Idle
<1>2. \A u \in DOMAIN block : block[u] = Block(0, Creator, 0)
  BY DEF Init
<1>3. ASSUME NEW b, Around(b) PROVE b = Block(0, Creator, 0)
  <2>1. \A u \in Users : \A c \in applied[u] : c = Block(0, Creator, 0)
    BY <1>2 DEF Init
  <2>2. QED
    BY <1>1, <1>2, <1>3, <2>1 DEF Around
<1>4. Block(0, Creator, 0).key = 0 /\ Block(0, Creator, 0).nr = 0 /\ made = 0 /\ sealed = 0
  BY DEF Block, Init
<1>5. \A u \in Users : \A n \in key[u] \cup known[u] : n <= made
  BY DEF Init
<1>6. QED
  BY <1>1, <1>3, <1>4, <1>5 DEF Numbered

LEMMA NumberedStep ==
  ASSUME GKTypeOK, Numbered, [Next]_vars
  PROVE  Numbered'
<1>0. made \in Nat /\ Idle \in Places /\ Idle.at = "idle"
  BY DEF GKTypeOK, Places, Idle
<1>1. CASE UNCHANGED vars
  <2>1. UNCHANGED <<block, key, applied, thread, made, sealed, known>>
    BY <1>1 DEF vars, relayVars, clientVars, history
  <2>2. QED
    BY <2>1 DEF Numbered, Around, InHand
<1>2. ASSUME NEW t \in Threads, CheckBlock(t) PROVE Numbered'
  <2>1. thread[t].at = "groups"
    BY <1>2, CheckWalks
  <2>2. PICK p : /\ Walks(t, p)
                 /\ \/ p \in {Idle, [at |-> "check"]}
                    \/ \E b \in Blocks : p = [at |-> "apply", got |-> {b}] /\ thread[t].got = {b}
    BY <1>2, CheckWalks
  <2>3. p.at \in {"idle", "check"} \/ (p.at = "apply" /\ p.got = thread[t].got)
    BY <2>2 DEF Idle
  <2>4. \A b \in thread[t].got : Around(b)
    BY <2>1 DEF Around
  <2>5. QED
    BY <2>2, <2>3, <2>4, NumberedWalks
<1>11. ASSUME NEW t \in Threads, ApplyBlock(t) PROVE Numbered'
  <2>1. thread[t].at = "apply" /\ t[1] \in Users
    BY <1>11, ApplyIs
  <2>2. PICK p \in {Idle, [at |-> "check"]}, b \in Blocks :
          /\ Moves(t, p) /\ UNCHANGED <<members, block, last, made, sealed>>
          /\ thread[t].got = {b}
          /\ key' = [key EXCEPT ![t[1]] = {b.key}]
          /\ applied' = [applied EXCEPT ![t[1]] = {b}]
          /\ known' = [known EXCEPT ![t[1]] = @ \cup {b.key}]
    BY <1>11, ApplyIs
  <2>3. p.at \notin {"groups", "apply", "deliver"}
    BY DEF Idle
  <2>4. Around(b)
    BY <2>1, <2>2 DEF Around
  <2>5. b.key <= made
    BY <2>4 DEF Numbered
  <2>6. /\ \A u \in Users : key'[u] = IF u = t[1] THEN {b.key} ELSE key[u]
        /\ \A u \in Users : known'[u] = IF u = t[1] THEN known[u] \cup {b.key} ELSE known[u]
        /\ \A u \in Users : applied'[u] = IF u = t[1] THEN {b} ELSE applied[u]
    BY <2>2 DEF GKTypeOK
  <2>7. \A u \in Users : \A n \in key'[u] \cup known'[u] : n <= made'
    BY <2>2, <2>5, <2>6 DEF Numbered
  <2>8. \A u \in Users : \A c \in applied'[u] : Around(c)
    BY <2>4, <2>6 DEF Around
  <2>9. made <= made' /\ made' \in Nat
    BY <1>0, <2>2
  <2>10. QED
    BY <2>2, <2>3, <2>7, <2>8, <2>9, NumberedMoves
<1>3. ASSUME NEW t \in Threads, ListToCheck(t) \/ ListToRekey(t) PROVE Numbered'
  <2>1. PICK place \in {"members", "rekey"}, got \in {MembersFor(t[1]), {}} :
          Walks(t, [at |-> place, got |-> got])
    BY <1>3, ListWalks
  <2>2. QED
    BY <2>1, NumberedWalks
<1>4. ASSUME NEW t \in Threads, ObserveMembers(t) PROVE Numbered'
  <2>1. PICK p \in {Idle, [at |-> "relist"]} : Moves(t, p)
    BY <1>4, ObserveIs
  <2>2. UNCHANGED <<members, block, key, applied, made, sealed, known>>
    BY <1>4, ObserveIs
  <2>3. \A u \in Users : \A n \in key'[u] \cup known'[u] : n <= made'
    BY <2>2 DEF Numbered
  <2>4. \A u \in Users : \A c \in applied'[u] : Around(c)
    BY <2>2 DEF Around
  <2>5. p.at \notin {"groups", "apply", "deliver"} /\ made <= made' /\ made' \in Nat
    BY <1>0, <2>2 DEF Idle
  <2>6. QED
    BY <2>1, <2>2, <2>3, <2>4, <2>5, NumberedMoves
<1>5. ASSUME NEW t \in Threads, NewKey(t) PROVE Numbered'
  <2>1. PICK got : got = thread[t].got
    OBVIOUS
  <2>2. t[1] \in Users
    BY <1>5, NewKeyIs
  <2>3. CASE Walks(t, Idle)
    BY <1>0, <2>3, NumberedWalks
  <2>4. CASE /\ Moves(t, Invite(got \ {t[1]}))
             /\ UNCHANGED <<members, block, applied, sealed>>
             /\ made' = made + 1
             /\ key' = [key EXCEPT ![t[1]] = {made + 1}]
             /\ known' = [known EXCEPT ![t[1]] = @ \cup {made + 1}]
    <3>1. PICK p : p = Invite(got \ {t[1]})
      OBVIOUS
    <3>2. p.at \notin {"groups", "apply", "deliver"} /\ made <= made' /\ made' \in Nat
      BY <1>0, <2>4, <3>1 DEF Invite, Idle
    <3>3. /\ \A u \in Users : key'[u] = IF u = t[1] THEN {made + 1} ELSE key[u]
          /\ \A u \in Users : known'[u] = IF u = t[1] THEN known[u] \cup {made + 1} ELSE known[u]
      BY <2>4 DEF GKTypeOK
    <3>4. \A u \in Users : \A n \in key'[u] \cup known'[u] : n <= made'
      <4>1. SUFFICES ASSUME NEW u \in Users, NEW n \in key'[u] \cup known'[u] PROVE n <= made'
        OBVIOUS
      <4>2. n = made + 1 \/ n \in key[u] \cup known[u]
        BY <3>3, ZenonT(40)
      <4>3. n \in key[u] \cup known[u] => n \in Nat /\ n <= made
        BY DEF Numbered, GKTypeOK, AtMostOne
      <4>4. QED
        BY <1>0, <2>4, <4>2, <4>3
    <3>5. \A u \in Users : \A c \in applied'[u] : Around(c)
      BY <2>4 DEF Around
    <3>6. QED
      BY <2>4, <3>1, <3>2, <3>4, <3>5, NumberedMoves
  <2>5. QED
    BY <1>5, <2>1, <2>3, <2>4, NewKeyIs
<1>6. ASSUME NEW t \in Threads, ForgetGroup(t) PROVE Numbered'
  <2>1. /\ t[1] \in Users /\ Moves(t, Idle)
        /\ UNCHANGED <<members, block, made, sealed, known>>
        /\ \A u \in Users : key'[u] \subseteq key[u] /\ applied'[u] \subseteq applied[u]
    BY <1>6, ForgetIs DEF GKTypeOK
  <2>2. \A u \in Users : \A n \in key'[u] \cup known'[u] : n <= made'
    BY <2>1 DEF Numbered
  <2>3. \A u \in Users : \A c \in applied'[u] : Around(c)
    BY <2>1 DEF Around
  <2>4. QED
    BY <1>0, <2>1, <2>2, <2>3, NumberedMoves
<1>7. ASSUME NEW t \in Threads, LoseRequest(t) PROVE Numbered'
  BY <1>0, <1>7, LoseIs, NumberedWalks
<1>8. ASSUME NEW u \in Users, NEW v \in Users,
             RequestInvite(u, v) \/ RequestGroups(u) \/ RequestKick(u, v) \/ RequestLeave(u)
      PROVE  Numbered'
  <2>1. PICK t : t = <<u, "req">>
    OBVIOUS
  <2>2. PICK kind \in Kinds, p \in {[at |-> "seal", todo |-> {v}], [at |-> "relist"], [at |-> "left"],
                                    [at |-> "groups", got |-> BlocksOf(u)]} : Requested(u, kind, p)
    BY <1>8, RequestsAre DEF Kinds
  <2>3. p \in Places /\ p.at # "deliver" /\ (p.at \in {"groups", "apply"} => \A b \in p.got : Around(b))
    <3>1. /\ [at |-> "seal", todo |-> {v}] \in Places /\ [at |-> "relist"] \in Places
          /\ [at |-> "left"] \in Places
      BY DEF Places
    <3>2. [at |-> "groups", got |-> BlocksOf(u)] \in Places
      BY AnswersOK DEF Places
    <3>3. \A b \in BlocksOf(u) : Around(b)
      BY DEF BlocksOf, Around
    <3>4. QED
      BY <3>1, <3>2, <3>3
  <2>4. /\ Go(t, p) /\ t \in Threads /\ UNCHANGED <<key, applied, last, made, sealed, known>>
        /\ Moves(t, p)
    BY <2>1, <2>2, <2>3, ThreadIs, MovesTo DEF Requested, clientVars
  <2>5. \A w \in DOMAIN block' : w \in DOMAIN block /\ block'[w] = block[w]
    <3>1. UNCHANGED block \/ \E w \in Users : RemoveMember(w)
      BY <1>8, RequestsAre DEF relayVars
    <3>2. QED
      BY <3>1, RemovedIs
  <2>6. \A w \in Users : \A n \in key'[w] \cup known'[w] : n <= made'
    BY <2>4 DEF Numbered
  <2>7. \A w \in Users : \A c \in applied'[w] : Around(c)
    BY <2>4 DEF Around
  <2>8. made <= made' /\ made' \in Nat
    BY <1>0, <2>4
  <2>9. QED
    BY <2>3, <2>4, <2>5, <2>6, <2>7, <2>8, NumberedMoves
<1>9. ASSUME NEW u \in Users, FetchGroups(u) PROVE Numbered'
  <2>1. PICK got \in {BlocksOf(u), {}} : Walks(<<u, "poll">>, [at |-> "groups", got |-> got])
    BY <1>9, FetchWalks
  <2>2. \A b \in got : Around(b)
    BY DEF BlocksOf, Around
  <2>3. QED
    BY <2>1, <2>2, NumberedWalks
<1>10. QED
  BY <1>1, <1>2, <1>3, <1>4, <1>5, <1>6, <1>7, <1>8, <1>9, <1>11, NumberedSealed, NumberedDelivered
     DEF Next, Work

\* What a step, other than a request or a new key, does to the order.
Keeps(G) ==
  /\ Sound(G)'
  /\ Resting(G) => Resting(G)'
  /\ Shrinking =>
       /\ Shrinking' /\ members' = members
       /\ Awaited => Awaited'
       /\ Covered(G) => Covered(G)'
  /\ Growing(G) => Growing(G)'

Orderly(G) == Sound(G) /\ (Resting(G) \/ Shrinking \/ Growing(G))

\* A thread goes to a place that fits, and nothing else changes.
LEMMA WalkKeeps ==
  ASSUME GKTypeOK, NEW G \in SUBSET Nat, Sound(G), NEW t, NEW p, Moves(t, p),
         UNCHANGED <<members, block, key, applied, last>>,
         SoundAt(t, p, G),
         Resting(G) => RestsAt(t, p),
         Shrinking =>
           /\ ShrinksAt(t, p)
           /\ thread[t].at \in {"relist", "rekey"} => p.at \in {"relist", "rekey"}
           /\ \A v \in Users : Invites(thread[t], v) => Invites(p, v),
         Growing(G) => GrowsAt(t, p)
  PROVE  Keeps(G)
<1>1. t \in Threads /\ thread'[t] = p /\ \A s \in Threads : s # t => thread'[s] = thread[s]
  BY DEF Moves
<1>2. Sound(G)'
  <2>1. ASSUME NEW s \in Threads PROVE SoundAt(s, thread[s], G)'
    <3>1. PICK q : q = thread'[s]
      OBVIOUS
    <3>2. SoundAt(s, q, G)
      BY <1>1, <3>1 DEF Sound
    <3>3. SoundAt(s, q, G)'
      BY <3>2 DEF SoundAt, SafeFor, OfGroup, Good
    <3>4. QED
      BY <3>1, <3>3 DEF SoundAt
  <2>2. QED
    BY <2>1 DEF Sound
<1>3. ASSUME Resting(G) PROVE Resting(G)'
  <2>1. ASSUME NEW s \in Threads PROVE RestsAt(s, thread[s])'
    <3>1. PICK q : q = thread'[s]
      OBVIOUS
    <3>2. RestsAt(s, q)
      BY <1>1, <1>3, <3>1 DEF Resting
    <3>3. QED
      BY <3>1, <3>2 DEF RestsAt
  <2>2. QED
    BY <1>3, <2>1 DEF Resting, BlocksOf, Good
<1>4. ASSUME Shrinking PROVE Shrinking'
  <2>1. ASSUME NEW s \in Threads PROVE ShrinksAt(s, thread[s])'
    <3>1. PICK q : q = thread'[s]
      OBVIOUS
    <3>2. ShrinksAt(s, q)
      BY <1>1, <1>4, <3>1 DEF Shrinking
    <3>3. QED
      BY <3>1, <3>2 DEF ShrinksAt, Invites
  <2>2. QED
    BY <2>1 DEF Shrinking
<1>5. ASSUME Shrinking, Awaited PROVE Awaited'
  <2>1. PICK e \in members : Lowest(e, members) /\ (Due(e) \/ Changes(e))
    BY <1>5 DEF Awaited
  <2>2. Due(e) => Due(e)'
    BY DEF Due, Fewer
  <2>3. ASSUME NEW s \in Threads, s[1] = e, thread[s].at \in {"relist", "rekey"}
        PROVE  thread'[s].at \in {"relist", "rekey"}
    BY <1>1, <1>5, <2>3
  <2>4. Changes(e) => Changes(e)'
    BY <2>3 DEF Changes
  <2>5. QED
    BY <2>1, <2>2, <2>4 DEF Awaited, Lowest
<1>6. ASSUME Shrinking, Covered(G) PROVE Covered(G)'
  <2>1. ASSUME NEW u \in Users, NEW s \in Threads, Invites(thread[s], u)
        PROVE  Invites(thread'[s], u)
    BY <1>1, <1>6, <2>1
  <2>2. ASSUME NEW u \in Users, \E s \in Threads : Invites(thread[s], u)
        PROVE  (\E s \in Threads : Invites(thread[s], u))'
    BY <2>1, <2>2 DEF Invites
  <2>3. members \subseteq Users
    BY DEF GKTypeOK
  <2>4. QED
    BY <1>6, <2>2, <2>3 DEF Covered, Has, Good, Comes
<1>7. ASSUME Growing(G) PROVE Growing(G)'
  <2>1. ASSUME NEW s \in Threads PROVE GrowsAt(s, thread[s])'
    <3>1. PICK q : q = thread'[s]
      OBVIOUS
    <3>2. GrowsAt(s, q)
      BY <1>1, <1>7, <3>1 DEF Growing
    <3>3. QED
      BY <3>1, <3>2 DEF GrowsAt
  <2>2. QED
    BY <1>7, <2>1 DEF Growing, Has, Good, Comes
<1>8. QED
  BY <1>2, <1>3, <1>4, <1>5, <1>6, <1>7 DEF Keeps

LEMMA FetchKeeps ==
  ASSUME GKTypeOK, NEW G \in SUBSET Nat, Sound(G), NEW u \in Users, FetchGroups(u)
  PROVE  Keeps(G)
<1>1. PICK t, got : /\ t = <<u, "poll">> /\ got \in {BlocksOf(u), {}}
                    /\ Walks(t, [at |-> "groups", got |-> got])
  BY FetchWalks
<1>2. PICK p : p = [at |-> "groups", got |-> got]
  OBVIOUS
<1>3. /\ Moves(t, p) /\ UNCHANGED <<members, block, key, applied, last>>
      /\ t[1] = u /\ t[2] = "poll" /\ p.at = "groups" /\ p.got = got /\ thread[t].at = "idle"
  BY <1>1, <1>2, ThreadIs DEF Walks, FetchGroups, Idle
<1>4. SafeFor(u, got, G) /\ (u \notin members => got = {})
  BY <1>1 DEF BlocksOf, SafeFor, OfGroup, Sound
<1>5. SoundAt(t, p, G) /\ ShrinksAt(t, p) /\ GrowsAt(t, p)
  BY <1>3, <1>4 DEF SoundAt, ShrinksAt, GrowsAt, Invites
<1>6. Resting(G) => RestsAt(t, p)
  BY <1>1, <1>3 DEF Resting, RestsAt, BlocksOf
<1>7. \A v \in Users : Invites(thread[t], v) => Invites(p, v)
  BY <1>3 DEF Invites
<1>8. QED
  BY <1>3, <1>5, <1>6, <1>7, WalkKeeps

LEMMA ListKeeps ==
  ASSUME GKTypeOK, NEW G \in SUBSET Nat, Sound(G), NEW t \in Threads,
         ListToCheck(t) \/ ListToRekey(t), done'["lost"] = done["lost"]
  PROVE  Keeps(G)
<1>0. done["lost"] \in Nat
  BY DEF GKTypeOK, Kinds
<1>1. CASE /\ thread[t].at = "check"
           /\ \E got \in {MembersFor(t[1]), {}} : Walks(t, [at |-> "members", got |-> got])
  <2>1. PICK got \in {MembersFor(t[1]), {}} : Walks(t, [at |-> "members", got |-> got])
    BY <1>1
  <2>2. PICK p : p = [at |-> "members", got |-> got]
    OBVIOUS
  <2>3. /\ Moves(t, p) /\ UNCHANGED <<members, block, key, applied, last>>
        /\ p.at = "members" /\ p.got = got /\ thread[t].at = "check" /\ got \in {members, {}}
    BY <1>1, <2>1, <2>2 DEF Walks, MembersFor
  <2>4. SoundAt(t, p, G) /\ ShrinksAt(t, p) /\ GrowsAt(t, p) /\ RestsAt(t, p)
    BY <2>3 DEF SoundAt, ShrinksAt, GrowsAt, RestsAt, Invites
  <2>5. \A v \in Users : Invites(thread[t], v) => Invites(p, v)
    BY <2>3 DEF Invites
  <2>6. QED
    BY <2>3, <2>4, <2>5, WalkKeeps
<1>2. CASE thread[t].at = "relist" /\ Walks(t, [at |-> "rekey", got |-> MembersFor(t[1])])
  <2>1. PICK p : p = [at |-> "rekey", got |-> MembersFor(t[1])]
    OBVIOUS
  <2>2. /\ Moves(t, p) /\ UNCHANGED <<members, block, key, applied, last>>
        /\ p.at = "rekey" /\ p.got = MembersFor(t[1]) /\ thread[t].at = "relist"
    BY <1>2, <2>1 DEF Walks
  <2>3. SoundAt(t, p, G)
    BY <2>2 DEF SoundAt
  <2>4. ~Resting(G)
    BY <2>2 DEF Resting, RestsAt
  <2>5. Shrinking => ShrinksAt(t, p)
    BY <2>2 DEF Shrinking, ShrinksAt, Invites, MembersFor
  <2>6. Growing(G) => GrowsAt(t, p)
    BY <2>2 DEF Growing, GrowsAt, MembersFor
  <2>7. \A v \in Users : Invites(thread[t], v) => Invites(p, v)
    BY <2>2 DEF Invites
  <2>8. QED
    BY <2>2, <2>3, <2>4, <2>5, <2>6, <2>7, WalkKeeps
<1>3. QED
  BY <1>0, <1>1, <1>2, ListWalks

LEMMA ObserveKeeps ==
  ASSUME GKTypeOK, NEW G \in SUBSET Nat, Orderly(G), NEW t \in Threads, ObserveMembers(t)
  PROVE  Keeps(G)
<1>1. PICK u, got : u = t[1] /\ got = thread[t].got
  OBVIOUS
<1>2. /\ thread[t].at = "members" /\ u \in Users /\ got \in SUBSET Users
      /\ UNCHANGED <<members, block, key, applied>>
      /\ last' = IF u \in got THEN [last EXCEPT ![u] = {got}] ELSE last
  BY <1>1, ObserveIs
<1>3. PICK p \in {Idle, [at |-> "relist"]} :
        Moves(t, p) /\ (p.at = "relist" <=> u \in got /\ Elected(u, got))
  BY <1>1, ObserveIs DEF Idle
<1>4. /\ p.at \in {"idle", "relist"}
      /\ thread'[t] = p /\ \A s \in Threads : s # t => thread'[s] = thread[s]
  BY <1>3 DEF Idle, Moves
<1>5. /\ \A v \in Users : v # u => last'[v] = last[v]
      /\ u \in got => last'[u] = {got}
      /\ u \notin got => last'[u] = last[u]
  BY <1>2 DEF GKTypeOK
<1>6. got \subseteq members /\ (u \in got => u \in members)
  BY <1>1, <1>2 DEF Orderly, Resting, Shrinking, Growing, RestsAt, ShrinksAt, GrowsAt
<1>7. Sound(G)'
  <2>1. ASSUME NEW s \in Threads PROVE SoundAt(s, thread[s], G)'
    <3>1. PICK q : q = thread'[s]
      OBVIOUS
    <3>2. SoundAt(s, q, G)
      BY <1>4, <3>1 DEF Orderly, Sound, SoundAt
    <3>3. SoundAt(s, q, G)'
      BY <1>2, <3>2 DEF SoundAt, SafeFor, OfGroup, Good
    <3>4. QED
      BY <3>1, <3>3 DEF SoundAt
  <2>2. QED
    BY <1>2, <2>1 DEF Sound, Orderly
<1>8. ASSUME Resting(G) PROVE Resting(G)'
  <2>1. got \in {members, {}} /\ \A v \in members : last[v] = {members}
    BY <1>1, <1>2, <1>8 DEF Resting, RestsAt
  <2>2. u \in got => got = members /\ u \in members /\ last[u] = {members}
    BY <2>1
  <2>3. ~(u \in got /\ Elected(u, got))
    BY <2>2 DEF Elected
  <2>4. p.at = "idle"
    BY <1>3, <1>4, <2>3
  <2>5. ASSUME NEW s \in Threads PROVE RestsAt(s, thread[s])'
    <3>1. PICK q : q = thread'[s]
      OBVIOUS
    <3>2. RestsAt(s, q)
      BY <1>4, <1>8, <2>4, <3>1 DEF Resting, RestsAt
    <3>3. QED
      BY <1>2, <3>1, <3>2 DEF RestsAt
  <2>6. \A v \in members : last'[v] = {members}
    <3>1. members \subseteq Users
      BY DEF GKTypeOK
    <3>2. QED
      BY <1>5, <2>1, <2>2, <3>1
  <2>7. QED
    BY <1>2, <1>8, <2>5, <2>6 DEF Resting, BlocksOf, Good
<1>9. ASSUME Shrinking PROVE Shrinking'
  <2>1. ASSUME NEW s \in Threads PROVE ShrinksAt(s, thread[s])'
    <3>1. PICK q : q = thread'[s]
      OBVIOUS
    <3>2. ShrinksAt(s, q)
      <4>1. CASE s = t
        BY <1>1, <1>3, <1>4, <1>6, <3>1, <4>1 DEF ShrinksAt, Invites
      <4>2. CASE s # t
        BY <1>4, <1>9, <3>1, <4>2 DEF Shrinking
      <4>3. QED
        BY <4>1, <4>2
    <3>3. QED
      BY <1>2, <3>1, <3>2 DEF ShrinksAt, Invites
  <2>2. QED
    BY <2>1 DEF Shrinking
<1>10. ASSUME Shrinking, Awaited PROVE Awaited'
  <2>1. PICK e \in members : Lowest(e, members) /\ (Due(e) \/ Changes(e))
    BY <1>10 DEF Awaited
  <2>2. ASSUME Changes(e) PROVE Changes(e)'
    <3>1. PICK s \in Threads : s[1] = e /\ thread[s].at \in {"relist", "rekey"}
      BY <2>2 DEF Changes
    <3>2. s # t
      BY <1>2, <3>1
    <3>3. thread'[s] = thread[s]
      BY <1>4, <3>2
    <3>4. QED
      BY <3>1, <3>3 DEF Changes
  <2>3. CASE Due(e) /\ (e # u \/ u \notin got)
    <3>1. last'[e] = last[e]
      <4>1. e \in Users
        BY DEF GKTypeOK
      <4>2. QED
        BY <1>5, <2>3, <4>1
    <3>2. Due(e)'
      BY <1>2, <2>3, <3>1 DEF Due, Fewer
    <3>3. QED
      BY <1>2, <2>1, <3>2 DEF Awaited, Lowest
  <2>4. CASE Due(e) /\ e = u /\ u \in got
    <3>1. got = members
      BY <1>1, <1>2, <1>10, <2>4 DEF Shrinking, ShrinksAt
    <3>2. u = Min(got)
      <4>1. got \subseteq Nat /\ got # {} /\ u \in got /\ \A x \in got : u <= x
        BY <1>2, <2>1, <2>4, <3>1, NamesAssumption DEF Lowest
      <4>2. PICK m \in got : m = Min(got) /\ m <= u
        BY <4>1, MinIs
      <4>3. m \in Nat /\ u \in Nat /\ u <= m
        BY <4>1, <4>2
      <4>4. QED
        BY <4>2, <4>3
    <3>3. Elected(u, got)
      BY <2>4, <3>1, <3>2 DEF Elected, Due, Fewer
    <3>4. Changes(e)'
      BY <1>1, <1>3, <1>4, <2>4, <3>3 DEF Changes
    <3>5. QED
      BY <1>2, <2>1, <3>4 DEF Awaited, Lowest
  <2>5. QED
    BY <1>2, <2>1, <2>2, <2>3, <2>4 DEF Awaited, Lowest
<1>11. ASSUME Covered(G) PROVE Covered(G)'
  <2>1. ASSUME NEW v \in members, NEW s \in Threads, Invites(thread[s], v)
        PROVE  (\E r \in Threads : Invites(thread[r], v))'
    <3>1. s # t
      BY <1>2, <2>1 DEF Invites
    <3>2. thread'[s] = thread[s]
      BY <1>4, <3>1
    <3>3. QED
      BY <2>1, <3>2 DEF Invites
  <2>2. QED
    BY <1>2, <1>11, <2>1 DEF Covered, Has, Good, Comes
<1>12. ASSUME Growing(G) PROVE Growing(G)'
  <2>1. ASSUME NEW s \in Threads PROVE GrowsAt(s, thread[s])'
    <3>1. PICK q : q = thread'[s]
      OBVIOUS
    <3>2. GrowsAt(s, q)
      <4>1. CASE s = t
        BY <1>1, <1>3, <1>4, <1>6, <3>1, <4>1 DEF GrowsAt
      <4>2. CASE s # t
        BY <1>4, <1>12, <3>1, <4>2 DEF Growing
      <4>3. QED
        BY <4>1, <4>2
    <3>3. QED
      BY <1>2, <3>1, <3>2 DEF GrowsAt
  <2>2. QED
    BY <1>2, <1>12, <2>1 DEF Growing, Has, Good, Comes
<1>13. QED
  BY <1>2, <1>7, <1>8, <1>9, <1>10, <1>11, <1>12 DEF Keeps

LEMMA SealKeeps ==
  ASSUME GKTypeOK, NEW G \in SUBSET Nat, Orderly(G), NEW t \in Threads, SealKey(t)
  PROVE  Keeps(G)
<1>1. PICK u, todo : u = t[1] /\ todo = thread[t].todo
  OBVIOUS
<1>2. /\ thread[t].at = "seal" /\ u \in Users /\ todo \in SUBSET Users
      /\ UNCHANGED <<members, block, key, applied, last>>
  BY <1>1, SealIs
<1>3. PICK to \in todo :
        \/ key[u] = {} /\ Moves(t, Invite(todo \ {to}))
        \/ \E k \in key[u] :
             Moves(t, [at |-> "deliver", to |-> to, todo |-> todo \ {to},
                       sealed |-> Block(k, u, sealed + 1)])
  BY <1>1, SealIs
<1>4. /\ u \in members => Good(u, G)
      /\ Resting(G) => u \notin members
      /\ Shrinking => u \in members /\ todo \subseteq members
      /\ Growing(G) => u \in members
  <2>1. u \in members => Good(u, G)
    BY <1>1, <1>2 DEF Orderly, Sound, SoundAt
  <2>2. Resting(G) => u \notin members
    BY <1>1, <1>2 DEF Resting, RestsAt
  <2>3. Shrinking => u \in members /\ todo \subseteq members
    <3>1. Shrinking => ShrinksAt(t, thread[t])
      BY DEF Shrinking
    <3>2. \A v \in todo : v \in Users /\ Invites(thread[t], v)
      BY <1>1, <1>2 DEF Invites
    <3>3. QED
      BY <1>1, <1>2, <3>1, <3>2 DEF ShrinksAt
  <2>4. Growing(G) => u \in members
    BY <1>1, <1>2 DEF Growing, GrowsAt
  <2>5. QED
    BY <2>1, <2>2, <2>3, <2>4
<1>5. CASE key[u] = {} /\ Moves(t, Invite(todo \ {to}))
  <2>1. PICK p : p = Invite(todo \ {to})
    OBVIOUS
  <2>2. p.at \in {"seal", "idle"} /\ Moves(t, p) /\ u \notin members
    BY <1>4, <1>5, <2>1 DEF Invite, Idle, Good
  <2>3. SoundAt(t, p, G) /\ RestsAt(t, p)
    BY <1>1, <2>2 DEF SoundAt, RestsAt
  <2>4. QED
    BY <1>2, <1>4, <2>2, <2>3, WalkKeeps DEF Orderly
<1>6. ASSUME NEW k \in key[u], NEW p,
             p = [at |-> "deliver", to |-> to, todo |-> todo \ {to},
                  sealed |-> Block(k, u, sealed + 1)],
             Moves(t, p)
      PROVE  Keeps(G)
  <2>1. /\ p.at = "deliver" /\ p.to = to /\ p.todo = todo \ {to} /\ p.sealed.key = k
    BY <1>6 DEF Block
  <2>2. SoundAt(t, p, G)
    BY <1>1, <1>4, <2>1 DEF SoundAt, Good
  <2>3. Resting(G) => RestsAt(t, p)
    BY <1>1, <1>4, <2>1 DEF RestsAt
  <2>4. Shrinking => ShrinksAt(t, p)
    BY <1>1, <1>3, <1>4, <2>1 DEF ShrinksAt, Invites
  <2>5. Growing(G) => GrowsAt(t, p)
    BY <1>1, <1>4, <2>1 DEF GrowsAt
  <2>6. \A v \in Users : Invites(thread[t], v) => Invites(p, v)
    BY <1>1, <1>2, <2>1 DEF Invites
  <2>7. QED
    BY <1>2, <1>6, <2>2, <2>3, <2>4, <2>5, <2>6, WalkKeeps DEF Orderly
<1>7. QED
  BY <1>3, <1>5, <1>6

LEMMA CheckKeeps ==
  ASSUME GKTypeOK, NEW G \in SUBSET Nat, Orderly(G), NEW t \in Threads, CheckBlock(t)
  PROVE  Keeps(G)
<1>1. PICK u, got : u = t[1] /\ got = thread[t].got
  OBVIOUS
<1>2. thread[t].at = "groups" /\ u \in Users
  BY <1>1, CheckWalks
<1>3. PICK p : /\ Walks(t, p)
               /\ \/ p.at \in {"idle", "check"}
                  \/ \E b \in Blocks : /\ p.at = "apply" /\ p.got = {b}
                                       /\ got = {b} /\ b \notin applied[u]
  BY <1>1, CheckWalks DEF Idle
<1>4. \A v \in Users : ~Invites(thread[t], v) /\ ~Invites(p, v)
  BY <1>2, <1>3 DEF Invites
<1>5. CASE p.at \in {"idle", "check"}
  <2>1. SoundAt(t, p, G) /\ RestsAt(t, p) /\ ShrinksAt(t, p) /\ GrowsAt(t, p)
    BY <1>4, <1>5 DEF SoundAt, RestsAt, ShrinksAt, GrowsAt
  <2>2. QED
    BY <1>2, <1>3, <1>4, <2>1, WalkKeeps DEF Orderly, Walks
<1>6. CASE \E b \in Blocks : p.at = "apply" /\ p.got = {b} /\ got = {b} /\ b \notin applied[u]
  <2>1. p.at = "apply" /\ p.got = got /\ got # {} /\ ~(got \subseteq applied[u])
    BY <1>6
  <2>2. ~Resting(G)
    BY <1>1, <1>2, <2>1 DEF Resting, RestsAt
  <2>3. t[2] = "poll"
    <3>1. t[2] \in {"poll", "req"}
      BY DEF Threads
    <3>2. t[2] = "req" => got = {}
      BY <1>1, <1>2, <2>2 DEF Orderly, Shrinking, ShrinksAt, Growing, GrowsAt
    <3>3. QED
      BY <2>1, <3>1, <3>2
  <2>4. SoundAt(t, p, G)
    <3>1. SafeFor(u, got, G) /\ u \in members
      BY <1>1, <1>2, <2>1, <2>3 DEF Orderly, Sound, SoundAt
    <3>2. OfGroup(u, got, G)
      BY <2>1, <3>1 DEF SafeFor
    <3>3. QED
      BY <1>1, <2>1, <3>1, <3>2 DEF SoundAt
  <2>5. ShrinksAt(t, p) /\ GrowsAt(t, p)
    BY <1>4, <2>1, <2>3 DEF ShrinksAt, GrowsAt
  <2>6. QED
    BY <1>2, <1>3, <1>4, <2>2, <2>4, <2>5, WalkKeeps DEF Orderly, Walks
<1>7. QED
  BY <1>3, <1>5, <1>6

LEMMA ApplyKeeps ==
  ASSUME GKTypeOK, NEW G \in SUBSET Nat, Orderly(G), NEW t \in Threads, ApplyBlock(t)
  PROVE  Keeps(G)
<1>1. PICK u, got : u = t[1] /\ got = thread[t].got
  OBVIOUS
<1>2. thread[t].at = "apply" /\ u \in Users
  BY <1>1, ApplyIs
<1>3. PICK p \in {Idle, [at |-> "check"]} :
        /\ Moves(t, p) /\ UNCHANGED <<members, block, last>>
        /\ \E b \in Blocks :
             /\ got = {b}
             /\ key' = [key EXCEPT ![u] = {b.key}]
             /\ applied' = [applied EXCEPT ![u] = {b}]
  BY <1>1, ApplyIs
<1>4. p.at \in {"idle", "check"}
  BY DEF Idle
<1>5. /\ SoundAt(t, p, G) /\ RestsAt(t, p) /\ ShrinksAt(t, p) /\ GrowsAt(t, p)
      /\ \A v \in Users : ~Invites(thread[t], v)
  BY <1>2, <1>4 DEF SoundAt, RestsAt, ShrinksAt, GrowsAt, Invites
<1>7. ASSUME NEW b \in Blocks, got = {b},
             key' = [key EXCEPT ![u] = {b.key}],
             applied' = [applied EXCEPT ![u] = {b}],
             Moves(t, p), UNCHANGED <<members, block, last>>
      PROVE  Keeps(G)
  <2>1. /\ thread'[t] = p /\ \A s \in Threads : s # t => thread'[s] = thread[s]
        /\ \A v \in Users : key'[v] = IF v = u THEN {b.key} ELSE key[v]
        /\ \A v \in Users : applied'[v] = IF v = u THEN {b} ELSE applied[v]
        /\ DOMAIN block \subseteq members /\ members \subseteq Users
    BY <1>7 DEF Moves, GKTypeOK
  <2>2. ~Resting(G)
    BY <1>1, <1>2, <1>7 DEF Resting, RestsAt
  <2>3. t[2] = "poll"
    BY <1>2, <2>2 DEF Orderly, Shrinking, ShrinksAt, Growing, GrowsAt
  <2>4. OfGroup(u, got, G) /\ u \in members
    <3>1. SoundAt(t, thread[t], G)
      BY DEF Orderly, Sound
    <3>2. QED
      BY <1>1, <1>2, <2>3, <3>1 DEF SoundAt
  <2>5. b.key \in G /\ (u \in DOMAIN block => block[u].key \in G)
    BY <1>7, <2>4 DEF OfGroup
  <2>6. \A v \in Users : Good(v, G) => Good(v, G)'
    BY <2>1, <2>5 DEF Good
  <2>7. ASSUME NEW s \in Threads, s # t, NEW q, q = thread[s] PROVE SoundAt(s, q, G)'
    <3>1. SoundAt(s, q, G) /\ s[1] \in Users
      BY <2>7 DEF Orderly, Sound, Threads
    <3>2. CASE s[2] = "poll" /\ q.at = "groups"
      <4>1. s[1] # u
        BY <1>1, <2>3, <2>7, <3>2 DEF Threads
      <4>2. SafeFor(s[1], q.got, G)'
        BY <1>7, <2>1, <3>1, <3>2, <4>1 DEF SafeFor, OfGroup, SoundAt
      <4>3. QED
        BY <1>7, <3>1, <3>2, <4>2 DEF SoundAt
    <3>3. CASE s[2] = "poll" /\ q.at = "apply"
      BY <1>7, <3>1, <3>3 DEF SoundAt, OfGroup
    <3>4. CASE ~(s[2] = "poll" /\ q.at \in {"groups", "apply"})
      BY <1>7, <2>6, <3>1, <3>4 DEF SoundAt
    <3>5. QED
      BY <3>2, <3>3, <3>4
  <2>8. Sound(G)'
    <3>1. \A s \in Threads : SoundAt(s, thread[s], G)'
      <4>1. SoundAt(t, thread[t], G)'
        BY <1>4, <2>1 DEF SoundAt
      <4>2. ASSUME NEW s \in Threads, s # t PROVE SoundAt(s, thread[s], G)'
        <5>1. PICK q : q = thread[s] /\ q = thread'[s]
          BY <2>1, <4>2
        <5>2. SoundAt(s, q, G)'
          BY <2>7, <4>2, <5>1
        <5>3. QED
          BY <5>1, <5>2 DEF SoundAt
      <4>3. QED
        BY <4>1, <4>2
    <3>2. \A v \in DOMAIN block : block[v].key \in G \/ block[v] \in applied'[v]
      BY <2>1, <2>5 DEF Orderly, Sound
    <3>3. QED
      BY <1>7, <3>1, <3>2 DEF Sound
  <2>9. \A v \in members : Has(v, G) => Has(v, G)'
    <3>1. Good(u, G)'
      BY <2>1, <2>4, <2>5 DEF Good
    <3>2. \A v \in Users : v # u /\ Comes(v, G) => Comes(v, G)'
      BY <1>7, <2>1 DEF Comes
    <3>3. QED
      BY <2>1, <2>6, <3>1, <3>2 DEF Has
  <2>10. Shrinking => Shrinking'
    <3>1. ASSUME Shrinking, NEW s \in Threads PROVE ShrinksAt(s, thread[s])'
      <4>1. PICK q : q = thread'[s]
        OBVIOUS
      <4>2. ShrinksAt(s, q)
        BY <1>5, <2>1, <3>1, <4>1 DEF Shrinking
      <4>3. QED
        BY <1>7, <4>1, <4>2 DEF ShrinksAt, Invites
    <3>2. QED
      BY <3>1 DEF Shrinking
  <2>11. Awaited => Awaited'
    <3>1. ASSUME NEW e, Changes(e) PROVE Changes(e)'
      <4>1. PICK s \in Threads : s[1] = e /\ thread[s].at \in {"relist", "rekey"}
        BY <3>1 DEF Changes
      <4>2. thread'[s] = thread[s]
        BY <1>2, <2>1, <4>1
      <4>3. QED
        BY <4>1, <4>2 DEF Changes
    <3>2. QED
      BY <1>7, <3>1 DEF Awaited, Due, Fewer, Lowest
  <2>12. Covered(G) => Covered(G)'
    <3>1. ASSUME NEW v \in members, NEW s \in Threads, Invites(thread[s], v)
          PROVE  (\E r \in Threads : Invites(thread[r], v))'
      <4>1. thread'[s] = thread[s]
        BY <1>5, <2>1, <3>1
      <4>2. QED
        BY <3>1, <4>1 DEF Invites
    <3>2. QED
      BY <1>7, <2>9, <3>1 DEF Covered
  <2>13. Growing(G) => Growing(G)'
    <3>1. ASSUME Growing(G), NEW s \in Threads PROVE GrowsAt(s, thread[s])'
      <4>1. PICK q : q = thread'[s]
        OBVIOUS
      <4>2. GrowsAt(s, q)
        BY <1>5, <2>1, <3>1, <4>1 DEF Growing
      <4>3. QED
        BY <1>7, <4>1, <4>2 DEF GrowsAt
    <3>2. QED
      BY <1>7, <2>9, <3>1 DEF Growing
  <2>14. QED
    BY <1>7, <2>2, <2>8, <2>10, <2>11, <2>12, <2>13 DEF Keeps
<1>8. QED
  BY <1>3, <1>7

LEMMA ForgetKeeps ==
  ASSUME GKTypeOK, NEW G \in SUBSET Nat, Orderly(G), NEW t \in Threads, ForgetGroup(t)
  PROVE  Keeps(G)
<1>1. PICK u : u = t[1]
  OBVIOUS
<1>2. /\ thread[t].at = "left" /\ u \in Users
      /\ Moves(t, Idle) /\ UNCHANGED <<members, block>>
      /\ \A v \in Users : v # u => key'[v] = key[v] /\ applied'[v] = applied[v] /\ last'[v] = last[v]
  BY <1>1, ForgetIs, ZenonT(40) DEF GKTypeOK
<1>3. /\ thread'[t] = Idle /\ \A s \in Threads : s # t => thread'[s] = thread[s]
      /\ Idle.at = "idle" /\ DOMAIN block \subseteq members /\ members \subseteq Users
  BY <1>2 DEF Moves, Idle, GKTypeOK
<1>4. ~Resting(G) /\ ~Growing(G) /\ Shrinking
  BY <1>2 DEF Orderly, Resting, RestsAt, Growing, GrowsAt
<1>5. u \notin members
  BY <1>1, <1>2, <1>4 DEF Shrinking, ShrinksAt
<1>6. Sound(G)'
  <2>1. ASSUME NEW s \in Threads PROVE SoundAt(s, thread[s], G)'
    <3>1. PICK q : q = thread'[s]
      OBVIOUS
    <3>2. SoundAt(s, q, G) /\ s[1] \in Users
      BY <1>3, <3>1 DEF Orderly, Sound, SoundAt, Threads
    <3>3. s[1] \in members => s[1] # u
      BY <1>5
    <3>4. SoundAt(s, q, G)'
      <4>1. CASE s[1] \in members
        BY <1>2, <3>2, <3>3, <4>1 DEF SoundAt, SafeFor, OfGroup, Good
      <4>2. CASE s[1] \notin members
        BY <1>2, <3>2, <4>2 DEF SoundAt, SafeFor, OfGroup
      <4>3. QED
        BY <4>1, <4>2
    <3>5. QED
      BY <3>1, <3>4 DEF SoundAt
  <2>2. QED
    BY <1>2, <1>3, <1>5, <2>1 DEF Orderly, Sound
<1>7. Shrinking'
  <2>1. ASSUME NEW s \in Threads PROVE ShrinksAt(s, thread[s])'
    <3>1. PICK q : q = thread'[s]
      OBVIOUS
    <3>2. ShrinksAt(s, q)
      BY <1>3, <1>4, <3>1 DEF Shrinking, ShrinksAt, Invites
    <3>3. QED
      BY <1>2, <3>1, <3>2 DEF ShrinksAt, Invites
  <2>2. QED
    BY <2>1 DEF Shrinking
<1>8. Awaited => Awaited'
  <2>1. ASSUME NEW e \in members, Lowest(e, members), Due(e) \/ Changes(e) PROVE Awaited'
    <3>1. e # u /\ e \in Users
      BY <1>3, <1>5
    <3>2. Due(e) => Due(e)'
      BY <1>2, <3>1 DEF Due, Fewer
    <3>3. ASSUME NEW s \in Threads, s[1] = e, thread[s].at \in {"relist", "rekey"}
          PROVE  thread'[s].at \in {"relist", "rekey"}
      BY <1>2, <1>3, <3>3
    <3>4. Changes(e) => Changes(e)'
      BY <3>3 DEF Changes
    <3>5. QED
      BY <1>2, <2>1, <3>2, <3>4 DEF Awaited, Lowest
  <2>2. QED
    BY <2>1 DEF Awaited
<1>9. Covered(G) => Covered(G)'
  <2>1. ASSUME NEW v \in members, NEW s \in Threads, Invites(thread[s], v)
        PROVE  (\E r \in Threads : Invites(thread[r], v))'
    <3>1. thread'[s] = thread[s]
      BY <1>2, <1>3, <2>1 DEF Invites
    <3>2. QED
      BY <2>1, <3>1 DEF Invites
  <2>2. \A v \in members : Has(v, G) => Has(v, G)'
    BY <1>2, <1>3, <1>5 DEF Has, Good, Comes
  <2>3. QED
    BY <1>2, <2>1, <2>2 DEF Covered
<1>10. QED
  BY <1>2, <1>4, <1>6, <1>7, <1>8, <1>9 DEF Keeps

LEMMA DeliverKeeps ==
  ASSUME GKTypeOK, Numbered, NEW G \in SUBSET Nat, Orderly(G), NEW t \in Threads,
         DeliverInvite(t), done'["lost"] = done["lost"]
  PROVE  Keeps(G)
<1>0. done["lost"] \in Nat
  BY DEF GKTypeOK, Kinds
<1>1. PICK u, to, todo, b, p : /\ u = t[1] /\ to = thread[t].to /\ todo = thread[t].todo
                               /\ b = thread[t].sealed /\ p = Invite(todo)
  OBVIOUS
<1>2. /\ thread[t].at = "deliver" /\ u \in Users /\ to \in Users /\ todo \in SUBSET Users
      /\ b \in Blocks /\ p.at \in {"seal", "idle"}
      /\ \A v \in Users : Invites(p, v) <=> v \in todo
      /\ \A v \in Users : Invites(thread[t], v) <=> v \in todo \/ v = to
  <2>1. p.at \in {"seal", "idle"} /\ \A v \in Users : Invites(p, v) <=> v \in todo
    BY <1>1 DEF Invite, Idle, Invites
  <2>2. thread[t].at = "deliver"
    BY DeliverIs
  <2>3. \A v \in Users : Invites(thread[t], v) <=> v \in todo \/ v = to
    BY <1>1, <2>2 DEF Invites
  <2>4. QED
    BY <1>1, <2>1, <2>2, <2>3, DeliverIs
<1>3. CASE Walks(t, p) /\ u \notin members
  <2>1. ~Shrinking /\ ~Growing(G)
    BY <1>1, <1>2, <1>3 DEF Shrinking, ShrinksAt, Growing, GrowsAt
  <2>2. SoundAt(t, p, G) /\ RestsAt(t, p)
    BY <1>1, <1>2, <1>3 DEF SoundAt, RestsAt
  <2>3. QED
    BY <1>3, <2>1, <2>2, WalkKeeps DEF Walks, Orderly
<1>4. CASE /\ u \in members
           /\ Moves(t, p)
           /\ UNCHANGED <<key, applied, last>>
           /\ members' = members \cup {to}
           /\ DOMAIN block' = DOMAIN block \cup {to}
           /\ block'[to] = b
           /\ \A v \in DOMAIN block \ {to} : block'[v] = block[v]
  <2>1. /\ thread'[t] = p /\ \A s \in Threads : s # t => thread'[s] = thread[s]
        /\ DOMAIN block \subseteq members /\ members \subseteq Users
    BY <1>4 DEF Moves, GKTypeOK
  <2>2. ~Resting(G)
    BY <1>1, <1>2, <1>4 DEF Resting, RestsAt
  <2>3. b.key \in G /\ Good(u, G)
    <3>1. SoundAt(t, thread[t], G)
      BY DEF Orderly, Sound
    <3>2. QED
      BY <1>1, <1>2, <1>4, <3>1 DEF SoundAt
  <2>4. b \notin applied[to]
    BY <1>1, <1>2 DEF Numbered, InHand, Around
  <2>5. Shrinking => to \in members
    BY <1>2 DEF Shrinking, ShrinksAt
  <2>6. ASSUME NEW s \in Threads, thread[s].at \in {"relist", "rekey", "seal", "deliver"}
        PROVE  s[1] \in members
    BY <2>2, <2>6 DEF Orderly, Shrinking, ShrinksAt, Growing, GrowsAt
  <2>7. ASSUME NEW v \in Users, NEW got, SafeFor(v, got, G) PROVE SafeFor(v, got, G)'
    <3>1. CASE got \subseteq applied[v]
      BY <1>4, <3>1 DEF SafeFor, OfGroup
    <3>2. CASE (\A c \in got : c.key \in G) /\ (v \in DOMAIN block => block[v].key \in G)
      <4>1. v \in DOMAIN block' => block'[v].key \in G
        BY <1>4, <2>3, <3>2
      <4>2. QED
        BY <3>2, <4>1 DEF SafeFor, OfGroup
    <3>3. QED
      BY <2>7, <3>1, <3>2 DEF SafeFor, OfGroup
  <2>17. ASSUME NEW v \in Users, NEW got, OfGroup(v, got, G) PROVE OfGroup(v, got, G)'
    BY <1>4, <2>3, <2>17 DEF OfGroup
  <2>8. Sound(G)'
    <3>1. ASSUME NEW s \in Threads PROVE SoundAt(s, thread[s], G)'
      <4>1. CASE s = t
        <5>1. p.at = "seal" \/ p.at = "idle"
          BY <1>2
        <5>2. Good(u, G)'
          BY <1>4, <2>3 DEF Good
        <5>3. QED
          BY <1>1, <2>1, <4>1, <5>1, <5>2 DEF SoundAt
      <4>2. CASE s # t
        <5>1. PICK q : q = thread[s] /\ q = thread'[s]
          BY <2>1, <4>2
        <5>2. SoundAt(s, q, G) /\ s[1] \in Users
          BY <5>1 DEF Orderly, Sound, Threads
        <5>3. q.at \in {"seal", "deliver"} => s[1] \in members
          BY <2>6, <5>1
        <5>4. s[1] \notin members' => s[1] \notin members
          BY <1>4
        <5>5. SoundAt(s, q, G)'
          BY <1>4, <2>7, <2>17, <5>2, <5>3, <5>4 DEF SoundAt, Good
        <5>6. QED
          BY <5>1, <5>5 DEF SoundAt
      <4>3. QED
        BY <4>1, <4>2
    <3>2. \A v \in DOMAIN block' : block'[v].key \in G \/ block'[v] \in applied'[v]
      BY <1>4, <2>3 DEF Orderly, Sound
    <3>3. QED
      BY <3>1, <3>2 DEF Sound
  <2>9. Comes(to, G)'
    BY <1>4, <2>3, <2>4 DEF Comes
  <2>10. \A v \in Users : Has(v, G) => Has(v, G)'
    <3>1. \A v \in Users : v # to /\ Comes(v, G) => Comes(v, G)'
      BY <1>4 DEF Comes
    <3>2. \A v \in Users : Good(v, G) => Good(v, G)'
      BY <1>4 DEF Good
    <3>3. QED
      BY <2>9, <3>1, <3>2 DEF Has
  <2>11. Shrinking => members' = members
    BY <1>4, <2>5
  <2>12. Shrinking => Shrinking'
    <3>1. ASSUME Shrinking, NEW s \in Threads PROVE ShrinksAt(s, thread[s])'
      <4>1. PICK q : q = thread'[s]
        OBVIOUS
      <4>2. ShrinksAt(s, q)
        <5>1. CASE s = t
          <6>1. \A v \in Users : Invites(p, v) => v \in members
            BY <1>2, <3>1 DEF Shrinking, ShrinksAt
          <6>2. QED
            BY <1>1, <1>2, <1>4, <2>1, <4>1, <5>1, <6>1 DEF ShrinksAt
        <5>2. CASE s # t
          BY <2>1, <3>1, <4>1, <5>2 DEF Shrinking
        <5>3. QED
          BY <5>1, <5>2
      <4>3. QED
        BY <2>11, <3>1, <4>1, <4>2 DEF ShrinksAt, Invites
    <3>2. QED
      BY <3>1 DEF Shrinking
  <2>13. Shrinking /\ Awaited => Awaited'
    <3>1. ASSUME NEW e, Changes(e) PROVE Changes(e)'
      <4>1. PICK s \in Threads : s[1] = e /\ thread[s].at \in {"relist", "rekey"}
        BY <3>1 DEF Changes
      <4>2. thread'[s] = thread[s]
        BY <1>2, <2>1, <4>1
      <4>3. QED
        BY <4>1, <4>2 DEF Changes
    <3>2. QED
      BY <1>4, <2>11, <3>1 DEF Awaited, Due, Fewer, Lowest
  <2>14. Shrinking /\ Covered(G) => Covered(G)'
    <3>1. ASSUME NEW v \in members, v # to, NEW s \in Threads, Invites(thread[s], v)
          PROVE  (\E r \in Threads : Invites(thread[r], v))'
      <4>1. v \in Users
        BY <2>1
      <4>2. Invites(thread'[s], v)
        BY <1>2, <2>1, <3>1, <4>1
      <4>3. QED
        BY <4>2 DEF Invites
    <3>2. QED
      BY <2>1, <2>9, <2>10, <2>11, <3>1 DEF Covered, Has
  <2>15. Growing(G) => Growing(G)'
    <3>1. ASSUME Growing(G), NEW s \in Threads PROVE GrowsAt(s, thread[s])'
      <4>1. PICK q : q = thread'[s]
        OBVIOUS
      <4>2. GrowsAt(s, q)
        <5>1. CASE s = t
          BY <1>1, <1>2, <1>4, <2>1, <4>1, <5>1 DEF GrowsAt
        <5>2. CASE s # t
          BY <2>1, <3>1, <4>1, <5>2 DEF Growing
        <5>3. QED
          BY <5>1, <5>2
      <4>3. QED
        BY <1>4, <4>1, <4>2 DEF GrowsAt
    <3>2. \A v \in members' : v \in Users /\ (v = to \/ v \in members)
      BY <1>2, <1>4, <2>1
    <3>3. Growing(G) => \A v \in members' : Has(v, G)'
      BY <2>9, <2>10, <3>2 DEF Growing, Has
    <3>4. QED
      BY <3>1, <3>3 DEF Growing
  <2>16. QED
    BY <2>2, <2>8, <2>11, <2>12, <2>13, <2>14, <2>15 DEF Keeps
<1>5. QED
  BY <1>0, <1>1, <1>3, <1>4, DeliverIs

\* A thread that is not in the list it was given makes no key.
LEMMA NoKeyKeeps ==
  ASSUME GKTypeOK, NEW G \in SUBSET Nat, Orderly(G), NEW t \in Threads, NewKey(t),
         t[1] \notin thread[t].got
  PROVE  Keeps(G) /\ UNCHANGED <<members, known>>
<1>1. thread[t].at = "rekey" /\ Walks(t, Idle) /\ Idle.at = "idle"
  BY NewKeyIs DEF Idle
<1>2. ~Shrinking
  BY <1>1 DEF Shrinking, ShrinksAt
<1>3. SoundAt(t, Idle, G) /\ RestsAt(t, Idle) /\ GrowsAt(t, Idle)
  BY <1>1 DEF SoundAt, RestsAt, GrowsAt
<1>4. QED
  BY <1>1, <1>2, <1>3, WalkKeeps DEF Walks, Orderly

\* A new key is one more that members have; its maker has nothing else, and invites
\* all others.
LEMMA KeyMade ==
  ASSUME GKTypeOK, NEW G \in SUBSET Nat, Orderly(G), NEW t \in Threads, NewKey(t),
         t[1] \in thread[t].got, NEW H, H = G \cup {made + 1}
  PROVE  /\ H \in SUBSET Nat /\ t[1] \in members /\ members' = members
         /\ known' = [known EXCEPT ![t[1]] = @ \cup {made + 1}]
         /\ ~Resting(G) /\ Sound(H)'
         /\ Shrinking => Shrinking' /\ Covered(H)'
         /\ Growing(G) => Growing(H)'
<1>1. PICK u, got, p : u = t[1] /\ got = thread[t].got /\ p = Invite(got \ {u})
  OBVIOUS
<1>2. /\ thread[t].at = "rekey" /\ u \in Users /\ got \in SUBSET Users
      /\ Moves(t, p)
      /\ UNCHANGED <<members, block, applied>>
      /\ made' = made + 1
      /\ key' = [key EXCEPT ![u] = {made + 1}]
      /\ known' = [known EXCEPT ![u] = @ \cup {made + 1}]
      /\ last' = [last EXCEPT ![u] = {got}]
  BY <1>1, NewKeyIs
<1>3. /\ thread'[t] = p /\ \A s \in Threads : s # t => thread'[s] = thread[s]
      /\ made + 1 \in H /\ G \subseteq H /\ H \in SUBSET Nat
      /\ \A v \in Users : key'[v] = IF v = u THEN {made + 1} ELSE key[v]
      /\ DOMAIN block \subseteq members /\ members \subseteq Users
  BY <1>2 DEF Moves, GKTypeOK
<1>4. p.at \in {"seal", "idle"} /\ \A v : Invites(p, v) <=> v \in got \ {u}
  BY <1>1 DEF Invite, Idle, Invites
<1>5. ~Resting(G) /\ (Shrinking => got = members) /\ (Growing(G) => got \subseteq members)
  BY <1>1, <1>2 DEF Resting, RestsAt, Shrinking, ShrinksAt, Growing, GrowsAt
<1>6. u \in members
  BY <1>1, <1>5 DEF Orderly
<1>7. Good(u, H)' /\ \A v \in Users : Good(v, G) => Good(v, H)'
  <2>1. \A v \in Users : key'[v] = {made + 1} \/ key'[v] = key[v]
    BY <1>3
  <2>2. key'[u] = {made + 1} /\ {made + 1} # {} /\ {made + 1} \subseteq H
    BY <1>2, <1>3
  <2>3. Good(u, H)'
    BY <2>2 DEF Good
  <2>4. ASSUME NEW v \in Users, Good(v, G) PROVE Good(v, H)'
    BY <1>3, <2>1, <2>2, <2>4 DEF Good
  <2>5. QED
    BY <2>3, <2>4
<1>8. \A v \in Users : Has(v, G) => Has(v, H)'
  <2>1. \A v : Comes(v, G) => Comes(v, H)'
    BY <1>2, <1>3 DEF Comes
  <2>2. QED
    BY <1>7, <2>1 DEF Has
<1>9. Sound(H)'
  <2>1. ASSUME NEW s \in Threads PROVE SoundAt(s, thread[s], H)'
    <3>1. CASE s = t
      BY <1>1, <1>3, <1>4, <1>7, <3>1 DEF SoundAt
    <3>2. CASE s # t
      <4>1. PICK q : q = thread[s] /\ q = thread'[s]
        BY <1>3, <3>2
      <4>2. SoundAt(s, q, G) /\ s[1] \in Users
        BY <4>1 DEF Orderly, Sound, Threads
      <4>3. /\ SafeFor(s[1], q.got, G) => SafeFor(s[1], q.got, H)'
            /\ OfGroup(s[1], q.got, G) => OfGroup(s[1], q.got, H)'
        BY <1>2, <1>3 DEF SafeFor, OfGroup
      <4>4. SoundAt(s, q, H)'
        BY <1>2, <1>3, <1>7, <4>2, <4>3 DEF SoundAt
      <4>5. QED
        BY <4>1, <4>4 DEF SoundAt
    <3>3. QED
      BY <3>1, <3>2
  <2>2. QED
    BY <1>2, <1>3, <2>1 DEF Orderly, Sound
<1>10. ASSUME Shrinking PROVE Shrinking' /\ Covered(H)'
  <2>1. ASSUME NEW s \in Threads PROVE ShrinksAt(s, thread[s])'
    <3>1. PICK q : q = thread'[s]
      OBVIOUS
    <3>2. ShrinksAt(s, q)
      <4>1. CASE s = t
        BY <1>1, <1>3, <1>4, <1>5, <1>6, <1>10, <3>1, <4>1 DEF ShrinksAt
      <4>2. CASE s # t
        BY <1>3, <1>10, <3>1, <4>2 DEF Shrinking
      <4>3. QED
        BY <4>1, <4>2
    <3>3. QED
      BY <1>2, <3>1, <3>2 DEF ShrinksAt, Invites
  <2>2. \A v \in members : v = u \/ Invites(thread'[t], v)
    BY <1>3, <1>4, <1>5, <1>10
  <2>3. \A v \in members : v = u \/ (\E s \in Threads : Invites(thread[s], v))'
    BY <2>2 DEF Invites
  <2>4. QED
    BY <1>2, <1>7, <2>1, <2>3 DEF Shrinking, Covered, Has
<1>11. ASSUME Growing(G) PROVE Growing(H)'
  <2>1. ASSUME NEW s \in Threads PROVE GrowsAt(s, thread[s])'
    <3>1. PICK q : q = thread'[s]
      OBVIOUS
    <3>2. GrowsAt(s, q)
      <4>1. CASE s = t
        BY <1>1, <1>3, <1>4, <1>6, <3>1, <4>1 DEF GrowsAt
      <4>2. CASE s # t
        BY <1>3, <1>11, <3>1, <4>2 DEF Growing
      <4>3. QED
        BY <4>1, <4>2
    <3>3. QED
      BY <1>2, <3>1, <3>2 DEF GrowsAt
  <2>2. QED
    BY <1>2, <1>3, <1>8, <1>11, <2>1 DEF Growing
<1>12. QED
  BY <1>1, <1>2, <1>3, <1>5, <1>6, <1>9, <1>10, <1>11

\* Who is out applies no key, as long as the requests wait for one another.
LEMMA OutsidersApplyNothing ==
  ASSUME GKTypeOK, NEW G \in SUBSET Nat, Orderly(G), NEW t \in Threads, ApplyBlock(t)
  PROVE  t[1] \in members
<1>1. thread[t].at = "apply"
  BY ApplyIs
<1>2. t[2] = "poll"
  BY <1>1 DEF Orderly, Resting, RestsAt, Shrinking, ShrinksAt, Growing, GrowsAt
<1>3. QED
  BY <1>1, <1>2 DEF Orderly, Sound, SoundAt

\* Any step but a request and a new key keeps the order.
LEMMA OrderKept ==
  ASSUME GKTypeOK, Numbered, NEW G \in SUBSET Nat, Orderly(G), done'["lost"] = done["lost"],
         \/ \E t \in Threads :
              \/ CheckBlock(t) \/ ApplyBlock(t) \/ ListToCheck(t) \/ ObserveMembers(t)
              \/ ListToRekey(t) \/ SealKey(t) \/ DeliverInvite(t) \/ ForgetGroup(t)
              \/ LoseRequest(t)
         \/ \E u \in Users : FetchGroups(u)
  PROVE  Keeps(G) /\ (Secret(G) => Secret(G)')
<1>0. done["lost"] \in Nat /\ known \in [Users -> SUBSET Nat]
  BY DEF GKTypeOK, Kinds
<1>1. ASSUME NEW t \in Threads,
             \/ CheckBlock(t) \/ ListToCheck(t) \/ ObserveMembers(t) \/ ListToRekey(t)
             \/ SealKey(t) \/ ForgetGroup(t)
      PROVE  Keeps(G) /\ UNCHANGED <<members, known>>
  <2>1. CASE ListToCheck(t) \/ ListToRekey(t)
    BY <2>1, ListKeeps DEF Orderly, ListToCheck, ListToRekey, relayVars
  <2>2. CASE ObserveMembers(t)
    BY <2>2, ObserveKeeps, ObserveIs
  <2>3. CASE SealKey(t)
    BY <2>3, SealKeeps, SealIs
  <2>4. CASE ForgetGroup(t)
    BY <2>4, ForgetKeeps, ForgetIs
  <2>5. CASE CheckBlock(t)
    BY <2>5, CheckKeeps, CheckWalks DEF Walks
  <2>6. QED
    BY <1>1, <2>1, <2>2, <2>3, <2>4, <2>5
<1>2. ASSUME NEW u \in Users, FetchGroups(u) PROVE Keeps(G) /\ UNCHANGED <<members, known>>
  BY <1>2, FetchKeeps DEF Orderly, FetchGroups, relayVars
<1>3. ASSUME NEW t \in Threads, DeliverInvite(t)
      PROVE  Keeps(G) /\ members \subseteq members' /\ known' = known
  BY <1>3, DeliverKeeps, DeliverIs DEF Walks
<1>4. ASSUME NEW t \in Threads, ApplyBlock(t)
      PROVE  /\ Keeps(G) /\ members' = members
             /\ \A v \in Users \ members : known'[v] = known[v]
  <2>1. Keeps(G) /\ members' = members
    BY <1>4, ApplyKeeps, ApplyIs
  <2>2. t[1] \in members
    BY <1>4, OutsidersApplyNothing
  <2>3. \E b \in Blocks : known' = [known EXCEPT ![t[1]] = @ \cup {b.key}]
    BY <1>4, ApplyIs
  <2>4. QED
    BY <1>0, <2>1, <2>2, <2>3
<1>5. ASSUME NEW t \in Threads, LoseRequest(t) PROVE FALSE
  BY <1>0, <1>5, LoseIs
<1>6. QED
  BY <1>1, <1>2, <1>3, <1>4, <1>5 DEF Secret

\* A thread that does nothing, or has learnt nothing.
Quiet(q) ==
  q.at \in {"idle", "check"} \/ (q.at \in {"groups", "members"} /\ q.got = {})

LEMMA QuietFits ==
  ASSUME NEW t, NEW q, Quiet(q), NEW G
  PROVE  /\ SoundAt(t, q, G) /\ RestsAt(t, q) /\ ShrinksAt(t, q) /\ GrowsAt(t, q)
         /\ SoundAt(t, q, G)' /\ RestsAt(t, q)' /\ ShrinksAt(t, q)' /\ GrowsAt(t, q)'
BY DEF Quiet, SoundAt, SafeFor, OfGroup, RestsAt, ShrinksAt, GrowsAt, Invites

LEMMA SettledIsQuiet ==
  ASSUME GKTypeOK, Settled
  PROVE  \A t \in Threads : Quiet(thread[t])
<1>1. ASSUME NEW t \in Threads PROVE Quiet(thread[t])
  <2>1. PICK q \in Places : q = thread[t]
    BY DEF GKTypeOK
  <2>2. q.at \in {"idle", "check", "relist", "left", "groups", "apply", "members", "rekey", "seal",
                  "deliver"}
    BY DEF Places, Idle
  <2>3. /\ q.at \notin {"apply", "relist", "rekey", "seal", "deliver", "left"}
        /\ q.at \in {"groups", "members"} => q.got = {}
    BY <2>1 DEF Settled, AtRest
  <2>4. QED
    BY <2>1, <2>2, <2>3 DEF Quiet
<1>2. QED
  BY <1>1

\* When the group has settled, nothing is awaited and nothing is still to come.
LEMMA SettledRests ==
  ASSUME GKTypeOK, Settled, NEW G \in SUBSET Nat, OneByOne(G)
  PROVE  Resting(G)
<1>1. /\ \A t \in Threads : Quiet(thread[t])
      /\ \A u \in members : BlocksOf(u) \subseteq applied[u] /\ last[u] = {members}
  BY SettledIsQuiet DEF Settled, AtRest
<1>2. \A t \in Threads : thread[t].at \notin {"relist", "rekey", "seal", "deliver"}
  BY <1>1 DEF Quiet
<1>3. ~Awaited
  BY <1>1, <1>2 DEF Awaited, Due, Changes, Fewer
<1>4. \A u : ~\E t \in Threads : Invites(thread[t], u)
  BY <1>2 DEF Invites
<1>5. \A u \in members : ~Comes(u, G)
  BY <1>1 DEF Comes, BlocksOf
<1>6. \A u \in members : Good(u, G)
  BY <1>3, <1>4, <1>5 DEF OneByOne, Resting, Covered, Growing, Has
<1>7. \A t \in Threads : RestsAt(t, thread[t])
  BY <1>1, QuietFits
<1>8. QED
  BY <1>1, <1>6, <1>7 DEF Resting

LEMMA InviteOrders ==
  ASSUME GKTypeOK, Settled, NEW G \in SUBSET Nat, OneByOne(G),
         NEW u \in Users, NEW v \in Users, RequestInvite(u, v)
  PROVE  /\ Sound(G)' /\ (Secret(G) => Secret(G)')
         /\ IF u \in members THEN Growing(G)' ELSE Resting(G)'
<1>1. PICK t, p : t = <<u, "req">> /\ p = [at |-> "seal", todo |-> {v}]
  OBVIOUS
<1>2. /\ t \in Threads /\ t[1] = u /\ t[2] = "req" /\ p.at = "seal"
      /\ thread'[t] = p /\ \A s \in Threads : s # t => thread'[s] = thread[s]
      /\ UNCHANGED <<members, block, key, applied, last, known>>
  <2>1. p \in Places /\ t \in Threads /\ t[1] = u /\ t[2] = "req"
    BY <1>1, ThreadIs DEF Places
  <2>2. Go(t, p) /\ UNCHANGED <<members, block, key, applied, last, known>>
    BY <1>1, RequestsAre DEF Requested, relayVars, clientVars
  <2>3. QED
    BY <1>1, <2>1, <2>2, Goes DEF GKTypeOK
<1>3. Resting(G) /\ \A s \in Threads : Quiet(thread[s])
  BY SettledRests, SettledIsQuiet
<1>4. \A s \in Threads : s # t => /\ SoundAt(s, thread[s], G)' /\ RestsAt(s, thread[s])'
                                  /\ GrowsAt(s, thread[s])'
  <2>1. ASSUME NEW s \in Threads, s # t
        PROVE  SoundAt(s, thread[s], G)' /\ RestsAt(s, thread[s])' /\ GrowsAt(s, thread[s])'
    <3>1. PICK q : q = thread[s] /\ q = thread'[s] /\ Quiet(q)
      BY <1>2, <1>3, <2>1
    <3>2. SoundAt(s, q, G)' /\ RestsAt(s, q)' /\ GrowsAt(s, q)'
      BY <3>1, QuietFits
    <3>3. QED
      BY <3>1, <3>2 DEF SoundAt, RestsAt, GrowsAt
  <2>2. QED
    BY <2>1
<1>5. SoundAt(t, thread[t], G)'
  BY <1>2, <1>3 DEF SoundAt, Resting, Good
<1>6. Sound(G)'
  BY <1>2, <1>4, <1>5 DEF Sound, OneByOne
<1>7. Secret(G) => Secret(G)'
  BY <1>2 DEF Secret
<1>8. CASE u \in members
  <2>1. GrowsAt(t, thread[t])'
    BY <1>2, <1>8 DEF GrowsAt
  <2>2. Growing(G)'
    BY <1>2, <1>3, <1>4, <2>1 DEF Growing, Resting, Has, Good
  <2>3. QED
    BY <1>6, <1>7, <1>8, <2>2
<1>9. CASE u \notin members
  <2>1. RestsAt(t, thread[t])'
    BY <1>2, <1>9 DEF RestsAt
  <2>2. Resting(G)'
    BY <1>2, <1>3, <1>4, <2>1 DEF Resting, Good, BlocksOf
  <2>3. QED
    BY <1>6, <1>7, <1>9, <2>2
<1>10. QED
  BY <1>8, <1>9

LEMMA GroupsOrders ==
  ASSUME GKTypeOK, Settled, NEW G \in SUBSET Nat, OneByOne(G),
         NEW u \in Users, RequestGroups(u)
  PROVE  Sound(G)' /\ (Secret(G) => Secret(G)') /\ Resting(G)'
<1>1. PICK t, p : t = <<u, "req">> /\ p = [at |-> "groups", got |-> BlocksOf(u)]
  OBVIOUS
<1>2. /\ t \in Threads /\ t[1] = u /\ t[2] = "req" /\ p.at = "groups" /\ p.got = BlocksOf(u)
      /\ thread'[t] = p /\ \A s \in Threads : s # t => thread'[s] = thread[s]
      /\ UNCHANGED <<members, block, key, applied, last, known>>
  <2>1. p \in Places /\ t \in Threads /\ t[1] = u /\ t[2] = "req"
    BY <1>1, ThreadIs, AnswersOK DEF Places
  <2>2. Go(t, p) /\ UNCHANGED <<members, block, key, applied, last, known>>
    BY <1>1, RequestsAre DEF Requested, relayVars, clientVars
  <2>3. QED
    BY <1>1, <2>1, <2>2, Goes DEF GKTypeOK
<1>3. Resting(G) /\ \A s \in Threads : Quiet(thread[s])
  BY SettledRests, SettledIsQuiet
<1>4. ASSUME NEW s \in Threads, s # t PROVE SoundAt(s, thread[s], G)' /\ RestsAt(s, thread[s])'
  <2>1. PICK q : q = thread[s] /\ q = thread'[s] /\ Quiet(q)
    BY <1>2, <1>3, <1>4
  <2>2. SoundAt(s, q, G)' /\ RestsAt(s, q)'
    BY <2>1, QuietFits
  <2>3. QED
    BY <2>1, <2>2 DEF SoundAt, RestsAt
<1>5. SoundAt(t, thread[t], G)'
  BY <1>2 DEF SoundAt
<1>6. RestsAt(t, thread[t])'
  <2>1. BlocksOf(u) \subseteq applied[u]
    BY <1>3 DEF Resting, BlocksOf
  <2>2. QED
    BY <1>2, <2>1 DEF RestsAt
<1>7. Sound(G)'
  BY <1>2, <1>4, <1>5 DEF Sound, OneByOne
<1>8. Resting(G)'
  BY <1>2, <1>3, <1>4, <1>6 DEF Resting, Good, BlocksOf
<1>9. Secret(G) => Secret(G)'
  BY <1>2 DEF Secret
<1>10. QED
  BY <1>7, <1>8, <1>9

\* After a departure the key is worth nothing, and the lowest member is to make another.
LEMMA DepartureOrders ==
  ASSUME GKTypeOK, Settled, NEW u \in Users, NEW v \in Users,
         RequestLeave(u) \/ RequestKick(u, v), NEW G \in SUBSET Nat
  PROVE  /\ Sound(G)' /\ Shrinking'
         /\ IF members' = {} THEN Covered(G)' ELSE Awaited'
<1>1. PICK w, t, p :
        /\ w \in members /\ RemoveMember(w) /\ t = <<u, "req">>
        /\ \/ p = [at |-> "left"] /\ w = u
           \/ p = [at |-> "relist"] /\ w # u /\ u \in members
        /\ Go(t, p) /\ UNCHANGED <<key, applied, last, known>>
  BY RequestsAre DEF Requested, clientVars
<1>2. /\ t \in Threads /\ t[1] = u /\ t[2] = "req" /\ p.at \in {"left", "relist"}
      /\ thread'[t] = p /\ \A s \in Threads : s # t => thread'[s] = thread[s]
      /\ members \subseteq Users
  <2>1. p \in Places /\ t \in Threads /\ t[1] = u /\ t[2] = "req"
    BY <1>1, ThreadIs DEF Places
  <2>2. QED
    BY <1>1, <2>1, Goes DEF GKTypeOK
<1>3. /\ members' = members \ {w} /\ DOMAIN block' = DOMAIN block \ {w}
      /\ \A x \in DOMAIN block \ {w} : block'[x] = block[x]
  BY <1>1, RemovedIs
<1>4. /\ \A s \in Threads : Quiet(thread[s])
      /\ \A x \in members : BlocksOf(x) \subseteq applied[x] /\ last[x] = {members}
  BY SettledIsQuiet DEF Settled, AtRest
<1>5. ASSUME NEW s \in Threads, s # t PROVE SoundAt(s, thread[s], G)' /\ ShrinksAt(s, thread[s])'
  <2>1. PICK q : q = thread[s] /\ q = thread'[s] /\ Quiet(q)
    BY <1>2, <1>4, <1>5
  <2>2. SoundAt(s, q, G)' /\ ShrinksAt(s, q)'
    BY <2>1, QuietFits
  <2>3. QED
    BY <2>1, <2>2 DEF SoundAt, ShrinksAt, Invites
<1>6. SoundAt(t, thread[t], G)'
  BY <1>2 DEF SoundAt
<1>7. ShrinksAt(t, thread[t])'
  BY <1>1, <1>2, <1>3 DEF ShrinksAt, Invites
<1>8. \A x \in DOMAIN block' : block'[x] \in applied'[x]
  <2>1. \A x \in DOMAIN block : x \in members /\ block[x] \in applied[x]
    BY <1>4 DEF BlocksOf, GKTypeOK
  <2>2. QED
    BY <1>1, <1>3, <2>1
<1>9. Sound(G)' /\ Shrinking'
  BY <1>5, <1>6, <1>7, <1>8 DEF Sound, Shrinking
<1>10. members' = {} => Covered(G)'
  BY DEF Covered
<1>11. ASSUME members' # {} PROVE Awaited'
  <2>1. PICK e \in members' : \A x \in members' : e <= x
    <3>1. members' \subseteq Nat
      BY <1>2, <1>3, NamesAssumption
    <3>2. QED
      BY <1>11, <3>1, Least
  <2>2. last'[e] = {members} /\ members' \subseteq members /\ members' # members
    BY <1>1, <1>3, <1>4, <2>1
  <2>3. Due(e)'
    BY <2>2 DEF Due, Fewer
  <2>4. QED
    BY <2>1, <2>3 DEF Awaited, Lowest
<1>12. QED
  BY <1>9, <1>10, <1>11

------------------------------------------------------------------------------
(* Those who are out *)

LEMMA LockInit == Init => LockInv
<1> SUFFICES ASSUME Init PROVE LockInv
  OBVIOUS
<1>1. \A t \in Threads : Quiet(thread[t])
  BY DEF Init, Quiet, Idle
<1>2. /\ members = Founders /\ DOMAIN block = Founders \ {Creator} /\ Founders \subseteq Users
      /\ \A u \in DOMAIN block : block[u].key = 0 /\ applied[u] = {block[u]}
      /\ \A u \in Founders : key[u] = {0} /\ last[u] = {Founders}
      /\ \A u \in Users \ Founders : known[u] = {}
  BY NamesAssumption DEF Init, Block
<1>3. Sound({0})
  BY <1>1, <1>2, QuietFits DEF Sound
<1>4. Resting({0})
  <2>1. \A u \in members : BlocksOf(u) \subseteq applied[u] /\ last[u] = {members} /\ Good(u, {0})
    BY <1>2 DEF BlocksOf, Good
  <2>2. QED
    BY <1>1, <2>1, QuietFits DEF Resting
<1>5. Secret({0})
  BY <1>2 DEF Secret
<1>6. {0} \in SUBSET Nat
  OBVIOUS
<1>7. QED
  BY <1>3, <1>4, <1>5, <1>6 DEF LockInv, OneByOne

LEMMA LockStep == GKTypeOK /\ Numbered /\ LockInv /\ [Next]_vars => LockInv'
<1> SUFFICES ASSUME GKTypeOK, Numbered, LockInv, [Next]_vars, calm', done'["lost"] = 0
             PROVE  \E G \in SUBSET Nat : Secret(G)' /\ OneByOne(G)'
  BY DEF LockInv
<1>0. /\ done["lost"] \in Nat /\ done \in [Kinds -> Nat] /\ "lost" \in Kinds /\ calm \in BOOLEAN
      /\ made \in Nat /\ known \in [Users -> SUBSET Nat]
  BY DEF GKTypeOK, Kinds
<1>1. CASE UNCHANGED vars
  <2>1. PICK G \in SUBSET Nat : Secret(G) /\ OneByOne(G)
    BY <1>1 DEF LockInv, vars, history
  <2>2. Secret(G)' /\ OneByOne(G)'
    BY <1>1, <2>1 DEF vars, relayVars, clientVars, history, Secret, OneByOne, Sound, SoundAt, SafeFor, OfGroup,
       Good, Resting, RestsAt, BlocksOf, Shrinking, ShrinksAt, Invites, Awaited, Lowest, Due, Fewer,
       Changes, Covered, Has, Comes, Growing, GrowsAt
  <2>3. QED
    BY <2>2
<1>2. ASSUME \/ \E t \in Threads :
                  \/ CheckBlock(t) \/ ApplyBlock(t) \/ ListToCheck(t) \/ ObserveMembers(t)
                  \/ ListToRekey(t) \/ SealKey(t) \/ DeliverInvite(t) \/ ForgetGroup(t)
                  \/ LoseRequest(t)
             \/ \E u \in Users : FetchGroups(u)
      PROVE  \E G \in SUBSET Nat : Secret(G)' /\ OneByOne(G)'
  <2>1. calm' = calm /\ done["lost"] = 0
    <3>1. calm' = calm
      BY <1>2 DEF CheckBlock, ApplyBlock, ListToCheck, ObserveMembers, ListToRekey, SealKey,
         DeliverInvite, ForgetGroup, LoseRequest, FetchGroups, history
    <3>2. done' = done \/ LoseAnswer
      BY <1>2 DEF CheckBlock, ApplyBlock, ListToCheck, ObserveMembers, ListToRekey, SealKey,
         DeliverInvite, ForgetGroup, LoseRequest, FetchGroups, history, Read
    <3>3. LoseAnswer => done'["lost"] = done["lost"] + 1
      BY <1>0 DEF LoseAnswer
    <3>4. done' = done
      BY <1>0, <3>2, <3>3
    <3>5. QED
      BY <3>1, <3>4
  <2>2. PICK G \in SUBSET Nat : Secret(G) /\ OneByOne(G)
    BY <2>1 DEF LockInv
  <2>3. Keeps(G) /\ Secret(G)'
    BY <1>2, <2>1, <2>2, OrderKept DEF OneByOne, Orderly
  <2>4. OneByOne(G)'
    BY <2>2, <2>3 DEF OneByOne, Keeps
  <2>5. QED
    BY <2>3, <2>4
<1>3. ASSUME NEW t \in Threads, NewKey(t) PROVE \E G \in SUBSET Nat : Secret(G)' /\ OneByOne(G)'
  <2>1. calm /\ done["lost"] = 0
    BY <1>3 DEF NewKey
  <2>2. PICK G \in SUBSET Nat : Secret(G) /\ OneByOne(G)
    BY <2>1 DEF LockInv
  <2>3. CASE t[1] \notin thread[t].got
    <3>1. Keeps(G) /\ UNCHANGED <<members, known>>
      BY <1>3, <2>2, <2>3, NoKeyKeeps DEF OneByOne, Orderly
    <3>2. Secret(G)' /\ OneByOne(G)'
      BY <2>2, <3>1 DEF OneByOne, Keeps, Secret
    <3>3. QED
      BY <3>2
  <2>4. CASE t[1] \in thread[t].got
    <3>1. PICK H : H = G \cup {made + 1}
      OBVIOUS
    <3>2. /\ H \in SUBSET Nat /\ t[1] \in members /\ members' = members
          /\ known' = [known EXCEPT ![t[1]] = @ \cup {made + 1}]
          /\ ~Resting(G) /\ Sound(H)'
          /\ Shrinking => Shrinking' /\ Covered(H)'
          /\ Growing(G) => Growing(H)'
      BY <1>3, <2>2, <2>4, <3>1, KeyMade DEF OneByOne, Orderly
    <3>3. OneByOne(H)'
      BY <2>2, <3>2 DEF OneByOne
    <3>4. Secret(H)'
      <4>1. ASSUME NEW v \in Users \ members PROVE known'[v] \cap H = {}
        <5>1. known'[v] = known[v] /\ known[v] \cap G = {}
          BY <1>0, <2>2, <3>2, <4>1 DEF Secret
        <5>2. made + 1 \notin known[v]
          <6>1. \A n \in known[v] : n <= made
            BY <4>1 DEF Numbered
          <6>2. ~(made + 1 <= made)
            BY <1>0
          <6>3. QED
            BY <6>1, <6>2
        <5>3. QED
          BY <3>1, <5>1, <5>2
      <4>2. QED
        BY <3>2, <4>1 DEF Secret
    <3>5. QED
      BY <3>2, <3>3, <3>4
  <2>5. QED
    BY <2>3, <2>4
<1>4. ASSUME NEW u \in Users, NEW v \in Users,
             RequestInvite(u, v) \/ RequestGroups(u) \/ RequestKick(u, v) \/ RequestLeave(u)
      PROVE  \E G \in SUBSET Nat : Secret(G)' /\ OneByOne(G)'
  <2>1. PICK kind \in Kinds \ {"lost"} : \E bound : Ask(kind, bound)
    BY <1>4 DEF RequestInvite, RequestGroups, RequestKick, RequestLeave, Kinds
  <2>2. calm /\ Settled /\ done["lost"] = 0
    <3>1. done'["lost"] = done["lost"]
      BY <1>0, <2>1, AskIs
    <3>2. QED
      BY <2>1, <3>1 DEF Ask
  <2>3. PICK G \in SUBSET Nat : Secret(G) /\ OneByOne(G)
    BY <2>2 DEF LockInv
  <2>4. CASE RequestInvite(u, v)
    BY <2>2, <2>3, <2>4, InviteOrders DEF OneByOne
  <2>5. CASE RequestGroups(u)
    BY <2>2, <2>3, <2>5, GroupsOrders DEF OneByOne
  <2>6. CASE RequestKick(u, v) \/ RequestLeave(u)
    <3>1. PICK H \in SUBSET Nat : H = {}
      OBVIOUS
    <3>2. Sound(H)' /\ Shrinking' /\ (Covered(H)' \/ Awaited')
      BY <2>2, <2>6, DepartureOrders
    <3>3. Secret(H)'
      BY <3>1 DEF Secret
    <3>4. QED
      BY <3>2, <3>3 DEF OneByOne
  <2>7. QED
    BY <1>4, <2>4, <2>5, <2>6
<1>5. QED
  BY <1>1, <1>2, <1>3, <1>4 DEF Next, Work

LEMMA LockIsEnough == GKTypeOK /\ LockInv => DepartedLockedOut
<1> SUFFICES ASSUME GKTypeOK, LockInv, calm, Settled, done["lost"] = 0,
                    NEW u \in members, NEW v \in Users \ members
             PROVE  key[u] \cap known[v] = {}
  BY DEF DepartedLockedOut
<1>1. PICK G \in SUBSET Nat : Secret(G) /\ OneByOne(G)
  BY DEF LockInv
<1>2. key[u] \subseteq G
  BY <1>1, SettledRests DEF Resting, Good
<1>3. QED
  BY <1>1, <1>2 DEF Secret

\* Those who have left or were kicked do not know the key of anyone who is in, once the
\* requests that came one by one have settled, for any number of members, departures,
\* kicks and invitations.
THEOREM LockedOut == Spec => []DepartedLockedOut
<1>1. Init => Numbered /\ LockInv
  BY NumberedInit, LockInit
<1>2. GKTypeOK /\ Numbered /\ LockInv /\ [Next]_vars => Numbered' /\ LockInv'
  BY NumberedStep, LockStep
<1>3. GKTypeOK /\ LockInv => DepartedLockedOut
  BY LockIsEnough
<1>4. QED
  BY <1>1, <1>2, <1>3, GroupTypes, PTL DEF Spec

------------------------------------------------------------------------------
(* The members agree *)

\* Without kicks only poll loops look whether somebody has gone, and change the key.
PollsRekey ==
  \A u \in Users : thread[<<u, "req">>].at \notin {"check", "members", "relist", "rekey"}

\* Who is out remembers no list of members, once it has noticed that it is out.
OutForget ==
  \A u \in Users \ members : thread[<<u, "req">>].at = "left" \/ last[u] = {}

Rekeys(t) == thread[t].at \in {"relist", "rekey"}

\* The lowest member misses nobody.
NoDue == \A e \in members : Lowest(e, members) => ~Due(e)

\* Nobody misses anybody.
NoneMissed ==
  \A u \in Users : \A prev \in last[u] :
    /\ prev \subseteq members
    /\ Observes(u) => prev \subseteq Poll(u).got

\* One key is left, and nobody is about to make another.
OneLeft(G) ==
  /\ Sound(G) /\ \A t \in Threads : ~Rekeys(t)
  /\ Resting(G) \/ (Shrinking /\ Covered(G) /\ NoDue) \/ (Growing(G) /\ NoneMissed)

\* No key is left, and the lowest member alone will make one.
NoneLeft ==
  /\ Sound({}) /\ Shrinking /\ Awaited
  /\ \A t \in Threads : Rekeys(t) => Lowest(t[1], members)

AgreeInv ==
  calm /\ done["lost"] = 0 /\ done["kick"] = 0 =>
    PollsRekey /\ OutForget /\ (NoneLeft \/ \E k \in Nat : OneLeft({k}))

\* Where the threads go that do not look for departures.
LEMMA FetchMoves ==
  ASSUME GKTypeOK, NEW u \in Users, FetchGroups(u)
  PROVE  \E p : Moves(<<u, "poll">>, p) /\ p.at = "groups"
<1>1. PICK got \in {BlocksOf(u), {}} : Walks(<<u, "poll">>, [at |-> "groups", got |-> got])
  BY FetchWalks
<1>2. PICK p : p = [at |-> "groups", got |-> got]
  OBVIOUS
<1>3. Moves(<<u, "poll">>, p) /\ p.at = "groups"
  BY <1>1, <1>2 DEF Walks
<1>4. QED
  BY <1>3

LEMMA KeyMoves ==
  ASSUME GKTypeOK, NEW t \in Threads, CheckBlock(t) \/ ApplyBlock(t)
  PROVE  /\ thread[t].at \in {"groups", "apply"}
         /\ \E p : /\ Moves(t, p) /\ p.at \in {"idle", "check", "apply"}
                   /\ t[2] = "req" => p.at # "check"
<1>1. CASE CheckBlock(t)
  <2>1. PICK p : /\ Walks(t, p)
                 /\ \/ p \in {Idle, [at |-> "check"]} /\ (p # Idle => t[2] = "poll")
                    \/ \E b \in Blocks : p = [at |-> "apply", got |-> {b}]
    BY <1>1, CheckWalks
  <2>2. p.at \in {"idle", "check", "apply"} /\ (t[2] = "req" => p.at # "check")
    BY <2>1 DEF Idle
  <2>3. thread[t].at = "groups"
    BY <1>1, CheckWalks
  <2>4. QED
    BY <2>1, <2>2, <2>3 DEF Walks
<1>2. CASE ApplyBlock(t)
  <2>1. PICK p \in {Idle, [at |-> "check"]} : Moves(t, p) /\ (p # Idle => t[2] = "poll")
    BY <1>2, ApplyIs
  <2>2. p.at \in {"idle", "check"} /\ (t[2] = "req" => p.at # "check")
    BY <2>1 DEF Idle
  <2>3. thread[t].at = "apply"
    BY <1>2, ApplyIs
  <2>4. QED
    BY <2>1, <2>2, <2>3
<1>3. QED
  BY <1>1, <1>2

LEMMA ListMoves ==
  ASSUME GKTypeOK, NEW t \in Threads, ListToCheck(t) \/ ListToRekey(t)
  PROVE  \E p : Moves(t, p) /\ (p.at = "members" \/ thread[t].at = "relist")
<1>1. PICK got \in {MembersFor(t[1]), {}} :
        \/ Walks(t, [at |-> "members", got |-> got])
        \/ thread[t].at = "relist" /\ Walks(t, [at |-> "rekey", got |-> got])
  BY ListWalks
<1>2. CASE Walks(t, [at |-> "members", got |-> got])
  <2>1. PICK p : p = [at |-> "members", got |-> got]
    OBVIOUS
  <2>2. QED
    BY <1>2, <2>1 DEF Walks
<1>3. CASE thread[t].at = "relist" /\ Walks(t, [at |-> "rekey", got |-> got])
  BY <1>3 DEF Walks
<1>4. QED
  BY <1>1, <1>2, <1>3

LEMMA InviteMoves ==
  ASSUME GKTypeOK, NEW t \in Threads, SealKey(t) \/ DeliverInvite(t)
  PROVE  \E p : Moves(t, p) /\ p.at \in {"seal", "deliver", "idle"}
<1>1. \A todo : Invite(todo).at \in {"seal", "idle"}
  BY DEF Invite, Idle
<1>2. CASE DeliverInvite(t)
  BY <1>1, <1>2, DeliverIs DEF Walks
<1>3. CASE SealKey(t)
  <2>1. PICK u, to, todo :
          \/ Moves(t, Invite(todo))
          \/ \E k \in key[u] :
               Moves(t, [at |-> "deliver", to |-> to, todo |-> todo, sealed |-> Block(k, u, sealed + 1)])
    BY <1>3, SealIs
  <2>2. CASE Moves(t, Invite(todo))
    BY <1>1, <2>2
  <2>3. ASSUME NEW k \in key[u],
               Moves(t, [at |-> "deliver", to |-> to, todo |-> todo, sealed |-> Block(k, u, sealed + 1)])
        PROVE  \E p : Moves(t, p) /\ p.at \in {"seal", "deliver", "idle"}
    <3>1. PICK p : p = [at |-> "deliver", to |-> to, todo |-> todo, sealed |-> Block(k, u, sealed + 1)]
      OBVIOUS
    <3>2. Moves(t, p) /\ p.at = "deliver"
      BY <2>3, <3>1
    <3>3. QED
      BY <3>2
  <2>4. QED
    BY <2>1, <2>2, <2>3
<1>4. QED
  BY <1>2, <1>3

LEMMA PollsRekeyStep ==
  ASSUME GKTypeOK, PollsRekey, [Next]_vars, done'["kick"] = done["kick"]
  PROVE  PollsRekey'
<1>0. /\ done["kick"] \in Nat /\ done \in [Kinds -> Nat] /\ calm \in BOOLEAN
      /\ Idle.at = "idle" /\ thread \in [Threads -> Places] /\ "kick" \in Kinds
  BY DEF GKTypeOK, Kinds, Idle
<1> DEFINE Far(p) == p.at \notin {"check", "members", "relist", "rekey"}
<1>1. ASSUME NEW t, NEW p, Moves(t, p), t[2] = "req" => Far(p) PROVE PollsRekey'
  <2>1. \A u \in Users : <<u, "req">> \in Threads /\ <<u, "req">>[2] = "req"
    BY ThreadIs
  <2>2. thread'[t] = p /\ \A s \in Threads : s # t => thread'[s] = thread[s]
    BY <1>1 DEF Moves
  <2>3. QED
    BY <1>1, <2>1, <2>2 DEF PollsRekey
<1>2. \A u \in Users : \A t : t = <<u, "req">> => thread[t].at \notin {"check", "members", "relist", "rekey"}
  BY DEF PollsRekey
<1>3. ASSUME NEW t \in Threads, thread[t].at \in {"check", "members", "relist", "rekey"}
      PROVE  t[2] = "poll"
  <2>1. t[1] \in Users /\ t[2] \in {"poll", "req"} /\ t = <<t[1], t[2]>>
    BY DEF Threads
  <2>2. QED
    BY <1>2, <1>3, <2>1
<1> HIDE DEF Far
<1>4. ASSUME NEW t \in Threads, ListToCheck(t) \/ ListToRekey(t) PROVE PollsRekey'
  <2>1. t[2] = "poll"
    BY <1>3, <1>4 DEF ListToCheck, ListToRekey
  <2>2. PICK p : Moves(t, p)
    BY <1>4, ListMoves
  <2>3. QED
    BY <1>1, <2>1, <2>2
<1>5. ASSUME NEW t \in Threads, ObserveMembers(t) PROVE PollsRekey'
  <2>1. t[2] = "poll"
    BY <1>3, <1>5 DEF ObserveMembers
  <2>2. PICK p : Moves(t, p)
    BY <1>5, ObserveIs
  <2>3. QED
    BY <1>1, <2>1, <2>2
<1>6. ASSUME NEW t \in Threads, NewKey(t) PROVE PollsRekey'
  <2>1. t[2] = "poll"
    BY <1>3, <1>6 DEF NewKey
  <2>2. PICK p : Moves(t, p)
    BY <1>6, NewKeyIs DEF Walks
  <2>3. QED
    BY <1>1, <2>1, <2>2
<1>7. ASSUME NEW t \in Threads, CheckBlock(t) \/ ApplyBlock(t) PROVE PollsRekey'
  <2>1. PICK p : /\ Moves(t, p) /\ p.at \in {"idle", "check", "apply"}
                 /\ t[2] = "req" => p.at # "check"
    BY <1>7, KeyMoves
  <2>2. t[2] = "req" => Far(p)
    BY <2>1 DEF Far
  <2>3. QED
    BY <1>1, <2>1, <2>2
<1>8. ASSUME NEW t \in Threads, SealKey(t) \/ DeliverInvite(t) PROVE PollsRekey'
  <2>1. PICK p : Moves(t, p) /\ p.at \in {"seal", "deliver", "idle"}
    BY <1>8, InviteMoves
  <2>2. Far(p)
    BY <2>1 DEF Far
  <2>3. QED
    BY <1>1, <2>1, <2>2
<1>9. ASSUME NEW t \in Threads, ForgetGroup(t) \/ LoseRequest(t) PROVE PollsRekey'
  <2>1. Moves(t, Idle) /\ Far(Idle)
    BY <1>0, <1>9, ForgetIs, LoseIs DEF Walks, Far
  <2>2. QED
    BY <1>1, <2>1
<1>10. ASSUME NEW u \in Users, FetchGroups(u) PROVE PollsRekey'
  <2>1. PICK p : Moves(<<u, "poll">>, p) /\ p.at = "groups"
    BY <1>10, FetchMoves
  <2>2. Far(p)
    BY <2>1 DEF Far
  <2>3. QED
    BY <1>1, <2>1, <2>2
<1>11. ASSUME NEW u \in Users, NEW v \in Users, RequestKick(u, v) PROVE FALSE
  BY <1>0, <1>11, AskIs DEF RequestKick
<1>12. ASSUME NEW u \in Users, NEW v \in Users,
              RequestInvite(u, v) \/ RequestGroups(u) \/ RequestLeave(u)
       PROVE  PollsRekey'
  <2>1. PICK p : /\ p \in {[at |-> "seal", todo |-> {v}], [at |-> "left"],
                           [at |-> "groups", got |-> BlocksOf(u)]}
                 /\ Go(<<u, "req">>, p)
    BY <1>12, RequestsAre DEF Requested
  <2>2. p \in Places /\ <<u, "req">> \in Threads
    <3>1. [at |-> "seal", todo |-> {v}] \in Places /\ [at |-> "left"] \in Places
      BY DEF Places
    <3>2. [at |-> "groups", got |-> BlocksOf(u)] \in Places
      BY AnswersOK DEF Places
    <3>3. QED
      BY <2>1, <3>1, <3>2, ThreadIs
  <2>3. Moves(<<u, "req">>, p) /\ Far(p)
    BY <2>1, <2>2, MovesTo DEF Far
  <2>4. QED
    BY <1>1, <2>3
<1>13. CASE UNCHANGED vars
  BY <1>13 DEF vars, PollsRekey
<1>14. QED
  BY <1>4, <1>5, <1>6, <1>7, <1>8, <1>9, <1>10, <1>11, <1>12, <1>13 DEF Next, Work

\* Who begins to change the key has seen the group shrink.
LEMMA WhoRekeys ==
  ASSUME GKTypeOK, done'["lost"] = done["lost"],
         \/ \E t \in Threads :
              \/ CheckBlock(t) \/ ApplyBlock(t) \/ ListToCheck(t) \/ ObserveMembers(t)
              \/ ListToRekey(t) \/ SealKey(t) \/ DeliverInvite(t) \/ ForgetGroup(t)
              \/ LoseRequest(t)
         \/ \E u \in Users : FetchGroups(u),
         NEW s \in Threads, Rekeys(s)'
  PROVE  \/ Rekeys(s)
         \/ ObserveMembers(s) /\ s[1] \in thread[s].got /\ Elected(s[1], thread[s].got)
<1>1. ASSUME NEW t, NEW p, Moves(t, p), p.at \in {"relist", "rekey"} => Rekeys(t) PROVE Rekeys(s)
  <2>1. thread'[t] = p /\ (s # t => thread'[s] = thread[s])
    BY <1>1 DEF Moves
  <2>2. QED
    BY <1>1, <2>1 DEF Rekeys
<1>2. ASSUME NEW t \in Threads,
             CheckBlock(t) \/ ApplyBlock(t) \/ ForgetGroup(t) \/ LoseRequest(t)
      PROVE  Rekeys(s)
  <2>1. PICK p : Moves(t, p) /\ p.at \in {"idle", "check", "apply"}
    BY <1>2, KeyMoves, ForgetIs, LoseIs DEF Walks, Idle
  <2>2. QED
    BY <1>1, <2>1
<1>3. ASSUME NEW t \in Threads, SealKey(t) \/ DeliverInvite(t) PROVE Rekeys(s)
  <2>1. PICK p : Moves(t, p) /\ p.at \in {"seal", "deliver", "idle"}
    BY <1>3, InviteMoves
  <2>2. QED
    BY <1>1, <2>1
<1>4. ASSUME NEW t \in Threads, ListToCheck(t) \/ ListToRekey(t) PROVE Rekeys(s)
  <2>1. PICK p : Moves(t, p) /\ (p.at = "members" \/ thread[t].at = "relist")
    BY <1>4, ListMoves
  <2>2. QED
    BY <1>1, <2>1 DEF Rekeys
<1>5. ASSUME NEW u \in Users, FetchGroups(u) PROVE Rekeys(s)
  <2>1. PICK p : Moves(<<u, "poll">>, p) /\ p.at = "groups"
    BY <1>5, FetchMoves
  <2>2. QED
    BY <1>1, <2>1
<1>6. ASSUME NEW t \in Threads, ObserveMembers(t), ~Rekeys(s)
      PROVE  s = t /\ s[1] \in thread[s].got /\ Elected(s[1], thread[s].got)
  <2>1. CASE t[1] \in thread[t].got /\ Elected(t[1], thread[t].got)
    <3>1. Moves(t, [at |-> "relist"])
      BY <1>6, <2>1, ObserveIs
    <3>2. s # t => thread'[s] = thread[s]
      BY <3>1 DEF Moves
    <3>3. QED
      BY <1>6, <2>1, <3>2 DEF Rekeys
  <2>2. CASE ~(t[1] \in thread[t].got /\ Elected(t[1], thread[t].got))
    <3>1. Moves(t, Idle) /\ Idle.at = "idle"
      BY <1>6, <2>2, ObserveIs DEF Idle
    <3>2. QED
      BY <1>1, <1>6, <3>1
  <2>3. QED
    BY <2>1, <2>2
<1>7. QED
  BY <1>2, <1>3, <1>4, <1>5, <1>6

\* What clients remember of the members changes with a list, or is forgotten.
LEMMA LastChanges ==
  ASSUME GKTypeOK,
         \/ \E t \in Threads :
              \/ CheckBlock(t) \/ ApplyBlock(t) \/ ListToCheck(t) \/ ObserveMembers(t)
              \/ ListToRekey(t) \/ SealKey(t) \/ DeliverInvite(t) \/ ForgetGroup(t)
              \/ LoseRequest(t)
         \/ \E u \in Users : FetchGroups(u),
         NEW v \in Users
  PROVE  \/ last'[v] = last[v] \/ last'[v] = {}
         \/ \E t \in Threads : /\ ObserveMembers(t) /\ v = t[1] /\ v \in thread[t].got
                               /\ last'[v] = {thread[t].got}
<1>1. last \in [Users -> AtMostOne(SUBSET Users)]
  BY DEF GKTypeOK
<1>2. ASSUME NEW t \in Threads, ObserveMembers(t)
      PROVE  \/ last'[v] = last[v]
             \/ v = t[1] /\ v \in thread[t].got /\ last'[v] = {thread[t].got}
  BY <1>1, <1>2, ObserveIs
<1>3. ASSUME NEW t \in Threads, ForgetGroup(t) PROVE last'[v] = last[v] \/ last'[v] = {}
  BY <1>1, <1>3, ForgetIs
<1>4. ASSUME NEW t \in Threads, \/ CheckBlock(t) \/ ApplyBlock(t) \/ ListToCheck(t)
                                \/ ListToRekey(t) \/ SealKey(t) \/ DeliverInvite(t) \/ LoseRequest(t)
      PROVE  last' = last
  BY <1>4 DEF CheckBlock, ApplyBlock, ListToCheck, ListToRekey, SealKey, DeliverInvite,
     LoseRequest, clientVars
<1>5. ASSUME NEW u \in Users, FetchGroups(u) PROVE last' = last
  BY <1>5 DEF FetchGroups, clientVars
<1>6. QED
  BY <1>2, <1>3, <1>4, <1>5

\* A member sees nothing but members, and nobody else sees anything.
LEMMA SeenAreMembers ==
  ASSUME GKTypeOK, NEW G \in SUBSET Nat, Orderly(G), NEW t \in Threads, ObserveMembers(t)
  PROVE  /\ thread[t].got \subseteq members
         /\ Resting(G) \/ Shrinking => thread[t].got \in {members, {}}
<1>1. thread[t].at = "members"
  BY ObserveIs
<1>2. QED
  BY <1>1 DEF Orderly, Resting, Shrinking, Growing, RestsAt, ShrinksAt, GrowsAt

\* A thread that has left goes nowhere but to forget.
LEMMA LeftStays ==
  ASSUME GKTypeOK, done'["lost"] = done["lost"],
         \/ \E t \in Threads :
              \/ CheckBlock(t) \/ ApplyBlock(t) \/ ListToCheck(t) \/ ObserveMembers(t)
              \/ ListToRekey(t) \/ SealKey(t) \/ DeliverInvite(t) \/ ForgetGroup(t)
              \/ LoseRequest(t)
         \/ \E u \in Users : FetchGroups(u),
         NEW v \in Users, thread[<<v, "req">>].at = "left"
  PROVE  thread'[<<v, "req">>].at = "left" \/ last'[v] = {}
<1>0. done["lost"] \in Nat /\ last \in [Users -> AtMostOne(SUBSET Users)]
  BY DEF GKTypeOK, Kinds
<1>1. PICK r : r = <<v, "req">> /\ r \in Threads /\ r[1] = v
  BY ThreadIs, ZenonT(40)
<1>2. ASSUME NEW t, NEW p, Moves(t, p), thread[t].at # "left" PROVE thread'[r] = thread[r]
  BY <1>1, <1>2 DEF Moves
<1>3. ASSUME NEW t \in Threads, \/ CheckBlock(t) \/ ApplyBlock(t)
                                \/ ListToCheck(t) \/ ObserveMembers(t)
                                \/ ListToRekey(t) \/ SealKey(t) \/ DeliverInvite(t)
      PROVE  thread'[r] = thread[r]
  <2>1. thread[t].at # "left"
    BY <1>3 DEF CheckBlock, ApplyBlock, ListToCheck, ObserveMembers, ListToRekey, SealKey,
       DeliverInvite
  <2>2. CASE CheckBlock(t) \/ ApplyBlock(t)
    BY <1>2, <2>1, <2>2, KeyMoves
  <2>3. CASE ListToCheck(t) \/ ListToRekey(t)
    BY <1>2, <2>1, <2>3, ListMoves
  <2>4. CASE ObserveMembers(t)
    BY <1>2, <2>1, <2>4, ObserveIs
  <2>5. CASE SealKey(t) \/ DeliverInvite(t)
    BY <1>2, <2>1, <2>5, InviteMoves
  <2>6. QED
    BY <1>3, <2>2, <2>3, <2>4, <2>5
<1>4. ASSUME NEW u \in Users, FetchGroups(u) PROVE thread'[r] = thread[r]
  <2>1. thread[<<u, "poll">>].at # "left"
    BY <1>4 DEF FetchGroups, Idle
  <2>2. QED
    BY <1>2, <1>4, <2>1, FetchMoves
<1>5. ASSUME NEW t \in Threads, ForgetGroup(t) PROVE thread'[r] = thread[r] \/ last'[v] = {}
  <2>1. CASE t = r
    BY <1>0, <1>1, <1>5, <2>1, ForgetIs
  <2>2. CASE t # r
    BY <1>1, <1>5, <2>2, ForgetIs DEF Moves
  <2>3. QED
    BY <2>1, <2>2
<1>6. ASSUME NEW t \in Threads, LoseRequest(t) PROVE FALSE
  BY <1>0, <1>6, LoseIs
<1>7. QED
  BY <1>1, <1>3, <1>4, <1>5, <1>6

LEMMA OutForgetStep ==
  ASSUME GKTypeOK, done'["lost"] = done["lost"], NEW G \in SUBSET Nat, Orderly(G), OutForget,
         \/ \E t \in Threads :
              \/ CheckBlock(t) \/ ApplyBlock(t) \/ ListToCheck(t) \/ ObserveMembers(t)
              \/ ListToRekey(t) \/ SealKey(t) \/ DeliverInvite(t) \/ ForgetGroup(t)
              \/ LoseRequest(t)
         \/ \E u \in Users : FetchGroups(u)
  PROVE  OutForget' /\ members \subseteq members'
<1>1. members \subseteq members'
  <2>1. ASSUME NEW t \in Threads, DeliverInvite(t) PROVE members \subseteq members'
    BY <2>1, DeliverIs DEF Walks
  <2>2. QED
    BY <2>1 DEF CheckBlock, ApplyBlock, ListToCheck, ObserveMembers, ListToRekey, SealKey,
       ForgetGroup, LoseRequest, FetchGroups, relayVars
<1>2. ASSUME NEW v \in Users \ members' PROVE thread'[<<v, "req">>].at = "left" \/ last'[v] = {}
  <2>1. v \in Users /\ v \notin members
    BY <1>1
  <2>2. CASE thread[<<v, "req">>].at = "left"
    BY <2>1, <2>2, LeftStays
  <2>3. CASE last[v] = {}
    <3>1. ASSUME NEW t \in Threads, ObserveMembers(t), v \in thread[t].got PROVE FALSE
      BY <2>1, <3>1, SeenAreMembers
    <3>2. QED
      BY <2>1, <2>3, <3>1, LastChanges
  <2>4. QED
    BY <2>1, <2>2, <2>3 DEF OutForget
<1>3. QED
  BY <1>1, <1>2 DEF OutForget

LEMMA NoneLeftStep ==
  ASSUME GKTypeOK, Numbered, done'["lost"] = done["lost"], NoneLeft,
         \/ \E t \in Threads :
              \/ CheckBlock(t) \/ ApplyBlock(t) \/ ListToCheck(t) \/ ObserveMembers(t)
              \/ ListToRekey(t) \/ SealKey(t) \/ DeliverInvite(t) \/ ForgetGroup(t)
              \/ LoseRequest(t)
         \/ \E u \in Users : FetchGroups(u)
  PROVE  NoneLeft'
<1>1. PICK G \in SUBSET Nat : G = {}
  OBVIOUS
<1>2. Sound(G) /\ Shrinking /\ Awaited /\ Orderly(G)
  BY <1>1 DEF NoneLeft, Orderly
<1>3. Sound(G)' /\ Shrinking' /\ Awaited' /\ members' = members
  BY <1>2, OrderKept DEF Keeps
<1>4. ASSUME NEW s \in Threads, Rekeys(s)' PROVE Lowest(s[1], members)
  <2>1. CASE Rekeys(s)
    BY <2>1 DEF NoneLeft
  <2>2. CASE ObserveMembers(s) /\ s[1] \in thread[s].got /\ Elected(s[1], thread[s].got)
    <3>1. PICK got : got = thread[s].got
      OBVIOUS
    <3>2. got \in {members, {}} /\ s[1] \in got
      BY <1>2, <2>2, <3>1, SeenAreMembers
    <3>3. got = members /\ got \in SUBSET Users /\ s[1] \in Users
      BY <3>2 DEF GKTypeOK, Threads
    <3>4. Lowest(s[1], got)
      BY <2>2, <3>1, <3>3, ElectedIs
    <3>5. QED
      BY <3>3, <3>4
  <2>3. QED
    BY <1>4, <2>1, <2>2, WhoRekeys
<1>5. \A s \in Threads : Rekeys(s)' => Lowest(s[1], members)'
  BY <1>3, <1>4 DEF Lowest
<1>6. QED
  BY <1>1, <1>3, <1>5 DEF NoneLeft

LEMMA OneLeftStep ==
  ASSUME GKTypeOK, Numbered, PollsRekey, done'["lost"] = done["lost"], NEW k \in Nat, OneLeft({k}),
         \/ \E t \in Threads :
              \/ CheckBlock(t) \/ ApplyBlock(t) \/ ListToCheck(t) \/ ObserveMembers(t)
              \/ ListToRekey(t) \/ SealKey(t) \/ DeliverInvite(t) \/ ForgetGroup(t)
              \/ LoseRequest(t)
         \/ \E u \in Users : FetchGroups(u)
  PROVE  OneLeft({k})'
<1>0. members \subseteq Users /\ thread \in [Threads -> Places] /\ last \in [Users -> AtMostOne(SUBSET Users)]
  BY DEF GKTypeOK
<1>1. PICK G \in SUBSET Nat : G = {k}
  OBVIOUS
<1>2. Sound(G) /\ Orderly(G) /\ \A t \in Threads : ~Rekeys(t)
  BY <1>1 DEF OneLeft, Orderly
<1>3. Keeps(G)
  BY <1>2, OrderKept
<1>4. ASSUME NEW t \in Threads, ObserveMembers(t), t[1] \in thread[t].got, Elected(t[1], thread[t].got)
      PROVE  FALSE
  <2>1. PICK u, got : u = t[1] /\ got = thread[t].got
    OBVIOUS
  <2>2. /\ got \subseteq members /\ (Resting(G) \/ Shrinking => got = members) /\ u \in got
        /\ thread[t].at = "members" /\ u \in members /\ u \in Users
    BY <1>0, <1>2, <1>4, <2>1, SeenAreMembers, ObserveIs
  <2>3. PICK prev \in last[u] : got \subseteq prev /\ got # prev
    BY <1>4, <2>1 DEF Elected
  <2>4. CASE Resting(G)
    BY <2>2, <2>3, <2>4 DEF Resting
  <2>5. CASE Shrinking /\ NoDue
    <3>1. Due(u)
      BY <2>2, <2>3, <2>5 DEF Due, Fewer
    <3>2. got = members /\ got \in SUBSET Users
      BY <1>0, <2>2, <2>5
    <3>3. Lowest(u, got)
      BY <1>4, <2>1, <2>2, <3>2, ElectedIs
    <3>4. QED
      BY <2>2, <2>5, <3>1, <3>2, <3>3 DEF NoDue
  <2>6. CASE NoneMissed
    <3>1. t = <<u, "poll">>
      <4>1. t[2] \in {"poll", "req"} /\ t = <<u, t[2]>>
        BY <2>1 DEF Threads
      <4>2. t # <<u, "req">>
        BY <2>2 DEF PollsRekey
      <4>3. QED
        BY <4>1, <4>2
    <3>2. prev \subseteq got
      BY <2>1, <2>2, <2>3, <2>6, <3>1 DEF NoneMissed, Observes, Poll
    <3>3. QED
      BY <2>3, <3>2
  <2>7. QED
    BY <1>1, <2>4, <2>5, <2>6 DEF OneLeft
<1>5. \A t \in Threads : ~Rekeys(t)'
  BY <1>2, <1>4, WhoRekeys
<1>6. ASSUME Shrinking, NoDue PROVE NoDue'
  <2>1. members' = members
    BY <1>3, <1>6 DEF Keeps
  <2>2. ASSUME NEW e \in members, Lowest(e, members), Due(e)' PROVE FALSE
    <3>1. e \in Users
      BY <1>0
    <3>2. CASE last'[e] = last[e] \/ last'[e] = {}
      BY <1>6, <2>1, <2>2, <3>2 DEF NoDue, Due, Fewer
    <3>3. ASSUME NEW t \in Threads, ObserveMembers(t), e \in thread[t].got, last'[e] = {thread[t].got}
          PROVE  FALSE
      <4>1. thread[t].got = members
        BY <1>2, <1>6, <3>3, SeenAreMembers
      <4>2. QED
        BY <2>1, <2>2, <3>3, <4>1 DEF Due, Fewer
    <3>4. QED
      BY <3>1, <3>2, <3>3, LastChanges
  <2>3. QED
    BY <2>1, <2>2 DEF NoDue, Lowest
<1>7. ASSUME Growing(G), NoneMissed PROVE NoneMissed'
  <2>1. members \subseteq members'
    <3>1. ASSUME NEW t \in Threads, DeliverInvite(t) PROVE members \subseteq members'
      BY <3>1, DeliverIs DEF Walks
    <3>2. QED
      BY <3>1 DEF CheckBlock, ApplyBlock, ListToCheck, ObserveMembers, ListToRekey, SealKey,
         ForgetGroup, LoseRequest, FetchGroups, relayVars
  <2>2. ASSUME NEW v \in Users, NEW prev \in last'[v] PROVE prev \subseteq members
    <3>1. CASE last'[v] = last[v] \/ last'[v] = {}
      BY <1>7, <2>2, <3>1 DEF NoneMissed
    <3>2. ASSUME NEW t \in Threads, ObserveMembers(t), last'[v] = {thread[t].got} PROVE prev \subseteq members
      BY <1>2, <2>2, <3>2, SeenAreMembers
    <3>3. QED
      BY <3>1, <3>2, LastChanges
  <2>3. ASSUME NEW v \in Users, NEW prev \in last'[v], NEW q, q = thread'[<<v, "poll">>],
               q.at = "members", v \in q.got
        PROVE  prev \subseteq q.got
    <3>1. PICK r \in Threads : r = <<v, "poll">> /\ r[1] = v /\ r[2] = "poll"
      BY ThreadIs
    <3>2. CASE thread'[r] = thread[r]
      <4>1. last'[v] = last[v] \/ last'[v] = {}
        <5>1. ASSUME NEW t \in Threads, ObserveMembers(t), v = t[1] PROVE FALSE
          <6>1. thread[t].at = "members" /\ (Moves(t, Idle) \/ Moves(t, [at |-> "relist"]))
            BY <5>1, ObserveIs
          <6>2. thread'[t].at # "members"
            BY <6>1 DEF Moves, Idle
          <6>3. t = r
            <7>1. t[2] \in {"poll", "req"} /\ t = <<v, t[2]>>
              BY <5>1 DEF Threads
            <7>2. t # <<v, "req">>
              BY <6>1 DEF PollsRekey
            <7>3. QED
              BY <3>1, <7>1, <7>2
          <6>4. QED
            BY <2>3, <3>1, <6>2, <6>3
        <5>2. QED
          BY <5>1, LastChanges
      <4>2. QED
        BY <1>7, <2>3, <3>1, <3>2, <4>1 DEF NoneMissed, Observes, Poll
    <3>3. ASSUME NEW t \in Threads, ListToCheck(t), t = r PROVE prev \subseteq q.got
      <4>1. thread[t].at = "check"
        BY <3>3 DEF ListToCheck
      <4>2. PICK got \in {MembersFor(v), {}} : Walks(t, [at |-> "members", got |-> got])
        BY <3>1, <3>3, <4>1, ListWalks
      <4>3. q.got = got /\ last' = last
        BY <2>3, <3>1, <3>3, <4>2 DEF Walks, Moves
      <4>4. got = members
        BY <2>3, <4>3 DEF MembersFor
      <4>5. QED
        BY <2>2, <4>3, <4>4
    <3>4. ASSUME NEW t, NEW p, Moves(t, p), p.at # "members" PROVE thread'[r] = thread[r]
      BY <2>3, <3>1, <3>4 DEF Moves
    <3>5. ASSUME NEW t \in Threads, \/ CheckBlock(t) \/ ApplyBlock(t)
                                    \/ ForgetGroup(t) \/ LoseRequest(t)
                                    \/ SealKey(t) \/ DeliverInvite(t) \/ ObserveMembers(t)
          PROVE  thread'[r] = thread[r]
      <4>1. CASE CheckBlock(t) \/ ApplyBlock(t) \/ ForgetGroup(t) \/ LoseRequest(t)
        <5>1. PICK p : Moves(t, p) /\ p.at \in {"idle", "check", "apply"}
          BY <4>1, KeyMoves, ForgetIs, LoseIs DEF Walks, Idle
        <5>2. QED
          BY <3>4, <5>1
      <4>2. CASE SealKey(t) \/ DeliverInvite(t)
        <5>1. PICK p : Moves(t, p) /\ p.at \in {"seal", "deliver", "idle"}
          BY <4>2, InviteMoves
        <5>2. QED
          BY <3>4, <5>1
      <4>3. CASE ObserveMembers(t)
        <5>1. Moves(t, Idle) \/ Moves(t, [at |-> "relist"])
          BY <4>3, ObserveIs
        <5>2. Idle.at = "idle"
          BY DEF Idle
        <5>3. QED
          BY <3>4, <5>1, <5>2
      <4>4. QED
        BY <3>5, <4>1, <4>2, <4>3
    <3>6. ASSUME NEW t \in Threads, ListToRekey(t) PROVE FALSE
      BY <1>2, <3>6 DEF Rekeys, ListToRekey
    <3>7. ASSUME NEW u \in Users, FetchGroups(u) PROVE thread'[r] = thread[r]
      <4>1. PICK p : Moves(<<u, "poll">>, p) /\ p.at = "groups"
        BY <3>7, FetchMoves
      <4>2. QED
        BY <3>4, <4>1
    <3>8. ASSUME NEW t \in Threads, ListToCheck(t), t # r PROVE thread'[r] = thread[r]
      BY <3>1, <3>8, ListMoves DEF Moves
    <3>9. QED
      BY <3>2, <3>3, <3>5, <3>6, <3>7, <3>8
  <2>4. QED
    BY <2>1, <2>2, <2>3 DEF NoneMissed, Observes, Poll
<1>8. QED
  BY <1>1, <1>3, <1>5, <1>6, <1>7 DEF OneLeft, Keeps

\* The lowest member makes the one key that is left.
LEMMA AgreeMade ==
  ASSUME GKTypeOK, PollsRekey, OutForget, NoneLeft, NEW t \in Threads, NewKey(t),
         NEW k, k = made + 1
  PROVE  k \in Nat /\ OneLeft({k})' /\ OutForget'
<1>0. members \subseteq Users /\ members \subseteq Nat /\ made \in Nat
      /\ last \in [Users -> AtMostOne(SUBSET Users)]
  BY NamesAssumption DEF GKTypeOK
<1>1. PICK G \in SUBSET Nat : G = {}
  OBVIOUS
<1>2. PICK H : H = G \cup {made + 1}
  OBVIOUS
<1>3. Shrinking /\ Orderly(G) /\ \A s \in Threads : Rekeys(s) => Lowest(s[1], members)
  BY <1>1 DEF NoneLeft, Orderly
<1>4. PICK u, got : u = t[1] /\ got = thread[t].got
  OBVIOUS
<1>5. thread[t].at = "rekey" /\ got = members /\ u \in members /\ u \in Users
  BY <1>0, <1>3, <1>4, NewKeyIs DEF Shrinking, ShrinksAt
<1>6. /\ Moves(t, Invite(got \ {u}))
      /\ last' = [last EXCEPT ![u] = {got}]
  BY <1>4, <1>5, NewKeyIs
<1>7. members' = members /\ Sound(H)' /\ Shrinking' /\ Covered(H)'
  BY <1>2, <1>3, <1>4, <1>5, KeyMade
<1>8. /\ thread'[t].at \in {"seal", "idle"}
      /\ \A s \in Threads : s # t => thread'[s] = thread[s]
  BY <1>6 DEF Moves, Invite, Idle
<1>9. ASSUME NEW s \in Threads, Rekeys(s) PROVE s = t
  <2>1. s[1] \in members /\ Lowest(s[1], members) /\ Lowest(u, members)
    BY <1>3, <1>4, <1>5, <1>9 DEF Shrinking, ShrinksAt, Rekeys
  <2>2. s[1] = u
    <3>1. PICK x : x = s[1]
      OBVIOUS
    <3>2. x \in Nat /\ u \in Nat /\ x <= u /\ u <= x
      BY <1>0, <1>5, <2>1, <3>1 DEF Lowest
    <3>3. QED
      BY <3>1, <3>2
  <2>3. /\ s[2] \in {"poll", "req"} /\ s = <<u, s[2]>>
        /\ t[2] \in {"poll", "req"} /\ t = <<u, t[2]>>
    BY <1>4, <2>2 DEF Threads
  <2>4. s # <<u, "req">> /\ t # <<u, "req">>
    BY <1>5, <1>9 DEF PollsRekey, Rekeys
  <2>5. QED
    BY <2>3, <2>4
<1>10. \A s \in Threads : ~Rekeys(s)'
  BY <1>8, <1>9 DEF Rekeys
<1>11. NoDue'
  <2>1. ASSUME NEW e \in members, Lowest(e, members) PROVE ~\E prev \in last'[e] : Fewer(prev)
    <3>1. Lowest(u, members)
      BY <1>3, <1>4, <1>5 DEF Rekeys
    <3>2. e = u
      BY <1>0, <1>5, <2>1, <3>1 DEF Lowest
    <3>3. last'[e] = {members}
      BY <1>0, <1>5, <1>6, <3>2
    <3>4. QED
      BY <3>3 DEF Fewer
  <2>2. QED
    BY <1>7, <2>1 DEF NoDue, Lowest, Due, Fewer
<1>12. OutForget'
  <2>1. ASSUME NEW v \in Users \ members PROVE thread'[<<v, "req">>].at = "left" \/ last'[v] = {}
    <3>1. PICK r : r = <<v, "req">> /\ r \in Threads /\ r[1] = v
      BY ThreadIs
    <3>2. r # t /\ v # u
      BY <1>4, <1>5, <2>1, <3>1
    <3>3. thread'[r] = thread[r] /\ last'[v] = last[v]
      BY <1>0, <1>6, <1>8, <3>1, <3>2
    <3>4. QED
      BY <3>1, <3>3 DEF OutForget
  <2>2. QED
    BY <1>7, <2>1 DEF OutForget
<1>13. H = {k} /\ k \in Nat
  BY <1>0, <1>1, <1>2
<1>14. QED
  BY <1>7, <1>10, <1>11, <1>12, <1>13 DEF OneLeft

\* When the group has settled, a key is left that all members have.
LEMMA SettledAgree ==
  ASSUME GKTypeOK, Settled, NoneLeft \/ \E k \in Nat : OneLeft({k})
  PROVE  \E k \in Nat : OneLeft({k}) /\ OneByOne({k}) /\ Resting({k})
<1>1. ASSUME NoneLeft PROVE FALSE
  <2>1. PICK G \in SUBSET Nat : G = {}
    OBVIOUS
  <2>2. OneByOne(G)
    BY <1>1, <2>1 DEF NoneLeft, OneByOne
  <2>3. Resting(G)
    BY <2>2, SettledRests
  <2>4. PICK e \in members : TRUE
    BY <1>1 DEF NoneLeft, Awaited
  <2>5. QED
    BY <2>1, <2>3, <2>4 DEF Resting, Good
<1>2. PICK k \in Nat : OneLeft({k})
  BY <1>1
<1>3. PICK G \in SUBSET Nat : G = {k}
  OBVIOUS
<1>4. OneByOne(G)
  BY <1>2, <1>3 DEF OneLeft, OneByOne
<1>5. Resting(G)
  BY <1>4, SettledRests
<1>6. QED
  BY <1>2, <1>3, <1>4, <1>5

LEMMA SettledForget ==
  ASSUME GKTypeOK, Settled, OutForget
  PROVE  \A v \in Users \ members : last[v] = {}
<1>1. ASSUME NEW v \in Users \ members PROVE thread[<<v, "req">>].at # "left"
  <2>1. PICK r : r = <<v, "req">> /\ r \in Threads
    BY ThreadIs
  <2>2. QED
    BY <2>1, SettledIsQuiet DEF Quiet
<1>2. QED
  BY <1>1 DEF OutForget

\* A request that is not to leave.
LEMMA AgreeAsked ==
  ASSUME GKTypeOK, Settled, OutForget, NEW k \in Nat, OneLeft({k}), OneByOne({k}), Resting({k}),
         NEW u \in Users, NEW v \in Users, RequestInvite(u, v) \/ RequestGroups(u)
  PROVE  OneLeft({k})' /\ OutForget'
<1>1. PICK G \in SUBSET Nat : G = {k}
  OBVIOUS
<1>2. OneByOne(G) /\ Resting(G)
  BY <1>1
<1>3. PICK t, p : /\ t = <<u, "req">> /\ Go(t, p)
                  /\ p \in {[at |-> "seal", todo |-> {v}], [at |-> "groups", got |-> BlocksOf(u)]}
                  /\ UNCHANGED <<members, last>>
  BY RequestsAre DEF Requested, relayVars, clientVars
<1>4. /\ t \in Threads /\ p.at \in {"seal", "groups"}
      /\ thread'[t] = p /\ \A s \in Threads : s # t => thread'[s] = thread[s]
  <2>1. p \in Places /\ t \in Threads
    <3>1. [at |-> "seal", todo |-> {v}] \in Places
      BY DEF Places
    <3>2. [at |-> "groups", got |-> BlocksOf(u)] \in Places
      BY AnswersOK DEF Places
    <3>3. QED
      BY <1>3, <3>1, <3>2, ThreadIs
  <2>2. QED
    BY <1>3, <2>1, Goes DEF GKTypeOK
<1>5. /\ \A s \in Threads : Quiet(thread[s])
      /\ \A w \in Users \ members : last[w] = {}
  BY SettledIsQuiet, SettledForget
<1>6. \A s \in Threads : ~Rekeys(s)'
  BY <1>4, <1>5 DEF Rekeys, Quiet
<1>7. OutForget'
  BY <1>3, <1>5 DEF OutForget
<1>8. NoneMissed'
  <2>1. ASSUME NEW w \in Users, NEW prev \in last[w] PROVE prev = members
    BY <1>2, <1>5, <2>1 DEF Resting
  <2>2. ASSUME NEW w \in Users PROVE ~Observes(w)'
    <3>1. PICK r : r = <<w, "poll">> /\ r \in Threads /\ r # t
      BY <1>3, ThreadIs, ZenonT(40)
    <3>2. PICK q : q = thread[r] /\ q = thread'[r] /\ Quiet(q)
      BY <1>4, <1>5, <3>1
    <3>3. ~(q.at = "members" /\ w \in q.got)
      BY <3>2 DEF Quiet
    <3>4. QED
      BY <3>1, <3>2, <3>3 DEF Observes, Poll
  <2>3. QED
    BY <1>3, <2>1, <2>2 DEF NoneMissed
<1>9. Sound(G)' /\ (Growing(G)' \/ Resting(G)')
  BY <1>2, InviteOrders, GroupsOrders
<1>10. QED
  BY <1>1, <1>6, <1>7, <1>8, <1>9 DEF OneLeft

\* A departure; when nobody is left, nobody needs a key.
LEMMA AgreeLeft ==
  ASSUME GKTypeOK, Settled, OutForget, NEW u \in Users, RequestLeave(u)
  PROVE  OutForget' /\ (NoneLeft \/ \E k \in Nat : OneLeft({k}))'
<1>1. PICK t, p : /\ t = <<u, "req">> /\ p = [at |-> "left"] /\ Go(t, p) /\ last' = last
                  /\ u \in members /\ RemoveMember(u)
  BY RequestsAre DEF Requested, clientVars
<1>2. /\ t \in Threads /\ p.at = "left"
      /\ thread'[t] = p /\ \A s \in Threads : s # t => thread'[s] = thread[s]
  <2>1. p \in Places /\ t \in Threads
    BY <1>1, ThreadIs DEF Places
  <2>2. QED
    BY <1>1, <2>1, Goes DEF GKTypeOK
<1>3. members' = members \ {u}
  BY <1>1, RemovedIs
<1>4. /\ \A s \in Threads : Quiet(thread[s])
      /\ \A w \in Users \ members : last[w] = {}
  BY SettledIsQuiet, SettledForget
<1>5. \A s \in Threads : ~Rekeys(s)'
  BY <1>2, <1>4 DEF Rekeys, Quiet
<1>6. OutForget'
  BY <1>1, <1>2, <1>3, <1>4 DEF OutForget
<1>7. PICK G \in SUBSET Nat : G = {}
  OBVIOUS
<1>8. PICK k, H : k \in Nat /\ H = {k} /\ H \in SUBSET Nat
  BY 0 \in Nat, {0} \in SUBSET Nat
<1>9. CASE members' = {}
  <2>1. Sound(H)' /\ Shrinking' /\ Covered(H)'
    BY <1>8, <1>9, DepartureOrders
  <2>2. NoDue'
    BY <1>9 DEF NoDue
  <2>3. OneLeft({k})'
    BY <1>5, <1>8, <2>1, <2>2 DEF OneLeft
  <2>4. QED
    BY <1>6, <1>8, <2>3
<1>10. CASE members' # {}
  <2>1. Sound(G)' /\ Shrinking' /\ Awaited'
    BY <1>10, DepartureOrders
  <2>2. NoneLeft'
    BY <1>5, <1>7, <2>1 DEF NoneLeft
  <2>3. QED
    BY <1>6, <2>2
<1>11. QED
  BY <1>9, <1>10

LEMMA AgreeInit == Init => AgreeInv
<1> SUFFICES ASSUME Init PROVE AgreeInv
  OBVIOUS
<1>1. \A t \in Threads : Quiet(thread[t]) /\ thread[t].at = "idle"
  BY DEF Init, Quiet, Idle
<1>2. /\ members = Founders /\ DOMAIN block = Founders \ {Creator} /\ Founders \subseteq Users
      /\ \A u \in DOMAIN block : block[u].key = 0 /\ applied[u] = {block[u]}
      /\ \A u \in Founders : key[u] = {0} /\ last[u] = {Founders}
      /\ \A u \in Users \ Founders : last[u] = {}
  BY NamesAssumption DEF Init, Block
<1>3. Sound({0})
  BY <1>1, <1>2, QuietFits DEF Sound
<1>4. Resting({0})
  <2>1. \A u \in members : BlocksOf(u) \subseteq applied[u] /\ last[u] = {members} /\ Good(u, {0})
    BY <1>2 DEF BlocksOf, Good
  <2>2. QED
    BY <1>1, <2>1, QuietFits DEF Resting
<1>5. PollsRekey
  <2>1. ASSUME NEW u \in Users PROVE thread[<<u, "req">>].at = "idle"
    BY <1>1, ThreadIs
  <2>2. QED
    BY <2>1 DEF PollsRekey
<1>6. OutForget /\ \A t \in Threads : ~Rekeys(t)
  BY <1>1, <1>2 DEF OutForget, Rekeys
<1>7. QED
  BY <1>3, <1>4, <1>5, <1>6 DEF AgreeInv, OneLeft

LEMMA AgreeStep == GKTypeOK /\ Numbered /\ AgreeInv /\ [Next]_vars => AgreeInv'
<1> SUFFICES ASSUME GKTypeOK, Numbered, AgreeInv, [Next]_vars,
                    calm', done'["lost"] = 0, done'["kick"] = 0
             PROVE  PollsRekey' /\ OutForget' /\ (NoneLeft \/ \E k \in Nat : OneLeft({k}))'
  BY DEF AgreeInv
<1>0. /\ done["lost"] \in Nat /\ done["kick"] \in Nat /\ done \in [Kinds -> Nat]
      /\ "lost" \in Kinds /\ "kick" \in Kinds /\ calm \in BOOLEAN /\ made \in Nat
  BY DEF GKTypeOK, Kinds
<1>1. CASE UNCHANGED vars
  <2>1. PollsRekey /\ OutForget /\ (NoneLeft \/ \E k \in Nat : OneLeft({k}))
    BY <1>1 DEF AgreeInv, vars, history
  <2>2. PollsRekey' /\ OutForget'
    BY <1>1, <2>1 DEF vars, relayVars, clientVars, PollsRekey, OutForget
  <2>3. \A G : OneLeft(G) => OneLeft(G)'
    BY <1>1 DEF vars, relayVars, clientVars, history, OneLeft, Sound, SoundAt, SafeFor, OfGroup,
       Good, Resting, RestsAt, BlocksOf, Shrinking, ShrinksAt, Invites, Lowest, Due, Fewer,
       Covered, Has, Comes, Growing, GrowsAt, Rekeys, NoDue, NoneMissed, Observes, Poll
  <2>4. NoneLeft => NoneLeft'
    BY <1>1 DEF vars, relayVars, clientVars, history, NoneLeft, Sound, SoundAt, SafeFor, OfGroup,
       Good, Shrinking, ShrinksAt, Invites, Awaited, Lowest, Due, Fewer, Changes, Rekeys
  <2>5. QED
    BY <2>1, <2>2, <2>3, <2>4
<1>2. ASSUME \/ \E t \in Threads :
                  \/ CheckBlock(t) \/ ApplyBlock(t) \/ ListToCheck(t) \/ ObserveMembers(t)
                  \/ ListToRekey(t) \/ SealKey(t) \/ DeliverInvite(t) \/ ForgetGroup(t)
                  \/ LoseRequest(t)
             \/ \E u \in Users : FetchGroups(u)
      PROVE  PollsRekey' /\ OutForget' /\ (NoneLeft \/ \E k \in Nat : OneLeft({k}))'
  <2>1. calm' = calm /\ done["lost"] = 0 /\ done["kick"] = 0
    <3>1. calm' = calm
      BY <1>2 DEF CheckBlock, ApplyBlock, ListToCheck, ObserveMembers, ListToRekey, SealKey,
         DeliverInvite, ForgetGroup, LoseRequest, FetchGroups, history
    <3>2. done' = done \/ LoseAnswer
      BY <1>2 DEF CheckBlock, ApplyBlock, ListToCheck, ObserveMembers, ListToRekey, SealKey,
         DeliverInvite, ForgetGroup, LoseRequest, FetchGroups, history, Read
    <3>3. LoseAnswer => done'["lost"] = done["lost"] + 1
      BY <1>0 DEF LoseAnswer
    <3>4. done' = done
      BY <1>0, <3>2, <3>3
    <3>5. QED
      BY <3>1, <3>4
  <2>2. PollsRekey /\ OutForget /\ (NoneLeft \/ \E k \in Nat : OneLeft({k}))
    BY <2>1 DEF AgreeInv
  <2>3. PollsRekey'
    BY <2>1, <2>2, PollsRekeyStep
  <2>4. CASE NoneLeft
    <3>1. PICK G \in SUBSET Nat : G = {}
      OBVIOUS
    <3>2. Orderly(G)
      BY <2>4, <3>1 DEF NoneLeft, Orderly
    <3>3. OutForget'
      BY <1>2, <2>1, <2>2, <3>2, OutForgetStep
    <3>4. NoneLeft'
      BY <1>2, <2>1, <2>4, NoneLeftStep
    <3>5. QED
      BY <2>3, <3>3, <3>4
  <2>5. ASSUME NEW k \in Nat, OneLeft({k}) PROVE OutForget' /\ OneLeft({k})'
    <3>1. PICK G \in SUBSET Nat : G = {k}
      OBVIOUS
    <3>2. Orderly(G)
      BY <2>5, <3>1 DEF OneLeft, Orderly
    <3>3. OutForget'
      BY <1>2, <2>1, <2>2, <3>2, OutForgetStep
    <3>4. OneLeft({k})'
      BY <1>2, <2>1, <2>2, <2>5, OneLeftStep
    <3>5. QED
      BY <3>3, <3>4
  <2>6. QED
    BY <2>2, <2>3, <2>4, <2>5
<1>3. ASSUME NEW t \in Threads, NewKey(t)
      PROVE  PollsRekey' /\ OutForget' /\ (NoneLeft \/ \E k \in Nat : OneLeft({k}))'
  <2>1. done' = done /\ calm' = calm
    BY <1>3 DEF NewKey
  <2>2. PollsRekey /\ OutForget /\ (NoneLeft \/ \E k \in Nat : OneLeft({k}))
    BY <2>1 DEF AgreeInv
  <2>3. PollsRekey'
    BY <2>1, <2>2, PollsRekeyStep
  <2>4. CASE NoneLeft
    <3>1. PICK k : k = made + 1
      OBVIOUS
    <3>2. k \in Nat /\ OneLeft({k})' /\ OutForget'
      BY <1>3, <2>2, <2>4, <3>1, AgreeMade
    <3>3. QED
      BY <2>3, <3>2
  <2>5. ASSUME NEW k \in Nat, OneLeft({k}) PROVE FALSE
    <3>1. Rekeys(t)
      BY <1>3 DEF NewKey, Rekeys
    <3>2. QED
      BY <2>5, <3>1 DEF OneLeft
  <2>6. QED
    BY <2>2, <2>4, <2>5
<1>4. ASSUME NEW u \in Users, NEW v \in Users,
             RequestInvite(u, v) \/ RequestGroups(u) \/ RequestKick(u, v) \/ RequestLeave(u)
      PROVE  PollsRekey' /\ OutForget' /\ (NoneLeft \/ \E k \in Nat : OneLeft({k}))'
  <2>1. PICK kind \in Kinds \ {"lost"} : \E bound : Ask(kind, bound)
    BY <1>4 DEF RequestInvite, RequestGroups, RequestKick, RequestLeave, Kinds
  <2>2. done'["lost"] = done["lost"] /\ (done'["kick"] = done["kick"] \/ done'["kick"] = done["kick"] + 1)
    BY <1>0, <2>1, AskIs
  <2>3. done["lost"] = 0 /\ done["kick"] = 0 /\ calm /\ Settled
    <3>1. done["lost"] = 0 /\ done["kick"] = 0
      BY <1>0, <2>2
    <3>2. calm /\ Settled
      BY <2>1 DEF Ask
    <3>3. QED
      BY <3>1, <3>2
  <2>4. ~RequestKick(u, v)
    <3>1. ASSUME NEW bound, Ask("kick", bound) PROVE FALSE
      BY <1>0, <2>3, <3>1, AskIs
    <3>2. QED
      BY <3>1 DEF RequestKick
  <2>5. PollsRekey /\ OutForget /\ (NoneLeft \/ \E k \in Nat : OneLeft({k}))
    BY <2>3 DEF AgreeInv
  <2>6. PollsRekey'
    BY <2>3, <2>5, PollsRekeyStep
  <2>7. PICK k \in Nat : OneLeft({k}) /\ OneByOne({k}) /\ Resting({k})
    BY <2>3, <2>5, SettledAgree
  <2>8. CASE RequestInvite(u, v) \/ RequestGroups(u)
    BY <2>3, <2>5, <2>6, <2>7, <2>8, AgreeAsked
  <2>9. CASE RequestLeave(u)
    BY <2>3, <2>5, <2>6, <2>9, AgreeLeft
  <2>10. QED
    BY <1>4, <2>4, <2>8, <2>9
<1>5. QED
  BY <1>1, <1>2, <1>3, <1>4 DEF Next, Work

LEMMA AgreeIsEnough == GKTypeOK /\ AgreeInv => CalmLeavesAgree
<1> SUFFICES ASSUME GKTypeOK, AgreeInv, calm, Settled, done["kick"] = 0, done["lost"] = 0
             PROVE  Agreement
  BY DEF CalmLeavesAgree
<1>1. NoneLeft \/ \E k \in Nat : OneLeft({k})
  BY DEF AgreeInv
<1>2. PICK k \in Nat : Resting({k})
  BY <1>1, SettledAgree
<1>3. \A u \in members : key[u] = {k}
  BY <1>2 DEF Resting, Good
<1>4. QED
  BY <1>3 DEF Agreement

\* All members have the same key once the requests that came one by one have settled,
\* for any number of members, departures and invitations.
THEOREM MembersAgree == Spec => []CalmLeavesAgree
<1>1. Init => Numbered /\ AgreeInv
  BY NumberedInit, AgreeInit
<1>2. GKTypeOK /\ Numbered /\ AgreeInv /\ [Next]_vars => Numbered' /\ AgreeInv'
  BY NumberedStep, AgreeStep
<1>3. GKTypeOK /\ AgreeInv => CalmLeavesAgree
  BY AgreeIsEnough
<1>4. QED
  BY <1>1, <1>2, <1>3, GroupTypes, PTL DEF Spec

------------------------------------------------------------------------------
(* Messages: types *)

Mails == [nr : Nat, from : Users, key : Nat, read : SUBSET Users, departures : Nat,
          to : SUBSET Users, sure : AtMostOne(Nat \X Nat \X Nat)]

MailTypeOK ==
  /\ mail \in Seq(Mails)
  /\ posting \in [Users -> AtMostOne(Mails)]
  /\ held \in [Users -> AtMostOne(Mails)]
  /\ posts \in Nat

GMTypeOK == GKTypeOK /\ MailTypeOK

\* A query of the mail whose answer is lost changes nothing else of the keys.
OnlyLost ==
  /\ LoseAnswer
  /\ UNCHANGED <<relayVars, clientVars, thread, made, sealed, known, gone, calm>>

\* What a step of the mail is for the keys.
LEMMA KeysInMail ==
  ASSUME [GMNext]_gmVars
  PROVE  [Next]_vars \/ OnlyLost
<1>1. ASSUME NEW u \in Users, SealPost(u) \/ OpenMail(u) PROVE UNCHANGED vars
  BY <1>1 DEF SealPost, OpenMail
<1>2. ASSUME NEW u \in Users, DeliverPost(u) PROVE UNCHANGED vars \/ OnlyLost
  BY <1>2 DEF DeliverPost, OnlyLost
<1>3. ASSUME NEW u \in Users, PollMail(u) PROVE UNCHANGED vars \/ OnlyLost
  BY <1>3 DEF PollMail, OnlyLost
<1>4. ASSUME NEW u \in Users, LookAtKeys(u) PROVE Next
  BY <1>4 DEF LookAtKeys, Next
<1>5. ASSUME KeyStep PROVE Next
  BY <1>5 DEF KeyStep, Next
<1>6. CASE UNCHANGED gmVars
  BY <1>6 DEF gmVars
<1>7. QED
  BY <1>1, <1>2, <1>3, <1>4, <1>5, <1>6 DEF GMNext

LEMMA TypesOfKeys ==
  ASSUME GKTypeOK, [Next]_vars \/ OnlyLost
  PROVE  GKTypeOK'
<1>1. ASSUME OnlyLost PROVE GKTypeOK'
  <2>1. done' \in [Kinds -> Nat]
    BY <1>1, LostIs DEF OnlyLost, GKTypeOK
  <2>2. QED
    BY <1>1, <2>1 DEF OnlyLost, relayVars, clientVars, GKTypeOK
<1>2. QED
  BY <1>1, TypesStep

\* What was counted stays counted, and nobody goes without being counted.
LEMMA GoneAreCounted ==
  ASSUME GKTypeOK, [Next]_vars \/ OnlyLost
  PROVE  /\ made <= made' /\ Departures <= Departures' /\ done["groups"] <= done'["groups"]
         /\ members \subseteq members' \/ Departures < Departures'
<1>0. /\ done \in [Kinds -> Nat] /\ calm \in BOOLEAN /\ made \in Nat
      /\ done["leave"] \in Nat /\ done["kick"] \in Nat /\ done["groups"] \in Nat
  BY DEF GKTypeOK, Kinds
<1> DEFINE Same == done'["leave"] = done["leave"] /\ done'["kick"] = done["kick"]
                   /\ done'["groups"] = done["groups"]
           G == /\ made <= made' /\ Departures <= Departures' /\ done["groups"] <= done'["groups"]
                /\ members \subseteq members' \/ Departures < Departures'
<1>1. ASSUME UNCHANGED done \/ LoseAnswer PROVE Same
  BY <1>0, <1>1, LostIs DEF Kinds
<1>2. ASSUME Same, made' = made \/ made' = made + 1, members \subseteq members' PROVE G
  <2>1. Departures' = Departures /\ Departures \in Nat
    BY <1>0, <1>2 DEF Departures
  <2>2. QED
    BY <1>0, <1>2, <2>1
<1>3. ASSUME NEW t \in Threads, Work(t) \/ LoseRequest(t) PROVE UNCHANGED done \/ LoseAnswer
  BY <1>3 DEF Work, LoseRequest, CheckBlock, ApplyBlock, ListToCheck, Read, ObserveMembers,
     ListToRekey, NewKey, SealKey, DeliverInvite, ForgetGroup, history
<1>4. ASSUME NEW t \in Threads, Work(t) \/ LoseRequest(t)
      PROVE  (made' = made \/ made' = made + 1) /\ members \subseteq members'
  <2>1. CASE DeliverInvite(t)
    BY <2>1, DeliveredIs DEF DeliverInvite
  <2>2. CASE ~DeliverInvite(t)
    BY <1>4, <2>2 DEF Work, LoseRequest, CheckBlock, ApplyBlock, ListToCheck, ObserveMembers,
       ListToRekey, NewKey, SealKey, ForgetGroup, relayVars, history
  <2>3. QED
    BY <2>1, <2>2
<1>5. ASSUME NEW u \in Users, NEW v \in Users, RequestInvite(u, v) PROVE G
  BY <1>0, <1>2, <1>5, AskIs DEF RequestInvite, relayVars, Kinds
<1>6. ASSUME NEW u \in Users, RequestGroups(u) PROVE G
  <2>1. /\ done'["leave"] = done["leave"] /\ done'["kick"] = done["kick"]
        /\ done'["groups"] = done["groups"] + 1
    BY <1>0, <1>6, AskIs DEF RequestGroups, Kinds
  <2>2. made' = made /\ members' = members
    BY <1>6 DEF RequestGroups, relayVars
  <2>3. Departures' = Departures /\ Departures \in Nat
    BY <1>0, <2>1 DEF Departures
  <2>4. QED
    BY <1>0, <2>1, <2>2, <2>3
<1>7. ASSUME NEW u \in Users, NEW v \in Users, RequestLeave(u) \/ RequestKick(u, v) PROVE G
  <2>1. /\ \/ done'["leave"] = done["leave"] + 1 /\ done'["kick"] = done["kick"]
           \/ done'["leave"] = done["leave"] /\ done'["kick"] = done["kick"] + 1
        /\ done'["groups"] = done["groups"]
    BY <1>0, <1>7, AskIs DEF RequestLeave, RequestKick, Kinds
  <2>2. made' = made
    BY <1>7 DEF RequestLeave, RequestKick
  <2>3. Departures' = Departures + 1 /\ Departures \in Nat
    BY <1>0, <2>1 DEF Departures
  <2>4. QED
    BY <1>0, <2>1, <2>2, <2>3
<1>8. ASSUME NEW u \in Users, FetchGroups(u) PROVE G
  BY <1>1, <1>2, <1>8 DEF FetchGroups, Read, relayVars
<1>9. CASE OnlyLost
  BY <1>1, <1>2, <1>9 DEF OnlyLost, relayVars
<1>10. CASE UNCHANGED vars
  BY <1>1, <1>2, <1>10 DEF vars, relayVars, history
<1>11. G
  BY <1>1, <1>2, <1>3, <1>4, <1>5, <1>6, <1>7, <1>8, <1>9, <1>10 DEF Next
<1>12. QED
  BY <1>11

\* A message when it is sealed.
LEMMA MessageIs ==
  ASSUME GMTypeOK, NEW u \in Users, NEW m \in Message(u)
  PROVE  /\ m \in Mails /\ m.read = {} /\ m.departures = Departures /\ m.key \in key[u]
         /\ m.to = members /\ m.sure = (IF OneKeyLeft(u) THEN {Era} ELSE {})
<1>1. /\ m = [nr |-> m.nr, from |-> m.from, key |-> m.key, read |-> m.read,
              departures |-> m.departures, to |-> m.to, sure |-> m.sure]
      /\ m.nr = posts + 1 /\ m.from = u /\ m.key \in key[u] /\ m.read = {}
      /\ m.departures = Departures /\ m.to = members
      /\ m.sure = (IF OneKeyLeft(u) THEN {Era} ELSE {})
  BY DEF Message
<1>2. /\ made \in Nat /\ Departures \in Nat /\ done["groups"] \in Nat /\ posts + 1 \in Nat
      /\ members \subseteq Users /\ key[u] \in AtMostOne(Nat)
  BY DEF GMTypeOK, GKTypeOK, MailTypeOK, Departures, Kinds
<1>3. Era \in Nat \X Nat \X Nat
  BY <1>2 DEF Era
<1>4. m.sure \in AtMostOne(Nat \X Nat \X Nat)
  BY <1>1, <1>3 DEF AtMostOne
<1>5. m.key \in Nat
  BY <1>1, <1>2 DEF AtMostOne
<1>6. m \in Mails
  BY <1>1, <1>2, <1>4, <1>5 DEF Mails
<1>7. QED
  BY <1>1, <1>6

\* The list after a message was marked.
LEMMA MarkedIs ==
  ASSUME mail \in Seq(Mails), NEW i \in 1 .. Len(mail), NEW u \in Users, NEW list,
         list = Marked(i, u)
  PROVE  /\ list \in Seq(Mails)
         /\ \/ /\ i = 1 /\ members \subseteq mail[1].read \cup {u} /\ Len(list) = Len(mail) - 1
               /\ \A j \in 1 .. Len(list) : list[j] = mail[j + 1]
            \/ /\ i = 1 => ~(members \subseteq mail[1].read \cup {u})
               /\ Len(list) = Len(mail)
               /\ \A j \in 1 .. Len(list) : j # i => list[j] = mail[j]
               /\ list[i] = [mail[i] EXCEPT !.read = @ \cup {u}]
<1>1. CASE i = 1 /\ members \subseteq mail[1].read \cup {u}
  <2>1. list = Tail(mail)
    BY <1>1 DEF Marked
  <2>2. QED
    BY <1>1, <2>1
<1>2. CASE ~(i = 1 /\ members \subseteq mail[1].read \cup {u})
  <2>1. list = [mail EXCEPT ![i].read = @ \cup {u}]
    BY <1>2 DEF Marked
  <2>2. mail[i] \in Mails
    OBVIOUS
  <2>3. PICK m : m = [mail[i] EXCEPT !.read = @ \cup {u}]
    OBVIOUS
  <2>4. m \in Mails
    BY <2>2, <2>3 DEF Mails
  <2>5. list = [mail EXCEPT ![i] = m]
    BY <2>1, <2>3
  <2>6. list \in Seq(Mails) /\ Len(list) = Len(mail) /\ list[i] = m
        /\ \A j \in 1 .. Len(list) : j # i => list[j] = mail[j]
    BY <2>4, <2>5
  <2>7. QED
    BY <1>2, <2>3, <2>6
<1>3. QED
  BY <1>1, <1>2

\* The list after a message was posted.
Posted(m) ==
  LET new == Append(mail, [m EXCEPT !.departures = Departures])
  IN  IF Len(new) > MaxMail THEN Tail(new) ELSE new

LEMMA PostedIs ==
  ASSUME mail \in Seq(Mails), NEW m \in Mails, NEW list, list = Posted(m), Departures \in Nat,
         NEW p, p = [m EXCEPT !.departures = Departures]
  PROVE  /\ p \in Mails /\ list \in Seq(Mails)
         /\ \/ /\ Len(mail) + 1 <= MaxMail /\ Len(list) = Len(mail) + 1 /\ list[Len(list)] = p
               /\ \A j \in 1 .. Len(mail) : list[j] = mail[j]
            \/ /\ Len(mail) + 1 > MaxMail /\ Len(list) = Len(mail) /\ Len(list) > 0
               /\ list[Len(list)] = p
               /\ \A j \in 1 .. Len(list) - 1 : list[j] = mail[j + 1]
<1>1. p = [m EXCEPT !.departures = Departures]
  OBVIOUS
<1>2. p \in Mails
  BY <1>1 DEF Mails
<1>3. PICK new : new = Append(mail, p)
  OBVIOUS
<1>4. /\ new \in Seq(Mails) /\ Len(new) = Len(mail) + 1 /\ new[Len(new)] = p
      /\ \A j \in 1 .. Len(mail) : new[j] = mail[j]
  BY <1>2, <1>3
<1>5. list = IF Len(new) > MaxMail THEN Tail(new) ELSE new
  BY <1>1, <1>3 DEF Posted
<1>6. MaxMail \in Nat \ {0} /\ Len(mail) \in Nat
  BY MailAssumption
<1>7. CASE Len(new) > MaxMail
  <2>1. list = Tail(new) /\ Len(mail) > 0
    <3>1. Len(mail) + 1 > MaxMail
      BY <1>4, <1>7
    <3>2. QED
      BY <1>5, <1>6, <1>7, <3>1
  <2>2. list \in Seq(Mails) /\ Len(list) = Len(mail) /\ \A j \in 1 .. Len(list) : list[j] = new[j + 1]
    BY <1>4, <1>6, <2>1
  <2>3. ASSUME NEW j \in 1 .. Len(list) - 1 PROVE list[j] = mail[j + 1]
    <3>1. j \in 1 .. Len(list) /\ j + 1 \in 1 .. Len(mail)
      BY <1>6, <2>2
    <3>2. QED
      BY <1>4, <2>2, <3>1
  <2>4. list[Len(list)] = p
    BY <1>4, <1>6, <2>1, <2>2
  <2>5. QED
    BY <1>1, <1>2, <1>4, <1>6, <1>7, <2>1, <2>2, <2>3, <2>4
<1>8. CASE ~(Len(new) > MaxMail)
  BY <1>1, <1>2, <1>4, <1>5, <1>6, <1>8
<1>9. QED
  BY <1>7, <1>8

\* What a poll takes is the first message that its user has not read.
LEMMA PolledIs ==
  ASSUME mail \in Seq(Mails), NEW u \in Users, PollMail(u)
  PROVE  \E i \in 1 .. Len(mail) :
           /\ mail' = Marked(i, u) /\ u \in members /\ u \notin mail[i].read
           /\ \A j \in 1 .. Len(mail) : j < i => u \in mail[j].read
           /\ held' = [held EXCEPT ![u] = {mail[i]}] \/ held' = held
<1>1. PICK i \in NextFor(u) : mail' = Marked(i, u)
                             /\ (held' = [held EXCEPT ![u] = {mail[i]}] \/ held' = held)
  BY DEF PollMail
<1>2. u \in members /\ Unread(u) # {} /\ i = Min(Unread(u))
  BY <1>1 DEF NextFor
<1>3. Unread(u) \subseteq Nat
  BY DEF Unread
<1>4. i \in Unread(u) /\ \A j \in Unread(u) : i <= j
  BY <1>2, <1>3, MinIs
<1>5. i \in 1 .. Len(mail) /\ u \notin mail[i].read
  BY <1>4 DEF Unread
<1>6. ASSUME NEW j \in 1 .. Len(mail), j < i PROVE u \in mail[j].read
  <2>1. CASE u \notin mail[j].read
    <3>1. i <= j
      BY <1>4, <2>1 DEF Unread
    <3>2. QED
      BY <1>5, <1>6, <3>1
  <2>2. QED
    BY <2>1
<1>7. QED
  BY <1>1, <1>2, <1>5, <1>6

LEMMA TypesOfMail ==
  ASSUME GMTypeOK, [GMNext]_gmVars
  PROVE  MailTypeOK'
<1>0. /\ mail \in Seq(Mails) /\ posting \in [Users -> AtMostOne(Mails)]
      /\ held \in [Users -> AtMostOne(Mails)] /\ posts \in Nat
      /\ {} \in AtMostOne(Mails) /\ \A m \in Mails : {m} \in AtMostOne(Mails)
      /\ \A u \in Users : posting[u] \subseteq Mails /\ held[u] \subseteq Mails
  BY OneOf DEF GMTypeOK, MailTypeOK, AtMostOne
<1>1. ASSUME NEW u \in Users, SealPost(u) PROVE MailTypeOK'
  <2>1. PICK m \in Message(u) : posting' = [posting EXCEPT ![u] = {m}]
    BY <1>1 DEF SealPost
  <2>2. m \in Mails
    BY <2>1, MessageIs
  <2>3. posts' = posts + 1 /\ UNCHANGED <<mail, held>>
    BY <1>1 DEF SealPost
  <2>4. posting' \in [Users -> AtMostOne(Mails)]
    BY <1>0, <2>1, <2>2
  <2>5. QED
    BY <1>0, <2>3, <2>4 DEF MailTypeOK
<1>2. ASSUME NEW u \in Users, DeliverPost(u) PROVE MailTypeOK'
  <2>1. posting' = [posting EXCEPT ![u] = {}] /\ UNCHANGED <<held, posts>>
    BY <1>2 DEF DeliverPost
  <2>2. mail' = mail \/ \E m \in posting[u] : mail' = Posted(m)
    BY <1>2 DEF DeliverPost, Posted
  <2>3. Departures \in Nat
    BY DEF GMTypeOK, GKTypeOK, Departures, Kinds
  <2>4. ASSUME NEW m \in posting[u], mail' = Posted(m) PROVE mail' \in Seq(Mails)
    <3>1. PICK list : list = Posted(m)
      OBVIOUS
    <3>2. PICK p : p = [m EXCEPT !.departures = Departures]
      OBVIOUS
    <3>3. m \in Mails /\ mail \in Seq(Mails)
      BY <1>0
    <3>4. list \in Seq(Mails)
      BY <2>3, <3>1, <3>2, <3>3, PostedIs
    <3>5. QED
      BY <2>4, <3>1, <3>4
  <2>5. posting' \in [Users -> AtMostOne(Mails)]
    BY <1>0, <2>1
  <2>6. QED
    BY <1>0, <2>1, <2>2, <2>4, <2>5 DEF MailTypeOK
<1>3. ASSUME NEW u \in Users, PollMail(u) PROVE MailTypeOK'
  <2>1. PICK i \in 1 .. Len(mail) : /\ mail' = Marked(i, u)
                                   /\ (held' = [held EXCEPT ![u] = {mail[i]}] \/ held' = held)
    BY <1>0, <1>3, PolledIs
  <2>2. PICK list : list = Marked(i, u)
    OBVIOUS
  <2>3. list \in Seq(Mails)
    BY <1>0, <2>2, MarkedIs
  <2>4. mail[i] \in Mails
    BY <1>0
  <2>5. held' \in [Users -> AtMostOne(Mails)]
    BY <1>0, <2>1, <2>4
  <2>6. UNCHANGED <<posting, posts>>
    BY <1>3 DEF PollMail
  <2>7. QED
    BY <1>0, <2>1, <2>2, <2>3, <2>5, <2>6 DEF MailTypeOK
<1>4. ASSUME NEW u \in Users, OpenMail(u) PROVE MailTypeOK'
  BY <1>0, <1>4 DEF OpenMail, MailTypeOK
<1>5. ASSUME UNCHANGED mailVars PROVE MailTypeOK'
  BY <1>0, <1>5 DEF mailVars, MailTypeOK
<1>6. QED
  BY <1>1, <1>2, <1>3, <1>4, <1>5 DEF GMNext, LookAtKeys, gmVars

LEMMA TypesOfMailInit == GMInit => GMTypeOK
<1> SUFFICES ASSUME GMInit PROVE GMTypeOK
  OBVIOUS
<1>1. GKTypeOK
  BY TypesInit DEF GMInit
<1>2. {} \in AtMostOne(Mails)
  BY DEF AtMostOne
<1>3. MaxPosts \in Nat
  BY MailAssumption
<1>4. MailTypeOK
  BY <1>2, <1>3 DEF GMInit, MailTypeOK
<1>5. QED
  BY <1>1, <1>4 DEF GMTypeOK

\* Type correctness of the group's messages and of its keys with them.
THEOREM GroupMailTypes == GMSpec => []GMTypeOK
<1>1. GMTypeOK /\ [GMNext]_gmVars => GMTypeOK'
  BY TypesOfMail, KeysInMail, TypesOfKeys DEF GMTypeOK
<1>2. QED
  BY <1>1, TypesOfMailInit, PTL DEF GMSpec

------------------------------------------------------------------------------
(* Messages are kept for somebody *)

\* Readers of a message have read all before it. Once all have read the first one,
\* somebody has gone since it was posted, or the list is full.
KeptInv ==
  /\ \A u \in Users : \A m \in posting[u] : m.read = {}
  /\ \A i \in 1 .. Len(mail) : mail[i].departures <= Departures
  /\ \A i, j \in 1 .. Len(mail) : i < j => mail[j].read \subseteq mail[i].read
  /\ mail # <<>> /\ members \subseteq mail[1].read =>
       mail[1].departures < Departures \/ Len(mail) >= MaxMail

LEMMA KeptIsEnough == KeptInv /\ GMTypeOK => KeptForSomebody
<1> SUFFICES ASSUME KeptInv, GMTypeOK, mail # <<>>, mail[1].departures = Departures,
                    Len(mail) < MaxMail, NEW i \in 1 .. Len(mail), members \subseteq mail[i].read
             PROVE  FALSE
  BY DEF KeptForSomebody
<1>1. mail \in Seq(Mails) /\ Departures \in Nat /\ MaxMail \in Nat
  BY MailAssumption DEF GMTypeOK, MailTypeOK, GKTypeOK, Departures, Kinds
<1>2. 1 \in 1 .. Len(mail) /\ (i = 1 \/ 1 < i) /\ Len(mail) \in Nat
  BY <1>1
<1>3. members \subseteq mail[1].read
  BY <1>2 DEF KeptInv
<1>4. QED
  BY <1>1, <1>2, <1>3 DEF KeptInv

LEMMA KeptStep == GMTypeOK /\ KeptInv /\ [GMNext]_gmVars => KeptInv'
<1> SUFFICES ASSUME GMTypeOK, KeptInv, [GMNext]_gmVars PROVE KeptInv'
  OBVIOUS
<1>0. /\ mail \in Seq(Mails) /\ Len(mail) \in Nat /\ MaxMail \in Nat \ {0}
      /\ posting \in [Users -> AtMostOne(Mails)]
      /\ \A u \in Users : posting[u] \subseteq Mails
      /\ Departures \in Nat /\ Departures' \in Nat /\ Departures <= Departures'
      /\ members \subseteq members' \/ Departures < Departures'
      /\ \A i \in 1 .. Len(mail) : mail[i] \in Mails /\ mail[i].departures \in Nat
  <2>1. Departures \in Nat /\ Departures' \in Nat
    <3>1. GKTypeOK /\ GKTypeOK'
      BY KeysInMail, TypesOfKeys DEF GMTypeOK
    <3>2. done \in [Kinds -> Nat] /\ done' \in [Kinds -> Nat]
      BY <3>1 DEF GKTypeOK
    <3>3. QED
      BY <3>2 DEF Departures, Kinds
  <2>2. Departures <= Departures' /\ (members \subseteq members' \/ Departures < Departures')
    BY KeysInMail, GoneAreCounted DEF GMTypeOK
  <2>3. mail \in Seq(Mails) /\ posting \in [Users -> AtMostOne(Mails)]
    BY DEF GMTypeOK, MailTypeOK
  <2>4. \A i \in 1 .. Len(mail) : mail[i] \in Mails /\ mail[i].departures \in Nat
    <3>1. \A m \in Mails : m.departures \in Nat
      BY DEF Mails
    <3>2. \A i \in 1 .. Len(mail) : mail[i] \in Mails
      BY <2>3
    <3>3. QED
      BY <3>1, <3>2
  <2>5. QED
    BY <2>1, <2>2, <2>3, <2>4, MailAssumption DEF AtMostOne
<1>1. CASE mail' = mail /\ posting' = posting
  <2>1. \A i \in 1 .. Len(mail) : mail'[i].departures <= Departures'
    BY <1>0, <1>1 DEF KeptInv
  <2>2. ASSUME mail # <<>>, members' \subseteq mail[1].read
        PROVE  mail[1].departures < Departures' \/ Len(mail) >= MaxMail
    <3>1. 1 \in 1 .. Len(mail)
      BY <1>0, <2>2
    <3>2. mail[1].departures <= Departures
      BY <3>1 DEF KeptInv
    <3>3. CASE Departures < Departures'
      BY <1>0, <3>1, <3>2, <3>3
    <3>4. CASE members \subseteq members'
      <4>1. mail[1].departures < Departures \/ Len(mail) >= MaxMail
        BY <2>2, <3>4 DEF KeptInv
      <4>2. QED
        BY <1>0, <3>1, <4>1
    <3>5. QED
      BY <1>0, <3>3, <3>4
  <2>3. QED
    BY <1>1, <2>1, <2>2 DEF KeptInv
<1>2. ASSUME NEW u \in Users, SealPost(u) PROVE KeptInv'
  <2>1. PICK m \in Message(u) : posting' = [posting EXCEPT ![u] = {m}]
    BY <1>2 DEF SealPost
  <2>2. m.read = {}
    BY <2>1, MessageIs
  <2>3. \A v \in Users : \A n \in posting'[v] : n.read = {}
    BY <1>0, <2>1, <2>2 DEF KeptInv
  <2>4. UNCHANGED <<mail, members, done>>
    BY <1>2 DEF SealPost, vars, relayVars, history
  <2>5. Departures' = Departures
    BY <2>4 DEF Departures
  <2>6. QED
    BY <2>3, <2>4, <2>5 DEF KeptInv
<1>3. ASSUME NEW u \in Users, DeliverPost(u) PROVE KeptInv'
  <2>1. \A v \in Users : \A n \in posting'[v] : n.read = {}
    BY <1>0, <1>3 DEF DeliverPost, KeptInv
  <2>2. CASE mail' = mail
    <3>1. members' = members
      BY <1>3 DEF DeliverPost, vars, relayVars
    <3>2. Departures' = Departures
      BY <1>3, LostIs DEF DeliverPost, vars, history, Departures, Kinds, GMTypeOK, GKTypeOK
    <3>3. QED
      BY <2>1, <2>2, <3>1, <3>2 DEF KeptInv
  <2>3. ASSUME NEW m \in posting[u], u \in members, mail' = Posted(m), UNCHANGED vars
        PROVE  KeptInv'
    <3>1. PICK list : list = Posted(m)
      OBVIOUS
    <3>2. PICK p : p = [m EXCEPT !.departures = Departures]
      OBVIOUS
    <3>3. /\ p \in Mails /\ list \in Seq(Mails)
        /\ \/ /\ Len(mail) + 1 <= MaxMail /\ Len(list) = Len(mail) + 1 /\ list[Len(list)] = p
              /\ \A j \in 1 .. Len(mail) : list[j] = mail[j]
           \/ /\ Len(mail) + 1 > MaxMail /\ Len(list) = Len(mail) /\ Len(list) > 0
              /\ list[Len(list)] = p
              /\ \A j \in 1 .. Len(list) - 1 : list[j] = mail[j + 1]
      <4>1. m \in Mails /\ mail \in Seq(Mails) /\ Departures \in Nat
        BY <1>0
      <4>2. QED
        BY <3>1, <3>2, <4>1, PostedIs
    <3>4. p.read = {} /\ p.departures = Departures /\ ~(members \subseteq p.read)
      <4>1. m.read = {} /\ m \in Mails
        BY <1>0 DEF KeptInv
      <4>2. p.read = m.read /\ p.departures = Departures
        BY <3>2, <4>1 DEF Mails
      <4>3. QED
        BY <2>3, <4>1, <4>2
    <3>5. Departures' = Departures /\ members' = members
      BY <2>3 DEF vars, history, Departures, relayVars
    <3>6. CASE /\ Len(mail) + 1 <= MaxMail /\ Len(list) = Len(mail) + 1 /\ list[Len(list)] = p
               /\ \A j \in 1 .. Len(mail) : list[j] = mail[j]
      <4>1. \A i \in 1 .. Len(list) : i \in 1 .. Len(mail) \/ i = Len(list)
        BY <1>0, <3>6
      <4>2. \A i \in 1 .. Len(list) : list[i].departures <= Departures
        BY <1>0, <3>4, <3>6, <4>1 DEF KeptInv
      <4>3. ASSUME NEW i \in 1 .. Len(list), NEW j \in 1 .. Len(list), i < j
            PROVE  list[j].read \subseteq list[i].read
        <5>1. CASE j = Len(list)
          BY <3>4, <3>6, <5>1
        <5>2. CASE j # Len(list)
          <6>1. i \in 1 .. Len(mail) /\ j \in 1 .. Len(mail)
            BY <1>0, <3>6, <4>3, <5>2
          <6>2. QED
            BY <3>6, <4>3, <6>1 DEF KeptInv
        <5>3. QED
          BY <5>1, <5>2
      <4>4. ASSUME members \subseteq list[1].read
            PROVE  list[1].departures < Departures
        <5>1. mail # <<>>
          BY <1>0, <2>3, <3>4, <3>6, <4>4
        <5>2. 1 \in 1 .. Len(mail)
          BY <1>0, <5>1
        <5>3. list[1] = mail[1] /\ ~(Len(mail) >= MaxMail)
          BY <1>0, <3>6, <5>2
        <5>4. QED
          BY <4>4, <5>1, <5>3 DEF KeptInv
      <4>5. QED
        BY <2>1, <2>3, <3>1, <3>5, <4>2, <4>3, <4>4 DEF KeptInv
    <3>7. CASE /\ Len(mail) + 1 > MaxMail /\ Len(list) = Len(mail) /\ Len(list) > 0
               /\ list[Len(list)] = p
               /\ \A j \in 1 .. Len(list) - 1 : list[j] = mail[j + 1]
      <4>1. \A i \in 1 .. Len(list) :
              i = Len(list) \/ (i \in 1 .. Len(list) - 1 /\ i + 1 \in 1 .. Len(mail) /\ list[i] = mail[i + 1])
        BY <1>0, <3>7, SMTT(30)
      <4>2. \A i \in 1 .. Len(list) : list[i].departures <= Departures
        BY <1>0, <3>4, <3>7, <4>1 DEF KeptInv
      <4>3. ASSUME NEW i \in 1 .. Len(list), NEW j \in 1 .. Len(list), i < j
            PROVE  list[j].read \subseteq list[i].read
        <5>1. CASE j = Len(list)
          BY <3>4, <3>7, <5>1
        <5>2. CASE j # Len(list)
          <6>1. i + 1 \in 1 .. Len(mail) /\ j + 1 \in 1 .. Len(mail) /\ i + 1 < j + 1
                /\ list[i] = mail[i + 1] /\ list[j] = mail[j + 1]
            BY <1>0, <3>7, <4>1, <4>3, <5>2
          <6>2. QED
            BY <6>1 DEF KeptInv
        <5>3. QED
          BY <5>1, <5>2
      <4>4. Len(list) >= MaxMail
        BY <1>0, <3>7
      <4>5. QED
        BY <2>1, <2>3, <3>1, <3>5, <4>2, <4>3, <4>4 DEF KeptInv
    <3>8. QED
      BY <3>3, <3>6, <3>7
  <2>4. mail' = mail \/ (u \in members /\ UNCHANGED vars /\ \E m \in posting[u] : mail' = Posted(m))
    BY <1>3 DEF DeliverPost, Posted
  <2>5. QED
    BY <2>2, <2>3, <2>4
<1>4. ASSUME NEW u \in Users, PollMail(u) PROVE KeptInv'
  <2>1. PICK i \in 1 .. Len(mail) :
           /\ mail' = Marked(i, u) /\ u \in members /\ u \notin mail[i].read
           /\ \A j \in 1 .. Len(mail) : j < i => u \in mail[j].read
    BY <1>0, <1>4, PolledIs
  <2>2. PICK list : list = Marked(i, u)
    OBVIOUS
  <2>3. /\ list \in Seq(Mails)
        /\ \/ /\ i = 1 /\ members \subseteq mail[1].read \cup {u} /\ Len(list) = Len(mail) - 1
              /\ \A j \in 1 .. Len(list) : list[j] = mail[j + 1]
           \/ /\ i = 1 => ~(members \subseteq mail[1].read \cup {u})
              /\ Len(list) = Len(mail)
              /\ \A j \in 1 .. Len(list) : j # i => list[j] = mail[j]
              /\ list[i] = [mail[i] EXCEPT !.read = @ \cup {u}]
    BY <1>0, <2>2, MarkedIs
  <2>4. posting' = posting /\ members' = members /\ Departures' = Departures
    <3>1. UNCHANGED vars \/ OnlyLost
      BY <1>4 DEF PollMail, OnlyLost
    <3>2. Departures' = Departures /\ members' = members
      BY <3>1, LostIs DEF OnlyLost, vars, relayVars, history, Departures, Kinds, GMTypeOK, GKTypeOK
    <3>3. QED
      BY <1>4, <3>2 DEF PollMail
  <2>5. CASE /\ i = 1 /\ members \subseteq mail[1].read \cup {u} /\ Len(list) = Len(mail) - 1
             /\ \A j \in 1 .. Len(list) : list[j] = mail[j + 1]
    <3>1. \A k \in 1 .. Len(list) : k + 1 \in 1 .. Len(mail) /\ list[k] = mail[k + 1]
      BY <1>0, <2>5
    <3>2. \A k \in 1 .. Len(list) : list[k].departures <= Departures
      BY <3>1 DEF KeptInv
    <3>3. ASSUME NEW k \in 1 .. Len(list), NEW j \in 1 .. Len(list), k < j
          PROVE  list[j].read \subseteq list[k].read
      <4>1. k + 1 < j + 1
        BY <3>3
      <4>2. QED
        BY <3>1, <4>1 DEF KeptInv
    <3>4. ASSUME list # <<>>, members \subseteq list[1].read PROVE FALSE
      <4>1. 1 \in 1 .. Len(list)
        BY <2>3, <3>4
      <4>2. 2 \in 1 .. Len(mail) /\ list[1] = mail[2] /\ 1 \in 1 .. Len(mail) /\ 1 < 2
        BY <1>0, <3>1, <4>1
      <4>3. mail[2].read \subseteq mail[1].read
        BY <4>2 DEF KeptInv
      <4>4. QED
        BY <2>1, <2>5, <3>4, <4>2, <4>3
    <3>5. QED
      BY <2>1, <2>2, <2>4, <3>2, <3>3, <3>4 DEF KeptInv
  <2>6. CASE /\ i = 1 => ~(members \subseteq mail[1].read \cup {u})
             /\ Len(list) = Len(mail)
             /\ \A j \in 1 .. Len(list) : j # i => list[j] = mail[j]
             /\ list[i] = [mail[i] EXCEPT !.read = @ \cup {u}]
    <3>1. list[i].read = mail[i].read \cup {u} /\ list[i].departures = mail[i].departures
      BY <1>0, <2>6 DEF Mails
    <3>2. \A k \in 1 .. Len(list) :
            list[k].departures = mail[k].departures /\ mail[k].read \subseteq list[k].read
      BY <2>6, <3>1
    <3>3. \A k \in 1 .. Len(list) : list[k].departures <= Departures
      BY <2>6, <3>2 DEF KeptInv
    <3>4. ASSUME NEW k \in 1 .. Len(list), NEW j \in 1 .. Len(list), k < j
          PROVE  list[j].read \subseteq list[k].read
      <4>1. mail[j].read \subseteq mail[k].read
        BY <2>6, <3>4 DEF KeptInv
      <4>2. CASE j = i
        <5>1. list[j].read = mail[j].read \cup {u}
          BY <3>1, <4>2
        <5>2. u \in mail[k].read /\ mail[k].read \subseteq list[k].read
          BY <2>1, <2>6, <3>2, <3>4, <4>2
        <5>3. QED
          BY <4>1, <5>1, <5>2
      <4>3. CASE j # i
        BY <2>6, <3>2, <4>1, <4>3
      <4>4. QED
        BY <4>2, <4>3
    <3>5. ASSUME list # <<>>, members \subseteq list[1].read
          PROVE  list[1].departures < Departures \/ Len(list) >= MaxMail
      <4>1. 1 \in 1 .. Len(list) /\ mail # <<>>
        BY <1>0, <2>3, <2>6, <3>5
      <4>2. i # 1 /\ list[1] = mail[1]
        BY <2>6, <3>1, <3>5, <4>1
      <4>3. QED
        BY <2>6, <3>5, <4>1, <4>2 DEF KeptInv
    <3>6. QED
      BY <2>1, <2>2, <2>4, <2>6, <3>3, <3>4, <3>5 DEF KeptInv
  <2>7. QED
    BY <2>3, <2>5, <2>6
<1>5. QED
  BY <1>1, <1>2, <1>3, <1>4 DEF GMNext, OpenMail, LookAtKeys, gmVars, mailVars

\* The list does not fill with messages that nobody is to read any more, for any
\* length of it and whoever is invited, kicked or leaves meanwhile: as long as
\* nobody has gone since the first one was posted and the list is not full.
THEOREM KeptMeansWanted == GMSpec => []KeptForSomebody
<1>1. GMInit => KeptInv
  BY DEF GMInit, KeptInv
<1>2. GMTypeOK /\ KeptInv /\ [GMNext]_gmVars => KeptInv'
  BY KeptStep
<1>3. KeptInv /\ GMTypeOK => KeptForSomebody
  BY KeptIsEnough
<1>4. QED
  BY <1>1, <1>2, <1>3, GroupMailTypes, PTL DEF GMSpec

------------------------------------------------------------------------------
(* What was sealed when one key was left can be opened *)

\* The sealed keys in got are k again, and so is what the relay has for u now.
Again(u, got, k) ==
  (\A b \in got : b.key = k) /\ (u \in DOMAIN block => block[u].key = k)

\* The sealed keys in got, which the poll loop of u has fetched and not used yet.
Harmless(u, got, k) == got \subseteq applied[u] \/ Again(u, got, k)

\* What a thread may be doing while k is the one key left.
Goes1(t, p, k) ==
  /\ p.at = "groups" => IF t[2] = "poll" THEN Harmless(t[1], p.got, k) ELSE p.got = {}
  /\ p.at = "apply" => t[2] = "poll" /\ Again(t[1], p.got, k)
  /\ p.at = "deliver" => p.sealed.key = k
  /\ p.at # "left"

\* k is the one key left, and those in to have it: the relay has no other for
\* anybody, except what its owner will not apply again.
OneKey(k, to) ==
  /\ \A u \in Users : key[u] \subseteq {k}
  /\ \A u \in to : key[u] = {k}
  /\ \A u \in DOMAIN block : block[u].key = k \/ block[u] \in applied[u]
  /\ \A t \in Threads : Goes1(t, thread[t], k)

LEMMA OneKeyGoes ==
  ASSUME GKTypeOK, NEW k, NEW to, OneKey(k, to), UNCHANGED <<key, applied, block>>,
         NEW t \in Threads, NEW p \in Places, Go(t, p), Goes1(t, p, k)
  PROVE  OneKey(k, to)'
<1>1. thread'[t] = p /\ \A s \in Threads : s # t => thread'[s] = thread[s]
  BY Goes DEF GKTypeOK
<1>2. ASSUME NEW s \in Threads, NEW q, Goes1(s, q, k), thread'[s] = q PROVE Goes1(s, thread[s], k)'
  BY <1>2 DEF Goes1, Harmless, Again
<1>3. \A s \in Threads : Goes1(s, thread[s], k)'
  BY <1>1, <1>2 DEF OneKey
<1>4. QED
  BY <1>3 DEF OneKey

\* A step other than an application or a delivery changes no key.
LEMMA OneKeyElse ==
  ASSUME GKTypeOK, NEW k, NEW to, OneKey(k, to), UNCHANGED <<key, applied, block>>,
         NEW t \in Threads, NEW p \in Places, Go(t, p), p.at \notin {"groups", "apply", "deliver", "left"}
  PROVE  OneKey(k, to)'
BY OneKeyGoes DEF Goes1

LEMMA OneKeyChecked ==
  ASSUME GKTypeOK, NEW k, NEW to, OneKey(k, to), NEW t \in Threads, CheckBlock(t)
  PROVE  OneKey(k, to)'
<1>1. UNCHANGED <<key, applied, block>>
  BY DEF CheckBlock, relayVars, clientVars
<1>2. PICK p \in Places :
        /\ thread[t].at = "groups" /\ Go(t, p)
        /\ \/ p = Idle \/ p = [at |-> "check"]
           \/ \E b \in Blocks : /\ p = [at |-> "apply", got |-> {b}]
                                /\ thread[t].got = {b} /\ b \notin applied[t[1]]
  BY CheckIs
<1>3. CASE p = Idle \/ p = [at |-> "check"]
  BY <1>1, <1>2, <1>3, OneKeyElse DEF Idle
<1>4. ASSUME NEW b \in Blocks, p = [at |-> "apply", got |-> {b}],
             thread[t].got = {b}, b \notin applied[t[1]]
      PROVE  OneKey(k, to)'
  <2>1. Goes1(t, thread[t], k)
    BY DEF OneKey
  <2>2. t[2] = "poll" /\ Again(t[1], {b}, k)
    BY <1>2, <1>4, <2>1 DEF Goes1, Harmless
  <2>3. Goes1(t, p, k)
    BY <1>4, <2>2 DEF Goes1
  <2>4. QED
    BY <1>1, <1>2, <2>3, OneKeyGoes
<1>5. QED
  BY <1>2, <1>3, <1>4

LEMMA OneKeyApplied ==
  ASSUME GKTypeOK, NEW k, NEW to \in SUBSET Users, OneKey(k, to), NEW t \in Threads, ApplyBlock(t)
  PROVE  OneKey(k, to)'
<1>1. PICK u : u = t[1]
  OBVIOUS
<1>2. PICK b \in Blocks :
        /\ thread[t].at = "apply" /\ thread[t].got = {b}
        /\ key' = [key EXCEPT ![u] = {b.key}] /\ applied' = [applied EXCEPT ![u] = {b}]
        /\ Go(t, Idle) \/ Go(t, [at |-> "check"])
  BY <1>1, AppliedIs
<1>3. /\ u \in Users /\ thread \in [Threads -> Places] /\ UNCHANGED block
      /\ key \in [Users -> AtMostOne(Nat)] /\ applied \in [Users -> AtMostOne(Blocks)]
      /\ DOMAIN block \subseteq Users
  BY <1>1 DEF GKTypeOK, ApplyBlock, relayVars, Threads
<1>4. t[2] = "poll" /\ b.key = k /\ (u \in DOMAIN block => block[u].key = k)
  <2>1. Goes1(t, thread[t], k)
    BY DEF OneKey
  <2>2. QED
    BY <1>1, <1>2, <2>1 DEF Goes1, Again
<1>5. /\ key'[u] = {k} /\ \A v \in Users : v # u => key'[v] = key[v]
      /\ \A v \in Users : v # u => applied'[v] = applied[v]
  BY <1>2, <1>3, <1>4
<1>6. /\ \A v \in Users : key'[v] \subseteq {k}
      /\ \A v \in to : key'[v] = {k}
      /\ \A v \in DOMAIN block' : block'[v].key = k \/ block'[v] \in applied'[v]
  <2>1. (\A v \in Users : key'[v] \subseteq {k}) /\ \A v \in to : key'[v] = {k}
    BY <1>5 DEF OneKey
  <2>2. \A v \in DOMAIN block' : block'[v].key = k \/ block'[v] \in applied'[v]
    BY <1>3, <1>4, <1>5 DEF OneKey
  <2>3. QED
    BY <2>1, <2>2
<1>7. PICK p : Go(t, p) /\ p.at \in {"idle", "check"}
  BY <1>2 DEF Idle
<1>8. thread'[t] = p /\ \A s \in Threads : s # t => thread'[s] = thread[s]
  BY <1>3, <1>7 DEF Go
<1>9. Goes1(t, thread[t], k)'
  BY <1>7, <1>8 DEF Goes1
<1>10. ASSUME NEW s \in Threads, s # t PROVE Goes1(s, thread[s], k)'
  <2>1. PICK q : q = thread[s] /\ q = thread'[s]
    BY <1>8, <1>10
  <2>2. Goes1(s, q, k)
    BY <2>1 DEF OneKey
  <2>3. \A v, got : Again(v, got, k) => Again(v, got, k)'
    BY <1>3 DEF Again
  <2>4. CASE q.at = "groups" /\ s[2] = "poll"
    <3>1. s[1] # u /\ s[1] \in Users
      BY <1>1, <1>4, <1>10, <2>4 DEF Threads
    <3>2. Harmless(s[1], q.got, k)
      BY <2>2, <2>4 DEF Goes1
    <3>3. Harmless(s[1], q.got, k)'
      BY <1>5, <2>3, <3>1, <3>2 DEF Harmless
    <3>4. QED
      BY <2>1, <2>2, <2>4, <3>3 DEF Goes1
  <2>5. CASE ~(q.at = "groups" /\ s[2] = "poll")
    <3>1. q.at = "apply" => s[2] = "poll" /\ Again(s[1], q.got, k)'
      BY <2>2, <2>3 DEF Goes1
    <3>2. QED
      BY <2>1, <2>2, <2>5, <3>1 DEF Goes1
  <2>6. QED
    BY <2>4, <2>5
<1>11. QED
  BY <1>6, <1>9, <1>10 DEF OneKey

LEMMA OneKeyDelivered ==
  ASSUME GKTypeOK, NEW k, NEW to \in SUBSET Users, OneKey(k, to), NEW t \in Threads,
         DeliverInvite(t)
  PROVE  OneKey(k, to)'
<1>1. PICK v, p : v = thread[t].to /\ p = Invite(thread[t].todo)
  OBVIOUS
<1>2. /\ p \in Places /\ p.at \in {"idle", "seal"} /\ Go(t, p) /\ UNCHANGED <<key, applied>>
      /\ thread[t].at = "deliver" /\ v \in Users
  <2>1. p \in Places /\ p.at \in {"idle", "seal"} /\ v \in Users
    BY <1>1, DeliveredIs, InviteIs DEF Invite, Idle
  <2>2. QED
    BY <1>1, <2>1 DEF DeliverInvite, clientVars
<1>3. CASE UNCHANGED block
  BY <1>2, <1>3, OneKeyElse
<1>4. CASE /\ DOMAIN block' = DOMAIN block \cup {v}
           /\ block'[v] = thread[t].sealed
           /\ \A u \in DOMAIN block \ {v} : block'[u] = block[u]
  <2>1. block'[v].key = k
    BY <1>2, <1>4 DEF OneKey, Goes1
  <2>2. \A u \in DOMAIN block' : block'[u].key = k \/ block'[u] \in applied'[u]
    BY <1>2, <1>4, <2>1 DEF OneKey
  <2>3. thread'[t] = p /\ \A s \in Threads : s # t => thread'[s] = thread[s]
    BY <1>2, Goes DEF GKTypeOK
  <2>4. ASSUME NEW u, NEW got, Again(u, got, k) PROVE Again(u, got, k)'
    <3>1. u \in DOMAIN block' => block'[u].key = k
      BY <1>4, <2>1, <2>4 DEF Again
    <3>2. QED
      BY <2>4, <3>1 DEF Again
  <2>5. ASSUME NEW u, NEW got, Harmless(u, got, k) PROVE Harmless(u, got, k)'
    <3>1. CASE got \subseteq applied[u]
      BY <1>2, <3>1 DEF Harmless
    <3>2. CASE Again(u, got, k)
      BY <2>4, <3>2 DEF Harmless
    <3>3. QED
      BY <2>5, <3>1, <3>2 DEF Harmless
  <2>6. ASSUME NEW s \in Threads PROVE Goes1(s, thread[s], k)'
    <3>1. CASE s = t
      BY <1>2, <2>3, <3>1 DEF Goes1
    <3>2. CASE s # t
      <4>1. PICK q : q = thread[s] /\ q = thread'[s]
        BY <2>3, <3>2
      <4>2. Goes1(s, q, k)
        BY <4>1 DEF OneKey
      <4>3. Again(s[1], q.got, k) => Again(s[1], q.got, k)'
        BY <2>4
      <4>4. Harmless(s[1], q.got, k) => Harmless(s[1], q.got, k)'
        BY <2>5
      <4>5. QED
        BY <4>1, <4>2, <4>3, <4>4 DEF Goes1
    <3>3. QED
      BY <3>1, <3>2
  <2>7. QED
    BY <1>2, <2>2, <2>6 DEF OneKey
<1>5. QED
  BY <1>1, <1>3, <1>4, DeliveredIs

LEMMA OneKeyStays ==
  ASSUME GKTypeOK, NEW k, NEW to \in SUBSET Users, OneKey(k, to), [Next]_vars \/ OnlyLost,
         made' = made, Departures' = Departures, done'["groups"] = done["groups"]
  PROVE  OneKey(k, to)'
<1>0. /\ done \in [Kinds -> Nat] /\ calm \in BOOLEAN /\ made \in Nat /\ thread \in [Threads -> Places]
      /\ done["leave"] \in Nat /\ done["kick"] \in Nat /\ done["groups"] \in Nat
      /\ members \subseteq Users /\ Idle \in Places /\ Idle.at = "idle"
  BY DEF GKTypeOK, Kinds, Places, Idle
<1>1. CASE UNCHANGED vars \/ OnlyLost
  <2>1. UNCHANGED <<key, applied, block, thread>>
    BY <1>1 DEF vars, relayVars, clientVars, OnlyLost
  <2>2. QED
    BY <2>1 DEF OneKey, Goes1, Harmless, Again
<1>2. ASSUME NEW t \in Threads, ListToCheck(t) \/ ListToRekey(t) PROVE OneKey(k, to)'
  <2>1. PICK place \in {"members", "rekey"} : Read(t, place, MembersFor(t[1]))
    BY <1>2 DEF ListToCheck, ListToRekey
  <2>2. PICK got \in {members, {}} : Go(t, [at |-> place, got |-> got])
    BY <2>1, ListedIs
  <2>3. [at |-> place, got |-> got] \in Places
    BY <1>0, <2>1 DEF Places
  <2>4. UNCHANGED <<key, applied, block>>
    BY <1>2 DEF ListToCheck, ListToRekey, relayVars, clientVars
  <2>5. QED
    BY <2>2, <2>3, <2>4, OneKeyElse
<1>3. ASSUME NEW t \in Threads, ObserveMembers(t) PROVE OneKey(k, to)'
  <2>1. PICK p \in Places : Go(t, p) /\ p.at \in {"idle", "relist"}
    BY <1>3 DEF ObserveMembers, Places, Idle
  <2>2. UNCHANGED <<key, applied, block>>
    BY <1>3 DEF ObserveMembers, relayVars
  <2>3. QED
    BY <2>1, <2>2, OneKeyElse
<1>4. ASSUME NEW t \in Threads, NewKey(t) PROVE OneKey(k, to)'
  <2>1. Go(t, Idle) /\ UNCHANGED <<key, applied, block>>
    BY <1>0, <1>4 DEF NewKey, relayVars
  <2>2. QED
    BY <1>0, <2>1, OneKeyElse
<1>5. ASSUME NEW t \in Threads, SealKey(t) PROVE OneKey(k, to)'
  <2>1. thread[t].at = "seal" /\ UNCHANGED <<key, applied, block>>
    BY <1>5 DEF SealKey, relayVars, clientVars
  <2>2. thread[t].todo \in (SUBSET Users) \ {{}}
    BY <1>0, <2>1, PlaceIs
  <2>3. PICK todo, v : todo = thread[t].todo /\ v = Min(todo)
    OBVIOUS
  <2>4. v \in Users /\ todo \ {v} \in SUBSET Users
    BY <2>2, <2>3, MinIs, NamesAssumption
  <2>5. \/ Go(t, Invite(todo \ {v}))
        \/ \E n \in key[t[1]] :
             Go(t, [at |-> "deliver", to |-> v, todo |-> todo \ {v}, sealed |-> Block(n, t[1], sealed + 1)])
    BY <1>5, <2>3 DEF SealKey
  <2>6. CASE Go(t, Invite(todo \ {v}))
    <3>1. PICK p : p = Invite(todo \ {v})
      OBVIOUS
    <3>2. p \in Places /\ p.at \in {"idle", "seal"}
      BY <2>4, <3>1, InviteIs DEF Invite, Idle
    <3>3. QED
      BY <2>1, <2>6, <3>1, <3>2, OneKeyElse
  <2>7. ASSUME NEW n \in key[t[1]],
               Go(t, [at |-> "deliver", to |-> v, todo |-> todo \ {v}, sealed |-> Block(n, t[1], sealed + 1)])
        PROVE  OneKey(k, to)'
    <3>1. PICK p : p = [at |-> "deliver", to |-> v, todo |-> todo \ {v},
                        sealed |-> Block(n, t[1], sealed + 1)]
      OBVIOUS
    <3>2. t[1] \in Users /\ n \in Nat /\ sealed + 1 \in Nat /\ n = k
      BY <2>7 DEF GKTypeOK, Threads, AtMostOne, OneKey
    <3>3. Block(n, t[1], sealed + 1) \in Blocks /\ Block(n, t[1], sealed + 1).key = k
      BY <3>2 DEF Block, Blocks
    <3>4. p \in Places /\ Goes1(t, p, k)
      BY <2>4, <3>1, <3>3 DEF Places, Goes1
    <3>5. QED
      BY <2>1, <2>7, <3>1, <3>4, OneKeyGoes
  <2>8. QED
    BY <2>5, <2>6, <2>7
<1>6. ASSUME NEW t \in Threads, LoseRequest(t) PROVE OneKey(k, to)'
  <2>1. Go(t, Idle) /\ UNCHANGED <<key, applied, block>>
    BY <1>6 DEF LoseRequest, relayVars, clientVars
  <2>2. QED
    BY <1>0, <2>1, OneKeyElse
<1>7. ASSUME NEW t \in Threads, ForgetGroup(t) PROVE FALSE
  BY <1>7 DEF ForgetGroup, OneKey, Goes1
<1>8. ASSUME NEW u \in Users, NEW v \in Users, RequestInvite(u, v) PROVE OneKey(k, to)'
  <2>1. PICK t, p : t = <<u, "req">> /\ p = Invite({v})
    OBVIOUS
  <2>2. t \in Threads /\ p \in Places /\ p.at = "seal"
    BY <2>1, ThreadIs, InviteIs DEF Invite
  <2>3. Go(t, p) /\ UNCHANGED <<key, applied, block>>
    BY <1>8, <2>1 DEF RequestInvite, relayVars, clientVars
  <2>4. QED
    BY <2>2, <2>3, OneKeyElse
<1>9. ASSUME NEW u \in Users, FetchGroups(u) PROVE OneKey(k, to)'
  <2>1. PICK t : t = <<u, "poll">>
    OBVIOUS
  <2>2. t \in Threads /\ t[1] = u /\ t[2] = "poll" /\ UNCHANGED <<key, applied, block>>
    BY <1>9, <2>1, ThreadIs DEF FetchGroups, relayVars, clientVars
  <2>3. PICK got \in {BlocksOf(u), {}} : Go(t, [at |-> "groups", got |-> got])
    BY <1>9, <2>1, <2>2, ReadIs DEF FetchGroups
  <2>4. PICK p : p = [at |-> "groups", got |-> got]
    OBVIOUS
  <2>5. p \in Places
    BY <2>4, AnswersOK DEF Places
  <2>6. Harmless(u, got, k)
    BY <2>3 DEF BlocksOf, OneKey, Harmless, Again
  <2>7. Goes1(t, p, k)
    BY <2>2, <2>4, <2>6 DEF Goes1
  <2>8. QED
    BY <2>2, <2>3, <2>4, <2>5, <2>7, OneKeyGoes
<1>10. ASSUME NEW u \in Users, RequestGroups(u) PROVE FALSE
  BY <1>0, <1>10, AskIs DEF RequestGroups, Kinds
<1>11. ASSUME NEW u \in Users, NEW v \in Users, RequestLeave(u) \/ RequestKick(u, v) PROVE FALSE
  <2>1. \/ done'["leave"] = done["leave"] + 1 /\ done'["kick"] = done["kick"]
        \/ done'["leave"] = done["leave"] /\ done'["kick"] = done["kick"] + 1
    BY <1>0, <1>11, AskIs DEF RequestLeave, RequestKick, Kinds
  <2>2. QED
    BY <1>0, <2>1 DEF Departures
<1>12. QED
  BY <1>1, <1>2, <1>3, <1>4, <1>5, <1>6, <1>7, <1>8, <1>9, <1>10, <1>11, OneKeyChecked,
     OneKeyApplied, OneKeyDelivered DEF Next, Work

\* The era of a message is not to come; while it lasts, one key is left.
EraOK(sure, k, to) ==
  /\ \A e \in sure : e[1] <= made /\ e[2] <= Departures /\ e[3] <= done["groups"]
  /\ sure = {Era} => OneKey(k, to)

LEMMA EraStays ==
  ASSUME GKTypeOK, NEW k, NEW to \in SUBSET Users, NEW sure \in AtMostOne(Nat \X Nat \X Nat),
         EraOK(sure, k, to), [Next]_vars \/ OnlyLost
  PROVE  EraOK(sure, k, to)'
<1>1. /\ made <= made' /\ Departures <= Departures' /\ done["groups"] <= done'["groups"]
  BY GoneAreCounted
<1>2. /\ made \in Nat /\ Departures \in Nat /\ done["groups"] \in Nat
      /\ made' \in Nat /\ Departures' \in Nat /\ done'["groups"] \in Nat
  <2>1. done \in [Kinds -> Nat] /\ done' \in [Kinds -> Nat] /\ made \in Nat /\ made' \in Nat
    BY TypesOfKeys DEF GKTypeOK
  <2>2. QED
    BY <2>1 DEF Departures, Kinds
<1>3. ASSUME NEW e \in sure PROVE e[1] \in Nat /\ e[2] \in Nat /\ e[3] \in Nat
  BY DEF AtMostOne
<1>4. \A e \in sure : e[1] <= made' /\ e[2] <= Departures' /\ e[3] <= done'["groups"]
  BY <1>1, <1>2, <1>3 DEF EraOK
<1>5. ASSUME sure = {Era'} PROVE OneKey(k, to)'
  <2>1. PICK e : e = Era'
    OBVIOUS
  <2>2. e \in sure /\ e[1] = made' /\ e[2] = Departures' /\ e[3] = done'["groups"]
    BY <1>5, <2>1 DEF Era
  <2>3. e[1] <= made /\ e[2] <= Departures /\ e[3] <= done["groups"]
    BY <2>2 DEF EraOK
  <2>4. made' = made /\ Departures' = Departures /\ done'["groups"] = done["groups"]
    BY <1>1, <1>2, <2>2, <2>3
  <2>5. sure = {Era}
    BY <1>5, <2>4 DEF Era
  <2>6. OneKey(k, to)
    BY <2>5 DEF EraOK
  <2>7. QED
    BY <2>4, <2>6, OneKeyStays
<1>6. QED
  BY <1>4, <1>5 DEF EraOK

InMail(m) ==
  \/ \E u \in Users : m \in posting[u] \cup held[u]
  \/ \E i \in 1 .. Len(mail) : m = mail[i]

EraInv == \A m \in Mails : InMail(m) => EraOK(m.sure, m.key, m.to)

\* Two forms of a message, as its readers are marked and its delivery is noted.
SameLetter(m, n) == m.sure = n.sure /\ m.key = n.key /\ m.to = n.to

LEMMA EraBegins ==
  ASSUME GMTypeOK, NEW u \in Users, NEW m \in Message(u)
  PROVE  EraOK(m.sure, m.key, m.to)
<1>1. /\ m.key \in key[u] /\ m.to = members /\ m.sure = (IF OneKeyLeft(u) THEN {Era} ELSE {})
  BY MessageIs
<1>2. made \in Nat /\ Departures \in Nat /\ done["groups"] \in Nat
  BY DEF GMTypeOK, GKTypeOK, Departures, Kinds
<1>3. CASE OneKeyLeft(u)
  <2>1. /\ Agreement /\ AtRest /\ \A v \in Users : key[v] \subseteq key[u]
        /\ \A t \in Threads : thread[t].at \in {"groups", "members"} => thread[t].got = {}
        /\ u \in members /\ members \subseteq Users /\ DOMAIN block \subseteq members
    BY <1>3 DEF OneKeyLeft, Settled, GMTypeOK, GKTypeOK
  <2>2. key[u] = {m.key}
    BY <1>1 DEF GMTypeOK, GKTypeOK, AtMostOne
  <2>3. \A v \in members : key[v] = {m.key}
    BY <2>1, <2>2 DEF Agreement
  <2>4. \A v \in DOMAIN block : block[v] \in applied[v]
    BY <2>1 DEF AtRest, BlocksOf
  <2>5. \A t \in Threads : Goes1(t, thread[t], m.key)
    BY <2>1 DEF AtRest, Goes1, Harmless, Again
  <2>6. OneKey(m.key, m.to)
    BY <1>1, <2>1, <2>2, <2>3, <2>4, <2>5 DEF OneKey
  <2>7. \A e \in m.sure : e[1] <= made /\ e[2] <= Departures /\ e[3] <= done["groups"]
    BY <1>1, <1>2, <1>3 DEF Era
  <2>8. QED
    BY <2>6, <2>7 DEF EraOK
<1>4. CASE ~OneKeyLeft(u)
  BY <1>1, <1>4 DEF EraOK
<1>5. QED
  BY <1>3, <1>4

\* Where the messages come from.
LEMMA OldLetters ==
  ASSUME GMTypeOK, [GMNext]_gmVars, NEW m \in Mails, InMail(m)'
  PROVE  \/ \E n \in Mails : InMail(n) /\ SameLetter(m, n)
         \/ \E u \in Users : SealPost(u) /\ m \in Message(u)
<1>0. /\ mail \in Seq(Mails) /\ posting \in [Users -> AtMostOne(Mails)]
      /\ held \in [Users -> AtMostOne(Mails)] /\ Departures \in Nat
      /\ \A u \in Users : posting[u] \subseteq Mails
      /\ Len(mail) \in Nat /\ \A i \in 1 .. Len(mail) : mail[i] \in Mails
  BY DEF GMTypeOK, MailTypeOK, GKTypeOK, Departures, Kinds, AtMostOne
<1> DEFINE Old == \E n \in Mails : InMail(n) /\ SameLetter(m, n)
<1>1. ASSUME NEW n \in Mails, InMail(n), SameLetter(m, n) PROVE Old
  BY <1>1
<1>2. ASSUME InMail(m) PROVE Old
  BY <1>2 DEF SameLetter
<1>3. ASSUME NEW i \in 1 .. Len(mail), SameLetter(m, mail[i]) PROVE Old
  <2>1. mail[i] \in Mails /\ InMail(mail[i])
    BY <1>0 DEF InMail
  <2>2. QED
    BY <1>3, <2>1
<1> HIDE DEF Old
<1>4. ASSUME NEW u \in Users, SealPost(u) PROVE Old \/ m \in Message(u)
  <2>1. PICK n \in Message(u) : posting' = [posting EXCEPT ![u] = {n}]
    BY <1>4 DEF SealPost
  <2>2. UNCHANGED <<mail, held>>
    BY <1>4 DEF SealPost
  <2>3. InMail(m) \/ m = n
    BY <1>0, <2>1, <2>2 DEF InMail
  <2>4. QED
    BY <1>2, <2>1, <2>3
<1>5. ASSUME NEW u \in Users, DeliverPost(u) PROVE Old
  <2>1. posting' = [posting EXCEPT ![u] = {}] /\ held' = held
    BY <1>5 DEF DeliverPost
  <2>2. \A v \in Users : posting'[v] \subseteq posting[v]
    BY <1>0, <2>1
  <2>3. mail' = mail \/ \E n \in posting[u] : mail' = Posted(n)
    BY <1>5 DEF DeliverPost, Posted
  <2>4. CASE \E v \in Users : m \in posting'[v] \cup held'[v]
    <3>1. InMail(m)
      BY <2>1, <2>2, <2>4 DEF InMail
    <3>2. QED
      BY <1>2, <3>1
  <2>5. CASE mail' = mail /\ \E i \in 1 .. Len(mail') : m = mail'[i]
    <3>1. InMail(m)
      BY <2>5 DEF InMail
    <3>2. QED
      BY <1>2, <3>1
  <2>6. ASSUME NEW n \in posting[u], mail' = Posted(n), NEW i \in 1 .. Len(mail'), m = mail'[i]
        PROVE  Old
    <3>1. PICK list, p : list = Posted(n) /\ p = [n EXCEPT !.departures = Departures]
      OBVIOUS
    <3>2. n \in Mails
      BY <1>0
    <3>3. /\ p \in Mails /\ list \in Seq(Mails)
          /\ \/ /\ Len(mail) + 1 <= MaxMail /\ Len(list) = Len(mail) + 1 /\ list[Len(list)] = p
                /\ \A j \in 1 .. Len(mail) : list[j] = mail[j]
             \/ /\ Len(mail) + 1 > MaxMail /\ Len(list) = Len(mail) /\ Len(list) > 0
                /\ list[Len(list)] = p
                /\ \A j \in 1 .. Len(list) - 1 : list[j] = mail[j + 1]
      BY <1>0, <3>1, <3>2, PostedIs
    <3>4. i \in 1 .. Len(list) /\ m = list[i]
      BY <2>6, <3>1
    <3>5. CASE i = Len(list)
      <4>1. m = p
        BY <3>3, <3>4, <3>5
      <4>2. SameLetter(m, n)
        BY <3>1, <3>2, <4>1 DEF SameLetter, Mails
      <4>3. InMail(n)
        BY DEF InMail
      <4>4. QED
        BY <1>1, <3>2, <4>2, <4>3
    <3>6. CASE i # Len(list)
      <4>1. \E j \in 1 .. Len(mail) : m = mail[j]
        <5>1. CASE /\ Len(list) = Len(mail) + 1 /\ \A j \in 1 .. Len(mail) : list[j] = mail[j]
          BY <1>0, <3>4, <3>6, <5>1
        <5>2. CASE /\ Len(list) = Len(mail) /\ \A j \in 1 .. Len(list) - 1 : list[j] = mail[j + 1]
          <6>1. i \in 1 .. Len(list) - 1 /\ i + 1 \in 1 .. Len(mail)
            BY <1>0, <3>4, <3>6, <5>2
          <6>2. QED
            BY <3>4, <5>2, <6>1
        <5>3. QED
          BY <3>3, <5>1, <5>2
      <4>2. InMail(m)
        BY <4>1 DEF InMail
      <4>3. QED
        BY <1>2, <4>2
    <3>7. QED
      BY <3>5, <3>6
  <2>7. QED
    BY <2>3, <2>4, <2>5, <2>6 DEF InMail
<1>6. ASSUME NEW u \in Users, PollMail(u) PROVE Old
  <2>1. PICK i \in 1 .. Len(mail) : /\ mail' = Marked(i, u)
                                   /\ (held' = [held EXCEPT ![u] = {mail[i]}] \/ held' = held)
    BY <1>0, <1>6, PolledIs
  <2>2. posting' = posting
    BY <1>6 DEF PollMail
  <2>3. CASE \E v \in Users : m \in posting'[v] \cup held'[v]
    <3>1. InMail(m) \/ m = mail[i]
      BY <1>0, <2>1, <2>2, <2>3 DEF InMail
    <3>2. QED
      BY <1>2, <1>3, <3>1 DEF SameLetter
  <2>4. ASSUME NEW j \in 1 .. Len(mail'), m = mail'[j] PROVE Old
    <3>1. PICK list : list = Marked(i, u)
      OBVIOUS
    <3>2. /\ list \in Seq(Mails)
          /\ \/ /\ i = 1 /\ members \subseteq mail[1].read \cup {u} /\ Len(list) = Len(mail) - 1
                /\ \A n \in 1 .. Len(list) : list[n] = mail[n + 1]
             \/ /\ i = 1 => ~(members \subseteq mail[1].read \cup {u})
                /\ Len(list) = Len(mail)
                /\ \A n \in 1 .. Len(list) : n # i => list[n] = mail[n]
                /\ list[i] = [mail[i] EXCEPT !.read = @ \cup {u}]
      BY <1>0, <3>1, MarkedIs
    <3>3. j \in 1 .. Len(list) /\ m = list[j]
      BY <2>1, <2>4, <3>1
    <3>4. CASE Len(list) = Len(mail) - 1 /\ \A n \in 1 .. Len(list) : list[n] = mail[n + 1]
      <4>1. j + 1 \in 1 .. Len(mail) /\ m = mail[j + 1]
        BY <1>0, <3>3, <3>4
      <4>2. QED
        BY <1>3, <4>1 DEF SameLetter
    <3>5. CASE /\ Len(list) = Len(mail)
               /\ \A n \in 1 .. Len(list) : n # i => list[n] = mail[n]
               /\ list[i] = [mail[i] EXCEPT !.read = @ \cup {u}]
      <4>1. ASSUME NEW n \in Mails, NEW r PROVE SameLetter([n EXCEPT !.read = r], n)
        BY DEF SameLetter, Mails
      <4>2. j \in 1 .. Len(mail)
        BY <3>3, <3>5
      <4>3. SameLetter(m, mail[j])
        <5>1. CASE j = i
          <6>1. PICK n : n = mail[i]
            OBVIOUS
          <6>2. n \in Mails /\ m = [n EXCEPT !.read = n.read \cup {u}]
            BY <1>0, <3>3, <3>5, <5>1, <6>1
          <6>3. QED
            BY <4>1, <5>1, <6>1, <6>2
        <5>2. CASE j # i
          BY <3>3, <3>5, <5>2 DEF SameLetter
        <5>3. QED
          BY <5>1, <5>2
      <4>4. QED
        BY <1>3, <4>2, <4>3
    <3>6. QED
      BY <3>2, <3>4, <3>5
  <2>5. QED
    BY <2>3, <2>4 DEF InMail
<1>7. ASSUME NEW u \in Users, OpenMail(u) PROVE Old
  <2>1. \A v \in Users : held'[v] \subseteq held[v]
    BY <1>0, <1>7 DEF OpenMail
  <2>2. InMail(m)
    BY <1>7, <2>1 DEF OpenMail, InMail
  <2>3. QED
    BY <1>2, <2>2
<1>8. ASSUME UNCHANGED mailVars PROVE Old
  BY <1>2, <1>8 DEF mailVars, InMail
<1>9. QED
  BY <1>4, <1>5, <1>6, <1>7, <1>8 DEF GMNext, LookAtKeys, gmVars, Old

LEMMA EraStep == GMTypeOK /\ EraInv /\ [GMNext]_gmVars => EraInv'
<1> SUFFICES ASSUME GMTypeOK, EraInv, [GMNext]_gmVars, NEW m \in Mails, InMail(m)'
             PROVE  EraOK(m.sure, m.key, m.to)'
  BY DEF EraInv
<1>1. PICK k, to, sure : k = m.key /\ to = m.to /\ sure = m.sure
  OBVIOUS
<1>2. to \in SUBSET Users /\ sure \in AtMostOne(Nat \X Nat \X Nat)
  BY <1>1 DEF Mails
<1>3. EraOK(sure, k, to)
  <2>1. CASE \E n \in Mails : InMail(n) /\ SameLetter(m, n)
    BY <1>1, <2>1 DEF EraInv, SameLetter
  <2>2. CASE \E u \in Users : SealPost(u) /\ m \in Message(u)
    BY <1>1, <2>2, EraBegins
  <2>3. QED
    BY <2>1, <2>2, OldLetters
<1>4. EraOK(sure, k, to)'
  BY <1>2, <1>3, EraStays, KeysInMail DEF GMTypeOK
<1>5. QED
  BY <1>1, <1>4

LEMMA EraIsEnough == GMTypeOK /\ EraInv => CurrentMailOpens
<1> SUFFICES ASSUME GMTypeOK, EraInv, NEW u \in members, NEW m \in held[u] \cup Range(mail),
                    m.sure = {Era}
             PROVE  key[u] \subseteq {m.key} /\ (u \in m.to => key[u] = {m.key})
  BY DEF CurrentMailOpens
<1>1. /\ u \in Users /\ held[u] \subseteq Mails /\ mail \in Seq(Mails)
  BY DEF GMTypeOK, GKTypeOK, MailTypeOK, AtMostOne
<1>2. m \in Mails /\ InMail(m)
  <2>1. CASE m \in held[u]
    BY <1>1, <2>1 DEF InMail
  <2>2. CASE m \in Range(mail)
    <3>1. DOMAIN mail = 1 .. Len(mail)
      BY <1>1
    <3>2. PICK i \in 1 .. Len(mail) : m = mail[i]
      BY <2>2, <3>1 DEF Range
    <3>3. QED
      BY <1>1, <3>2 DEF InMail
  <2>3. QED
    BY <2>1, <2>2
<1>3. EraOK(m.sure, m.key, m.to)
  BY <1>2 DEF EraInv
<1>4. OneKey(m.key, m.to)
  BY <1>3 DEF EraOK
<1>5. QED
  BY <1>1, <1>4 DEF OneKey

\* What was sealed when one key was left is opened by all who were members then, for
\* any number of users, invitations and messages, in whatever order messages and
\* keys are fetched, until another key is made, somebody goes or lists the groups.
THEOREM WhatIsCurrentOpens == GMSpec => []CurrentMailOpens
<1>1. GMInit => EraInv
  BY DEF GMInit, EraInv, InMail
<1>2. GMTypeOK /\ EraInv /\ [GMNext]_gmVars => EraInv'
  BY EraStep
<1>3. GMTypeOK /\ EraInv => CurrentMailOpens
  BY EraIsEnough
<1>4. QED
  BY <1>1, <1>2, <1>3, GroupMailTypes, PTL DEF GMSpec
==============================================================================
