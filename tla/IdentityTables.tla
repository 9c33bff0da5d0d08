--------------------------- MODULE IdentityTables ---------------------------
(***************************************************************************)
(* The store operations of Identity, for every set of sessions, names and  *)
(* aliases.  An operation is a function from tables to tables, so each has *)
(* a lemma of its own: from sound tables it makes sound ones, and this is  *)
(* what it leaves alone.                                                   *)
(***************************************************************************)
EXTENDS IdentityStore, TLAPS

(* What an operation on names leaves alone.                                *)
SamePlaces(d, e) ==
  /\ e.phys = d.phys /\ e.live = d.live /\ e.clock = d.clock
  /\ \A t \in Session : e.sess[t].epoch = d.sess[t].epoch /\ e.sess[t].expired = d.sess[t].expired

SecretsKept(d, e) == \A t \in Session : d.own[t].secret # Null => e.own[t].secret = d.own[t].secret

-----------------------------------------------------------------------------
(* Names.                                                                  *)

(* The rows of a session that has none.                                    *)
LEMMA EmptyRows ==
  /\ NoRow \in Row /\ NoOwnership \in Ownership
  /\ ~NoRow.expired /\ NoRow.name = Null /\ NoRow.nstate = "unnamed" /\ NoRow.epoch = 0
  /\ NoOwnership.state = "none" /\ NoOwnership.name = Null
<1>1. NoRow \in Row
  BY Zenon DEF NoRow, Row
<1>2. ~NoRow.expired /\ NoRow.name = Null /\ NoRow.nstate = "unnamed" /\ NoRow.epoch = 0
  BY DEF NoRow
<1>3. NoOwnership \in Ownership /\ NoOwnership.state = "none" /\ NoOwnership.name = Null
  BY DEF NoOwnership, Ownership
<1> QED
  BY <1>1, <1>2, <1>3

(* Tables that agree on the edges, the components and the epochs are alike *)
(* in what is sound about them.                                            *)
LEMMA PlacesStaySound ==
  ASSUME NEW d \in Tables, NEW e \in Tables, SamePlaces(d, e), Sound(d)
  PROVE  /\ EdgesLeadToAwakeSessions(e) /\ RowsAreOfSessions(e) /\ OneLiveOwner(e)
         /\ \A s \in Session : LiveMcp(e, s) = LiveMcp(d, s)
<1>1. \A s \in Session : LiveMcp(e, s) = LiveMcp(d, s)
  BY DEF LiveMcp, SamePlaces
<1>2. OneLiveOwner(e)
  BY <1>1 DEF OneLiveOwner, Sound
<1>3. EdgesLeadToAwakeSessions(e)
  BY DEF EdgesLeadToAwakeSessions, SamePlaces, Sound, Tables, Exists
<1>4. RowsAreOfSessions(e)
  BY DEF RowsAreOfSessions, SamePlaces, Sound, Tables, Exists, Component
<1> QED
  BY <1>1, <1>2, <1>3, <1>4

(* The write of the name columns (SetName).                                *)
LEMMA NameIsSet ==
  ASSUME NEW d \in Tables, NEW s \in Session, NEW nstate \in {"unnamed", "pending", "active"},
         NEW n \in Name \cup {Null}, NEW ttl \in BOOLEAN
  PROVE  LET e == SetName(d, s, nstate, n, ttl)
         IN /\ e \in Tables /\ SamePlaces(d, e)
            /\ e.own = d.own /\ e.minted = d.minted
            /\ e.sess[s].name = n /\ e.sess[s].nstate = nstate
            /\ \A t \in Session \ {s} : e.sess[t] = d.sess[t]
<1> DEFINE q == [d.sess[s] EXCEPT !.nstate = nstate, !.name = n, !.ttl = ttl]
           e == SetName(d, s, nstate, n, ttl)
<1>1. d.sess[s] \in Row
  BY DEF Tables
<1>2. q \in Row
  BY <1>1, Zenon DEF Row
<1>3. /\ q.epoch = d.sess[s].epoch /\ q.expired = d.sess[s].expired
      /\ q.name = n /\ q.nstate = nstate
  BY <1>1 DEF Row
<1>4. e = [d EXCEPT !.sess = [d.sess EXCEPT ![s] = q]]
  BY DEF SetName
<1> HIDE DEF q
<1>5. e \in Tables
  BY <1>2, <1>4 DEF Tables
<1>6. /\ e.sess = [d.sess EXCEPT ![s] = q] /\ e.own = d.own /\ e.minted = d.minted
      /\ e.phys = d.phys /\ e.live = d.live /\ e.clock = d.clock
  BY <1>4 DEF Tables
<1>7. \A t \in Session : e.sess[t] = IF t = s THEN q ELSE d.sess[t]
  BY <1>6 DEF Tables
<1> HIDE DEF e
<1> QED
  BY <1>3, <1>5, <1>6, <1>7 DEF SamePlaces, e

(* An ownership row is released (setNameOwnershipReleased).                *)
LEMMA OwnershipIsReleased ==
  ASSUME NEW d \in Tables, NEW s \in Session
  PROVE  LET e == setNameOwnershipReleased(d, s)
         IN /\ e \in Tables /\ SamePlaces(d, e) /\ e.sess = d.sess
            /\ SecretsKept(d, e)
            /\ \A t \in Session \ {s} : e.own[t] = d.own[t]
            /\ e.own[s].state # "active"
            /\ d.own[s].state # "none" => e.own[s].name = Null
            /\ d.own[s].state = "none" => e.own[s].name = d.own[s].name
<1> DEFINE q == [d.own[s] EXCEPT !.state = "released", !.name = Null]
           e == setNameOwnershipReleased(d, s)
<1>1. d.own[s] \in Ownership
  BY DEF Tables
<1>2. q \in Ownership /\ q.state = "released" /\ q.name = Null /\ q.secret = d.own[s].secret
  BY <1>1, Zenon DEF Ownership
<1>3. CASE d.own[s].state = "none"
  BY <1>3 DEF setNameOwnershipReleased, SamePlaces, SecretsKept
<1>4. CASE d.own[s].state # "none"
  <2>1. e = [d EXCEPT !.own = [d.own EXCEPT ![s] = q]]
    BY <1>4 DEF setNameOwnershipReleased
  <2> HIDE DEF q
  <2>2. e \in Tables
    BY <1>2, <2>1 DEF Tables
  <2>3. /\ e.own = [d.own EXCEPT ![s] = q] /\ e.sess = d.sess
        /\ e.phys = d.phys /\ e.live = d.live /\ e.clock = d.clock
    BY <2>1 DEF Tables
  <2>4. \A t \in Session : e.own[t] = IF t = s THEN q ELSE d.own[t]
    BY <2>3 DEF Tables
  <2> HIDE DEF e
  <2> QED
    BY <1>2, <1>4, <2>2, <2>3, <2>4 DEF SamePlaces, SecretsKept, e
<1> QED
  BY <1>3, <1>4

(* Every other holder of the name is released (releaseOthers).             *)
LEMMA OthersAreReleased ==
  ASSUME NEW d \in Tables, NEW s \in Session, NEW n \in Name
  PROVE  LET e == releaseOthers(d, s, n)
         IN /\ e \in Tables /\ SamePlaces(d, e) /\ e.sess = d.sess /\ e.minted = d.minted
            /\ SecretsKept(d, e)
            /\ \A t \in Session : t = s \/ d.own[t].name # n => e.own[t] = d.own[t]
            /\ \A t \in Session \ {s} : d.own[t].name = n =>
                 e.own[t].state = "released" /\ e.own[t].name = Null
<1> DEFINE Q(t) == [d.own[t] EXCEPT !.state = "released", !.name = Null]
           O == [t \in Session |-> IF t # s /\ d.own[t].name = n THEN Q(t) ELSE d.own[t]]
           e == releaseOthers(d, s, n)
<1>1. \A t \in Session : d.own[t] \in Ownership
  BY DEF Tables
<1>2. \A t \in Session : /\ Q(t) \in Ownership /\ Q(t).state = "released"
                         /\ Q(t).name = Null /\ Q(t).secret = d.own[t].secret
  BY <1>1, Zenon DEF Ownership
<1>3. e = [d EXCEPT !.own = O]
  BY DEF releaseOthers
<1> HIDE DEF Q
<1>4. O \in [Session -> Ownership]
  BY <1>1, <1>2
<1>5. \A t \in Session : O[t] = IF t # s /\ d.own[t].name = n THEN Q(t) ELSE d.own[t]
  OBVIOUS
<1> HIDE DEF O
<1>6. /\ e \in Tables /\ e.own = O /\ e.sess = d.sess /\ e.minted = d.minted
      /\ e.phys = d.phys /\ e.live = d.live /\ e.clock = d.clock
  BY <1>3, <1>4 DEF Tables
<1> HIDE DEF e
<1> QED
  BY <1>2, <1>5, <1>6 DEF SamePlaces, SecretsKept, e

(* An ownership row is awarded (setNameOwnershipActive).                   *)
LEMMA OwnershipIsAwarded ==
  ASSUME NEW d \in Tables, NEW s \in Session, NEW n \in Name
  PROVE  LET e == setNameOwnershipActive(d, s, n)
         IN /\ e \in Tables /\ SamePlaces(d, e) /\ e.sess = d.sess
            /\ SecretsKept(d, e)
            /\ e.own[s].state = "active" /\ e.own[s].name = n
            /\ \A t \in Session \ {s} : d.own[t].name # n => e.own[t] = d.own[t]
            /\ \A t \in Session \ {s} : d.own[t].name = n =>
                 e.own[t].state = "released" /\ e.own[t].name = Null
<1> DEFINE k == d.minted[s] + 1
           mint == d.own[s].secret = Null
           secret == IF mint THEN <<s, k>> ELSE d.own[s].secret
           q == [state |-> "active", name |-> n, secret |-> secret]
           b == releaseOthers(d, s, n)
           e == setNameOwnershipActive(d, s, n)
<1>1. d.own[s] \in Ownership /\ d.minted[s] \in Nat
  BY DEF Tables
<1>2. <<s, k>> \in Secret
  BY <1>1 DEF Secret
<1>3. q \in Ownership /\ q.state = "active" /\ q.name = n /\ (d.own[s].secret # Null => q.secret = d.own[s].secret)
  BY <1>1, <1>2 DEF Ownership
<1>4. /\ b \in Tables /\ SamePlaces(d, b) /\ b.sess = d.sess /\ b.minted = d.minted /\ SecretsKept(d, b)
      /\ \A t \in Session : t = s \/ d.own[t].name # n => b.own[t] = d.own[t]
      /\ \A t \in Session \ {s} : d.own[t].name = n => b.own[t].state = "released" /\ b.own[t].name = Null
  BY OthersAreReleased
<1> USE <1>4
<1> DEFINE m == IF mint THEN k ELSE b.minted[s]
<1>5. m \in Nat
  BY <1>1 DEF Tables
<1>6. e = [b EXCEPT !.own = [b.own EXCEPT ![s] = q], !.minted = [b.minted EXCEPT ![s] = m]]
  BY Zenon DEF setNameOwnershipActive
<1> HIDE DEF q, b, m
<1>7. /\ e \in Tables
      /\ e.own = [b.own EXCEPT ![s] = q] /\ e.sess = b.sess
      /\ e.phys = b.phys /\ e.live = b.live /\ e.clock = b.clock
  <2>1. b \in Tables /\ q \in Ownership
    BY <1>3
  <2>2. [b.own EXCEPT ![s] = q] \in [Session -> Ownership] /\ [b.minted EXCEPT ![s] = m] \in [Session -> Nat]
    BY <1>5, <2>1 DEF Tables
  <2> QED
    BY <1>6, <2>1, <2>2, Zenon DEF Tables
<1>8. \A t \in Session : e.own[t] = IF t = s THEN q ELSE b.own[t]
  BY <1>7, Zenon DEF Tables
<1> HIDE DEF e
<1> QED
  BY <1>3, <1>7, <1>8 DEF SamePlaces, SecretsKept, e

(* The mirror of names and ownership, where one session changes.           *)
LEMMA MirrorStays ==
  ASSUME NEW d, NEW e, NEW s \in Session, OwnershipMirrorsNames(d),
         \A u \in Session \ {s} : e.own[u] = d.own[u] /\ e.sess[u] = d.sess[u],
         e.own[s].name = e.sess[s].name,
         (e.own[s].state = "active") <=> (e.sess[s].nstate = "active"),
         (e.sess[s].name # Null) <=> (e.sess[s].nstate = "active")
  PROVE  OwnershipMirrorsNames(e)
<1> SUFFICES ASSUME NEW u \in Session
             PROVE  /\ (e.own[u].state = "active") <=> (e.sess[u].nstate = "active")
                    /\ e.own[u].name = e.sess[u].name
                    /\ (e.sess[u].name # Null) <=> (e.sess[u].nstate = "active")
  BY Zenon DEF OwnershipMirrorsNames
<1>1. CASE u = s
  BY <1>1
<1>2. CASE u # s
  BY <1>2 DEF OwnershipMirrorsNames
<1> QED
  BY <1>1, <1>2

(* Names and ownership stay sound where every session keeps both or loses  *)
(* both.                                                                   *)
LEMMA NamesKeptOrLost ==
  ASSUME NEW d, NEW e, OwnershipMirrorsNames(d), OneHolderPerName(d),
         \A s \in Session :
           \/ /\ e.own[s] = d.own[s] /\ e.sess[s].name = d.sess[s].name
              /\ (e.sess[s].nstate = "active") <=> (d.sess[s].nstate = "active")
           \/ /\ e.own[s].state # "active" /\ e.own[s].name = Null
              /\ e.sess[s].name = Null /\ e.sess[s].nstate # "active"
  PROVE  OwnershipMirrorsNames(e) /\ OneHolderPerName(e)
<1>1. OwnershipMirrorsNames(e)
  BY DEF OwnershipMirrorsNames
<1>2. \A s \in Session : e.sess[s].name \in {Null, d.sess[s].name}
  OBVIOUS
<1>3. OneHolderPerName(e)
  BY ONLY OneHolderPerName(d), <1>2 DEF OneHolderPerName
<1> QED
  BY <1>1, <1>3

(* A session gets a name nobody else holds (Named): the tables stay sound. *)
LEMMA NamedIsSound ==
  ASSUME NEW d, NEW s \in Session, NEW n \in Name, Sound(d), Exists(d, s),
         \A t \in Session \ {s} : d.sess[t].name # n
  PROVE  LET e == Named(d, s, n)
         IN /\ Sound(e) /\ SamePlaces(d, e) /\ SecretsKept(d, e)
            /\ e.sess[s].nstate = "active"
            /\ \A t \in Session \ {s} : e.sess[t] = d.sess[t]
<1> DEFINE b == SetName(d, s, "active", n, FALSE)
           e == Named(d, s, n)
<1>1. d \in Tables
  BY DEF Sound
<1>2. /\ b \in Tables /\ SamePlaces(d, b) /\ b.own = d.own
      /\ b.sess[s].name = n /\ b.sess[s].nstate = "active"
      /\ \A t \in Session \ {s} : b.sess[t] = d.sess[t]
  <2>1. \A ttl \in BOOLEAN :
          LET f == SetName(d, s, "active", n, ttl)
          IN /\ f \in Tables /\ SamePlaces(d, f) /\ f.own = d.own
             /\ f.sess[s].name = n /\ f.sess[s].nstate = "active"
             /\ \A t \in Session \ {s} : f.sess[t] = d.sess[t]
    BY <1>1, NameIsSet
  <2> QED
    BY <2>1, Zenon
<1> USE <1>2
<1>3. e = setNameOwnershipActive(b, s, n)
  BY DEF Named
<1> HIDE DEF b, e
<1>4. /\ e \in Tables /\ SamePlaces(b, e) /\ e.sess = b.sess /\ SecretsKept(b, e)
      /\ e.own[s].state = "active" /\ e.own[s].name = n
      /\ \A t \in Session \ {s} : b.own[t].name # n => e.own[t] = b.own[t]
  BY <1>3, OwnershipIsAwarded
<1> USE <1>4
<1>5. SamePlaces(d, e) /\ SecretsKept(d, e)
  BY DEF SamePlaces, SecretsKept
<1>6. OwnershipMirrorsNames(e)
  <2>1. \A t \in Session \ {s} : e.own[t] = d.own[t] /\ e.sess[t] = d.sess[t]
    <3> TAKE t \in Session \ {s}
    <3>1. OwnershipMirrorsNames(d) /\ d.sess[t].name # n
      BY DEF Sound
    <3>2. d.own[t].name # n
      BY ONLY n \in Name, t \in Session \ {s}, <3>1, NullAssumption DEF OwnershipMirrorsNames
    <3> QED
      BY ONLY t \in Session \ {s}, <1>2, <1>4, <3>2
  <2>2. OwnershipMirrorsNames(d) /\ n # Null
    BY NullAssumption DEF Sound
  <2> QED
    BY ONLY s \in Session, <1>1, <1>2, <1>4, <2>1, <2>2, MirrorStays
<1>7. OneHolderPerName(e)
  BY DEF OneHolderPerName, Sound
<1>8. HoldersExist(e)
  BY <1>5 DEF HoldersExist, Sound, SamePlaces, Exists
<1> QED
  BY <1>1, <1>5, <1>6, <1>7, <1>8, PlacesStaySound DEF Sound, e

(* A session loses its name and the ownership with it (Unnamed).           *)
LEMMA UnnamedIsSound ==
  ASSUME NEW d, NEW s \in Session, NEW nstate \in {"unnamed", "pending"}, NEW ttl \in BOOLEAN,
         Sound(d)
  PROVE  LET e == Unnamed(d, s, nstate, ttl)
         IN /\ Sound(e) /\ SamePlaces(d, e) /\ SecretsKept(d, e)
            /\ \A t \in Session \ {s} : e.sess[t] = d.sess[t]
<1> DEFINE b == SetName(d, s, nstate, Null, ttl)
           e == Unnamed(d, s, nstate, ttl)
<1>1. d \in Tables
  BY DEF Sound
<1>2. /\ b \in Tables /\ SamePlaces(d, b) /\ b.own = d.own
      /\ b.sess[s].name = Null /\ b.sess[s].nstate = nstate
      /\ \A t \in Session \ {s} : b.sess[t] = d.sess[t]
  BY <1>1, NameIsSet
<1> USE <1>2
<1>3. e = setNameOwnershipReleased(b, s)
  BY DEF Unnamed
<1> HIDE DEF b, e
<1>4. /\ e \in Tables /\ SamePlaces(b, e) /\ e.sess = b.sess /\ SecretsKept(b, e)
      /\ \A t \in Session \ {s} : e.own[t] = b.own[t]
      /\ e.own[s].state # "active"
      /\ b.own[s].state # "none" => e.own[s].name = Null
      /\ b.own[s].state = "none" => e.own[s].name = b.own[s].name
  <2>1. b \in Tables
    BY ONLY <1>2
  <2> QED
    BY ONLY s \in Session, <1>3, <2>1, OwnershipIsReleased
<1> USE <1>4
<1>5. SamePlaces(d, e) /\ SecretsKept(d, e)
  BY DEF SamePlaces, SecretsKept
<1>6. e.own[s].name = Null
  BY DEF OwnershipMirrorsNames, Sound
<1>7. OwnershipMirrorsNames(e)
  <2>1. OwnershipMirrorsNames(d) /\ nstate # "active"
    BY DEF Sound
  <2> QED
    BY <1>6, <2>1, MirrorStays
<1>8. OneHolderPerName(e)
  BY DEF OneHolderPerName, Sound
<1>9. HoldersExist(e)
  BY <1>5 DEF HoldersExist, Sound, SamePlaces, Exists
<1> QED
  BY <1>1, <1>5, <1>7, <1>8, <1>9, PlacesStaySound DEF Sound, e

(* The name a registration asks for (claimNameForRegister): it is given    *)
(* only when no other session, dormant or not, has it.                     *)
LEMMA ClaimIsSound ==
  ASSUME NEW d, NEW s \in Session, NEW n \in Name \cup {BadName, Null}, Sound(d), Exists(d, s)
  PROVE  LET e == claimNameForRegister(d, s, n)
         IN /\ Sound(e) /\ SamePlaces(d, e) /\ SecretsKept(d, e)
            /\ \A t \in Session \ {s} : e.sess[t] = d.sess[t]
<1>1. CASE n = Null
  BY <1>1 DEF claimNameForRegister, SamePlaces, SecretsKept
<1>2. CASE n # Null /\ (n = BadName \/ Taken(d, s, n))
  <2>1. claimNameForRegister(d, s, n) = Unnamed(d, s, "pending", TRUE)
    BY <1>2, Zenon DEF claimNameForRegister, markPending
  <2>2. \A ttl \in BOOLEAN :
          LET f == Unnamed(d, s, "pending", ttl)
          IN /\ Sound(f) /\ SamePlaces(d, f) /\ SecretsKept(d, f)
             /\ \A t \in Session \ {s} : f.sess[t] = d.sess[t]
    BY UnnamedIsSound
  <2> QED
    BY <2>1, <2>2, Zenon
<1>3. CASE n # Null /\ n # BadName /\ ~Taken(d, s, n)
  <2>1. claimNameForRegister(d, s, n) = Named(d, s, n)
    BY <1>3 DEF claimNameForRegister
  <2>2. n \in Name /\ \A t \in Session \ {s} : d.sess[t].name # n
    BY <1>3 DEF Taken, Sound, OwnershipMirrorsNames
  <2> QED
    BY <2>1, <2>2, NamedIsSound
<1> QED
  BY <1>1, <1>2, <1>3

-----------------------------------------------------------------------------
(* Registration.                                                           *)

(* Sound tables, but for the edges that lead to t, which is about to       *)
(* register.                                                               *)
Ready(d, t) ==
  /\ d \in Tables
  /\ OwnershipMirrorsNames(d) /\ OneHolderPerName(d)
  /\ RowsAreOfSessions(d) /\ HoldersExist(d) /\ OneLiveOwner(d)
  /\ \A p \in Session : d.phys[p] \notin {Null, t} => Exists(d, d.phys[p]) /\ ~d.sess[d.phys[p]].expired

(* What the three branches of register have in common: t is awake, its     *)
(* components of an older epoch are gone, and no other session is touched. *)
Entered(d, e, t) ==
  /\ Sound(e) /\ Exists(e, t)
  /\ e.phys = d.phys /\ e.clock = d.clock /\ SecretsKept(d, e)
  /\ \A u \in Session \ {t} : e.sess[u] = d.sess[u] /\ LiveMcp(e, u) = LiveMcp(d, u)
  /\ d.sess[t].expired => e.sess[t].epoch > d.sess[t].epoch

(* The alias table takes no part in what is sound (upsertAutomaticAlias).  *)
LEMMA AliasIsSet ==
  ASSUME NEW d \in Tables, NEW s \in Session
  PROVE  LET e == upsertAutomaticAlias(d, s)
         IN /\ e \in Tables
            /\ e.sess = d.sess /\ e.own = d.own /\ e.phys = d.phys /\ e.live = d.live
            /\ e.clock = d.clock /\ e.minted = d.minted
BY AliasAssumption DEF upsertAutomaticAlias, Tables

LEMMA AliasKeepsSound ==
  ASSUME NEW d, NEW s \in Session, Sound(d)
  PROVE  LET e == upsertAutomaticAlias(d, s)
         IN /\ Sound(e)
            /\ e.sess = d.sess /\ e.own = d.own /\ e.phys = d.phys /\ e.live = d.live /\ e.clock = d.clock
<1> DEFINE e == upsertAutomaticAlias(d, s)
<1>1. /\ e \in Tables
      /\ e.sess = d.sess /\ e.own = d.own /\ e.phys = d.phys /\ e.live = d.live /\ e.clock = d.clock
  BY AliasIsSet DEF Sound
<1> HIDE DEF e
<1>2. /\ OwnershipMirrorsNames(e) /\ OneHolderPerName(e) /\ EdgesLeadToAwakeSessions(e)
      /\ RowsAreOfSessions(e) /\ HoldersExist(e) /\ OneLiveOwner(e)
  BY <1>1 DEF Sound, OwnershipMirrorsNames, OneHolderPerName, EdgesLeadToAwakeSessions,
              RowsAreOfSessions, HoldersExist, OneLiveOwner, LiveMcp, Exists
<1> QED
  BY <1>1, <1>2 DEF Sound, e

(* The first registration of a session, which has no components yet.       *)
LEMMA FirstIsSound ==
  ASSUME NEW d, NEW t \in Session, NEW c \in Conn, Ready(d, t), ~Exists(d, t)
  PROVE  LET e == RegisterFirst(d, t, c) IN Entered(d, e, t) /\ LiveMcp(e, t) = {}
<1> DEFINE q == [NoRow EXCEPT !.epoch = 1, !.state = "connected", !.bound = c]
           b == [d EXCEPT !.sess = [d.sess EXCEPT ![t] = q]]
           e == RegisterFirst(d, t, c)
<1>1. e = upsertAutomaticAlias(b, t)
  BY DEF RegisterFirst
<1>2. q \in Row /\ q.epoch = 1 /\ ~q.expired /\ q.name = Null /\ q.nstate = "unnamed"
  <2>1. NoRow \in Row
    BY ONLY EmptyRows
  <2>2. c \in Nat /\ 1 \in Nat
    BY DEF Conn
  <2>3. q \in Row
    BY <2>1, <2>2, Zenon DEF Row
  <2>4. ~NoRow.expired /\ NoRow.name = Null /\ NoRow.nstate = "unnamed"
    BY DEF NoRow
  <2> QED
    BY <2>1, <2>3, <2>4 DEF Row
<1> USE <1>2
<1> HIDE DEF q
<1>3. d \in Tables
  BY DEF Ready
<1> USE <1>3
<1>4. /\ b \in Tables
      /\ b.sess = [d.sess EXCEPT ![t] = q] /\ b.own = d.own /\ b.phys = d.phys
      /\ b.live = d.live /\ b.clock = d.clock
  BY DEF Tables
<1> USE <1>4
<1>5. \A u \in Session : b.sess[u] = IF u = t THEN q ELSE d.sess[u]
  BY DEF Tables
<1> USE <1>5
<1> HIDE DEF b
<1>6. \A r \in d.live : r.session # t
  BY DEF Ready, RowsAreOfSessions
<1>7. \A u \in Session \ {t} : LiveMcp(b, u) = LiveMcp(d, u)
  BY Zenon DEF LiveMcp
<1>8. LiveMcp(b, t) = {}
  BY <1>6 DEF LiveMcp
<1>9. OneLiveOwner(b)
  BY <1>7, <1>8 DEF OneLiveOwner, Ready
<1>10. RowsAreOfSessions(b)
  BY <1>6 DEF RowsAreOfSessions, Ready, Exists, Tables, Component
<1>11. OwnershipMirrorsNames(b) /\ OneHolderPerName(b) /\ HoldersExist(b)
  BY DEF OwnershipMirrorsNames, OneHolderPerName, HoldersExist, Ready, Exists
<1>12. EdgesLeadToAwakeSessions(b)
  BY DEF EdgesLeadToAwakeSessions, Ready, Exists, Tables
<1>13. Sound(b)
  BY <1>9, <1>10, <1>11, <1>12 DEF Sound
<1>14. /\ Sound(e) /\ e.sess = b.sess /\ e.own = b.own /\ e.phys = b.phys /\ e.live = b.live /\ e.clock = b.clock
  BY <1>1, <1>13, AliasKeepsSound
<1> HIDE DEF e
<1>15. LiveMcp(e, t) = {} /\ \A u \in Session \ {t} : LiveMcp(e, u) = LiveMcp(d, u)
  BY <1>7, <1>8, <1>14 DEF LiveMcp
<1>16. ~d.sess[t].expired
  BY DEF Ready, HoldersExist
<1> QED
  BY <1>14, <1>15, <1>16 DEF Entered, SecretsKept, Exists, e

(* A new epoch closes the components of the old one (NewEpoch).            *)
LEMMA NewEpochIsSound ==
  ASSUME NEW d, NEW t \in Session, Ready(d, t), Exists(d, t)
  PROVE  LET e == NewEpoch(d, t)
         IN /\ Sound(e) /\ e.own = d.own /\ e.phys = d.phys /\ e.clock = d.clock
            /\ e.sess[t].epoch = d.sess[t].epoch + 1
            /\ LiveMcp(e, t) = {}
            /\ \A u \in Session \ {t} : e.sess[u] = d.sess[u] /\ LiveMcp(e, u) = LiveMcp(d, u)
<1> DEFINE q == [d.sess[t] EXCEPT !.epoch = d.sess[t].epoch + 1, !.state = "connected", !.expired = FALSE]
           L == {r \in d.live : r.session # t}
           e == NewEpoch(d, t)
<1>1. d \in Tables /\ d.sess[t] \in Row
  BY DEF Ready, Tables
<1> USE <1>1
<1>2. /\ q \in Row /\ q.epoch = d.sess[t].epoch + 1 /\ ~q.expired
      /\ q.name = d.sess[t].name /\ q.nstate = d.sess[t].nstate
  <2>1. d.sess[t].epoch + 1 \in Nat
    BY DEF Row
  <2>2. q \in Row
    BY <2>1, Zenon DEF Row
  <2> QED
    BY <2>2 DEF Row
<1> USE <1>2
<1>3. e = [d EXCEPT !.sess = [d.sess EXCEPT ![t] = q], !.live = L]
  BY DEF NewEpoch
<1> HIDE DEF q
<1>4. L \in SUBSET Component
  BY DEF Tables
<1>5. /\ e \in Tables
      /\ e.sess = [d.sess EXCEPT ![t] = q] /\ e.own = d.own /\ e.phys = d.phys
      /\ e.live = L /\ e.clock = d.clock
  <2>1. [d.sess EXCEPT ![t] = q] \in [Session -> Row]
    BY DEF Tables
  <2> HIDE DEF L
  <2> QED
    BY <1>3, <1>4, <2>1, Zenon DEF Tables
<1> USE <1>5
<1>6. \A u \in Session : e.sess[u] = IF u = t THEN q ELSE d.sess[u]
  BY DEF Tables
<1> USE <1>6
<1> HIDE DEF e
<1>7. \A u \in Session \ {t} : e.sess[u] = d.sess[u] /\ LiveMcp(e, u) = LiveMcp(d, u)
  BY Zenon DEF LiveMcp
<1>8. LiveMcp(e, t) = {}
  BY DEF LiveMcp
<1>9. OneLiveOwner(e)
  BY <1>7, <1>8 DEF OneLiveOwner, Ready
<1>10. RowsAreOfSessions(e)
  BY DEF RowsAreOfSessions, Ready, Exists, Tables, Component
<1>11. OwnershipMirrorsNames(e) /\ OneHolderPerName(e)
  BY DEF OwnershipMirrorsNames, OneHolderPerName, Ready
<1>12. Exists(e, t)
  BY DEF Exists, Row
<1>13. HoldersExist(e)
  BY <1>12 DEF HoldersExist, Ready, Exists
<1>14. EdgesLeadToAwakeSessions(e)
  BY <1>12 DEF EdgesLeadToAwakeSessions, Ready, Exists, Tables
<1> QED
  BY <1>7, <1>8, <1>9, <1>10, <1>11, <1>13, <1>14 DEF Sound, e

(* A takeover, a reclaim and the return of a dormant session               *)
(* (RegisterFresh).                                                        *)
LEMMA FreshIsSound ==
  ASSUME NEW d, NEW t \in Session, Ready(d, t), Exists(d, t)
  PROVE  LET e == RegisterFresh(d, t) IN Entered(d, e, t) /\ LiveMcp(e, t) = {}
<1> DEFINE b == NewEpoch(d, t)
           f == Unnamed(b, t, "unnamed", FALSE)
           e == RegisterFresh(d, t)
<1>1. /\ Sound(b) /\ b.own = d.own /\ b.phys = d.phys /\ b.clock = d.clock
      /\ b.sess[t].epoch = d.sess[t].epoch + 1
      /\ LiveMcp(b, t) = {}
      /\ \A u \in Session \ {t} : b.sess[u] = d.sess[u] /\ LiveMcp(b, u) = LiveMcp(d, u)
  BY NewEpochIsSound
<1> USE <1>1
<1> HIDE DEF b
<1>2. /\ Sound(f) /\ SamePlaces(b, f) /\ SecretsKept(b, f)
      /\ \A u \in Session \ {t} : f.sess[u] = b.sess[u]
  <2>1. \A ttl \in BOOLEAN :
          LET g == Unnamed(b, t, "unnamed", ttl)
          IN /\ Sound(g) /\ SamePlaces(b, g) /\ SecretsKept(b, g)
             /\ \A u \in Session \ {t} : g.sess[u] = b.sess[u]
    BY UnnamedIsSound
  <2> QED
    BY <2>1, Zenon
<1> USE <1>2
<1>3. e = IF d.sess[t].expired THEN upsertAutomaticAlias(f, t) ELSE f
  BY DEF RegisterFresh, b
<1> HIDE DEF f
<1>4. /\ Sound(e) /\ e.sess = f.sess /\ e.own = f.own /\ e.phys = f.phys /\ e.live = f.live /\ e.clock = f.clock
  BY <1>3, AliasKeepsSound
<1> USE <1>4
<1> HIDE DEF e
<1>5. d.sess[t].epoch \in Nat
  BY DEF Ready, Tables, Row
<1>6. \A u \in Session : LiveMcp(e, u) = LiveMcp(b, u)
  <2>1. e.sess = f.sess /\ e.live = f.live /\ SamePlaces(b, f)
    OBVIOUS
  <2> QED
    BY ONLY <2>1 DEF LiveMcp, SamePlaces
<1>7. SecretsKept(d, e)
  <2>1. e.own = f.own /\ d.own = b.own /\ SecretsKept(b, f)
    OBVIOUS
  <2> QED
    BY ONLY <2>1 DEF SecretsKept
<1>8. e.sess[t].epoch = d.sess[t].epoch + 1 /\ e.phys = d.phys /\ e.clock = d.clock
  BY ONLY t \in Session, <1>1, <1>2, <1>4 DEF SamePlaces
<1> QED
  BY <1>5, <1>6, <1>7, <1>8 DEF Entered, Exists, e

(* A component joins the epoch of a session that is awake (RegisterJoin).  *)
LEMMA JoinIsSound ==
  ASSUME NEW d, NEW t \in Session, NEW c \in Conn, Ready(d, t), Exists(d, t), ~d.sess[t].expired
  PROVE  LET e == RegisterJoin(d, t, c)
         IN Entered(d, e, t) /\ LiveMcp(e, t) = LiveMcp(d, t) /\ e.sess[t].epoch = d.sess[t].epoch
<1> DEFINE q == [d.sess[t] EXCEPT !.state = "connected", !.bound = IF d.sess[t].bound = 0 THEN c ELSE d.sess[t].bound]
           e == RegisterJoin(d, t, c)
<1>1. d \in Tables /\ d.sess[t] \in Row
  BY DEF Ready, Tables
<1> USE <1>1
<1>2. /\ q \in Row /\ q.epoch = d.sess[t].epoch /\ q.expired = d.sess[t].expired
      /\ q.name = d.sess[t].name /\ q.nstate = d.sess[t].nstate
  <2>1. (IF d.sess[t].bound = 0 THEN c ELSE d.sess[t].bound) \in Nat
    BY DEF Row, Conn
  <2>2. q \in Row
    BY <2>1, Zenon DEF Row
  <2> QED
    BY <2>2 DEF Row
<1> USE <1>2
<1>3. e = [d EXCEPT !.sess = [d.sess EXCEPT ![t] = q]]
  BY DEF RegisterJoin
<1> HIDE DEF q
<1>4. /\ e \in Tables
      /\ e.sess = [d.sess EXCEPT ![t] = q] /\ e.own = d.own /\ e.phys = d.phys
      /\ e.live = d.live /\ e.clock = d.clock
  BY <1>3 DEF Tables
<1> USE <1>4
<1>5. \A u \in Session : e.sess[u] = IF u = t THEN q ELSE d.sess[u]
  BY DEF Tables
<1> USE <1>5
<1> HIDE DEF e
<1>6. \A u \in Session : LiveMcp(e, u) = LiveMcp(d, u)
  <2> TAKE u \in Session
  <2>1. e.live = d.live /\ e.sess[u].epoch = d.sess[u].epoch
    BY ONLY u \in Session, <1>2, <1>4, <1>5
  <2> QED
    BY ONLY <2>1 DEF LiveMcp
<1>7. OneLiveOwner(e)
  BY <1>6 DEF OneLiveOwner, Ready
<1>8. RowsAreOfSessions(e) /\ HoldersExist(e)
  BY DEF RowsAreOfSessions, HoldersExist, Ready, Exists, Tables, Component
<1>9. OwnershipMirrorsNames(e) /\ OneHolderPerName(e)
  BY DEF OwnershipMirrorsNames, OneHolderPerName, Ready
<1>10. EdgesLeadToAwakeSessions(e)
  BY DEF EdgesLeadToAwakeSessions, Ready, Exists, Tables
<1> QED
  BY <1>6, <1>7, <1>8, <1>9, <1>10 DEF Sound, Entered, SecretsKept, Exists, e

(* The row of the component (Joined): it is the newest, and the guard of   *)
(* an mcp component leaves no row of another connection.                   *)
LEMMA JoinedIsSound ==
  ASSUME NEW d, NEW t \in Session, NEW c \in Conn, NEW role \in Roles, client[c] \in Pid,
         Sound(d), Exists(d, t),
         role = "mcp" => \A r \in LiveMcp(d, t) : r.conn = c
  PROVE  LET e == Joined(d, t, c, role)
         IN /\ Sound(e) /\ e.sess = d.sess /\ e.own = d.own /\ e.phys = d.phys
            /\ \A u \in Session \ {t} : LiveMcp(e, u) = LiveMcp(d, u)
            /\ role # "mcp" => LiveMcp(e, t) = LiveMcp(d, t)
            /\ role = "mcp" => \E m \in LiveMcp(e, t) :
                 m.pid = client[c] /\ \A q \in LiveMcp(e, t) \ {m} : q.at < m.at
            /\ role = "mcp" => \A q \in LiveMcp(e, t) : q.conn = c
<1> DEFINE m == [conn |-> c, pid |-> client[c], session |-> t, epoch |-> d.sess[t].epoch,
                 role |-> role, at |-> d.clock + 1]
           e == Joined(d, t, c, role)
<1>1. d \in Tables /\ d.sess[t] \in Row /\ d.clock \in Nat
  BY DEF Sound, Tables
<1> USE <1>1
<1>2. /\ m \in Component /\ m.conn = c /\ m.pid = client[c] /\ m.session = t
      /\ m.epoch = d.sess[t].epoch /\ m.role = role /\ m.at = d.clock + 1
  BY DEF Component, Row
<1> USE <1>2
<1>3. e = [d EXCEPT !.clock = d.clock + 1, !.live = d.live \cup {m}]
  BY DEF Joined
<1> HIDE DEF m
<1>4. /\ e \in Tables
      /\ e.sess = d.sess /\ e.own = d.own /\ e.phys = d.phys
      /\ e.live = d.live \cup {m} /\ e.clock = d.clock + 1
  <2>1. d.live \cup {m} \in SUBSET Component /\ d.clock + 1 \in Nat
    BY DEF Tables
  <2> QED
    BY <1>3, <2>1, Zenon DEF Tables
<1> USE <1>4
<1> HIDE DEF e
<1>5. /\ \A u \in Session \ {t} : LiveMcp(e, u) = LiveMcp(d, u)
      /\ role # "mcp" => LiveMcp(e, t) = LiveMcp(d, t)
      /\ role = "mcp" => LiveMcp(e, t) = LiveMcp(d, t) \cup {m}
  BY DEF LiveMcp
<1>6. \A r \in d.live : r.at \in Nat /\ r.session \in Session /\ r.at <= d.clock
  BY DEF Tables, Component, Sound, RowsAreOfSessions
<1>7. OneLiveOwner(e)
  BY <1>5 DEF OneLiveOwner, Sound
<1>8. RowsAreOfSessions(e)
  BY <1>6 DEF RowsAreOfSessions, Exists, Sound
<1>9. HoldersExist(e) /\ OwnershipMirrorsNames(e) /\ OneHolderPerName(e) /\ EdgesLeadToAwakeSessions(e)
  BY DEF HoldersExist, OwnershipMirrorsNames, OneHolderPerName, EdgesLeadToAwakeSessions, Sound, Exists
<1>10. Sound(e)
  BY <1>7, <1>8, <1>9 DEF Sound
<1>11. role = "mcp" => m \in LiveMcp(e, t) /\ \A q \in LiveMcp(e, t) \ {m} : q.at < m.at
  BY <1>5, <1>6 DEF LiveMcp
<1> QED
  BY <1>5, <1>10, <1>11 DEF e

-----------------------------------------------------------------------------
(* What the other operations are made of.                                  *)

-----------------------------------------------------------------------------
(* The operations a step of Identity is made of, each a chain of the above: *)
(* a registration, a rename, a removal, the two sweeps of the reaper and a  *)
(* disconnection.                                                           *)

(* What a registration of t over the connection c makes of the tables.     *)
Arrived(d, e, t, c, role) ==
  /\ Sound(e) /\ Exists(e, t) /\ SecretsKept(d, e)
  /\ \A u \in Session \ {t} : e.sess[u] = d.sess[u] /\ LiveMcp(e, u) = LiveMcp(d, u)
  /\ d.sess[t].expired => e.sess[t].epoch > d.sess[t].epoch
  /\ \A p \in Session : e.phys[p] # d.phys[p] => e.phys[p] = t /\ ~hasProvenLiveMcp(d, t)
  /\ role # "mcp" => \/ LiveMcp(e, t) = {}
                     \/ LiveMcp(e, t) = LiveMcp(d, t) /\ e.sess[t].epoch = d.sess[t].epoch
  /\ role = "mcp" => /\ \A q \in LiveMcp(e, t) : q.conn = c
                     /\ \E m \in LiveMcp(e, t) :
                          m.pid = client[c] /\ \A q \in LiveMcp(e, t) \ {m} : q.at < m.at

(* A registration that is not refused (Registered): redirect, reclaim, one *)
(* of the three branches, the component row, the name.                     *)
LEMMA RegisteredIsSound ==
  ASSUME NEW d, NEW c \in Conn, NEW s \in Session, NEW role \in Roles,
         NEW n \in Name \cup {BadName, Null}, NEW secret, NEW supersede,
         Sound(d), client[c] \in Pid,
         Registered(d, c, s, role, n, secret, supersede).ok
  PROVE  LET r == Registered(d, c, s, role, n, secret, supersede)
         IN r.as \in Session /\ Arrived(d, r.db, r.as, c, role)
<1> DEFINE d0 == Purged(d, s)
<1>1. d0 = d
  <2>1. EdgesLeadToAwakeSessions(d)
    BY DEF Sound
  <2> QED
    BY ONLY s \in Session, <2>1 DEF Purged, EdgesLeadToAwakeSessions
<1> DEFINE reclaim == IF role = "mcp" THEN resolveReclaim(d0, n, secret, s) ELSE {}
           t       == IF reclaim # {} THEN CHOOSE u \in reclaim : TRUE ELSE Redirect(d0, s)
           d1      == IF reclaim # {} THEN [d0 EXCEPT !.phys[s] = t] ELSE d0
           first   == ~Exists(d1, t)
           fresh   == ~first /\ (supersede \/ reclaim # {} \/ d1.sess[t].expired)
           d2      == IF first THEN RegisterFirst(d1, t, c)
                      ELSE IF fresh THEN RegisterFresh(d1, t) ELSE RegisterJoin(d1, t, c)
           d3      == Joined(d2, t, c, role)
           claims  == first \/ fresh \/ d3.sess[t].nstate = "unnamed"
           e       == IF claims THEN claimNameForRegister(d3, t, n) ELSE d3
           r       == Registered(d, c, s, role, n, secret, supersede)
<1>2. r = [ok |-> first \/ fresh \/ role # "mcp" \/ ~OtherOwner(d1, t, c), fresh |-> fresh, as |-> t, db |-> e]
  BY Zenon DEF Registered
<1> HIDE DEF r, e, first, fresh, t, d1
<1>3. r.as = t /\ r.db = e /\ (first \/ fresh \/ role # "mcp" \/ ~OtherOwner(d1, t, c))
  <2>1. r.as = t /\ r.db = e
    BY ONLY <1>2, Zenon
  <2>2. r.ok = (first \/ fresh \/ role # "mcp" \/ ~OtherOwner(d1, t, c))
    BY ONLY <1>2, Zenon
  <2>3. r.ok
    BY DEF r
  <2> QED
    BY ONLY <2>1, <2>2, <2>3, Zenon
<1> USE DEF e, first, fresh, t, d1
<1> HIDE DEF d0
<1>4. /\ d \in Tables /\ OwnershipMirrorsNames(d) /\ OneHolderPerName(d)
      /\ RowsAreOfSessions(d) /\ HoldersExist(d) /\ EdgesLeadToAwakeSessions(d) /\ OneLiveOwner(d)
  BY DEF Sound
<1>5. t \in Session /\ (reclaim # {} => ~hasProvenLiveMcp(d, t))
  <2>1. CASE reclaim # {}
    <3>1. t \in reclaim /\ role = "mcp"
      BY ONLY <2>1
    <3> QED
      BY ONLY <1>1, <3>1 DEF resolveReclaim, OwnerOf
  <2>2. CASE reclaim = {}
    BY ONLY s \in Session, <1>1, <1>4, <2>2 DEF Redirect, Tables
  <2> QED
    BY <2>1, <2>2
<1> HIDE DEF t, reclaim
<1>6. /\ d1 \in Tables /\ d1.sess = d.sess /\ d1.own = d.own /\ d1.live = d.live /\ d1.clock = d.clock
      /\ \A p \in Session : d1.phys[p] # d.phys[p] => d1.phys[p] = t /\ ~hasProvenLiveMcp(d, t)
  <2>1. CASE reclaim # {}
    <3>1. d1 = [d EXCEPT !.phys = [d.phys EXCEPT ![s] = t]]
      BY ONLY <1>1, <2>1
    <3>2. [d.phys EXCEPT ![s] = t] \in [Session -> Session \cup {Null}]
      BY ONLY s \in Session, <1>4, <1>5 DEF Tables
    <3>3. d1 \in Tables /\ d1.sess = d.sess /\ d1.own = d.own /\ d1.live = d.live /\ d1.clock = d.clock
          /\ d1.phys = [d.phys EXCEPT ![s] = t]
      BY ONLY <1>4, <3>1, <3>2 DEF Tables
    <3>4. \A p \in Session : d1.phys[p] = IF p = s THEN t ELSE d.phys[p]
      BY ONLY <1>4, <3>3 DEF Tables
    <3> QED
      BY ONLY <1>5, <2>1, <3>3, <3>4
  <2>2. CASE reclaim = {}
    BY ONLY <1>1, <1>4, <2>2
  <2> QED
    BY <2>1, <2>2
<1> HIDE DEF d1
<1>7. \A u \in Session : LiveMcp(d1, u) = LiveMcp(d, u)
  BY ONLY <1>6 DEF LiveMcp
<1>8. Ready(d1, t)
  <2>1. OwnershipMirrorsNames(d1) /\ OneHolderPerName(d1) /\ RowsAreOfSessions(d1) /\ HoldersExist(d1)
    BY ONLY <1>4, <1>6 DEF OwnershipMirrorsNames, OneHolderPerName, RowsAreOfSessions, HoldersExist, Exists
  <2>2. OneLiveOwner(d1)
    BY ONLY <1>4, <1>7 DEF OneLiveOwner
  <2>3. \A p \in Session : d1.phys[p] \notin {Null, t} =>
          Exists(d1, d1.phys[p]) /\ ~d1.sess[d1.phys[p]].expired
    BY ONLY <1>4, <1>6 DEF EdgesLeadToAwakeSessions, Exists
  <2> QED
    BY ONLY <1>6, <2>1, <2>2, <2>3 DEF Ready
<1>9. /\ Entered(d1, d2, t)
      /\ \/ LiveMcp(d2, t) = {}
         \/ /\ LiveMcp(d2, t) = LiveMcp(d1, t) /\ d2.sess[t].epoch = d1.sess[t].epoch
            /\ role = "mcp" => ~OtherOwner(d1, t, c)
  <2>1. CASE first
    BY ONLY c \in Conn, <1>5, <1>8, <2>1, FirstIsSound
  <2>2. CASE fresh
    <3>1. d2 = RegisterFresh(d1, t) /\ Exists(d1, t)
      BY ONLY <2>2
    <3> HIDE DEF d2
    <3> QED
      BY ONLY <1>5, <1>8, <3>1, FreshIsSound
  <2>3. CASE ~first /\ ~fresh
    BY ONLY c \in Conn, <1>3, <1>5, <1>8, <2>3, JoinIsSound
  <2> QED
    BY <2>1, <2>2, <2>3
<1> HIDE DEF d2, first, fresh
<1>10. role = "mcp" => \A q \in LiveMcp(d2, t) : q.conn = c
  BY ONLY <1>9 DEF OtherOwner
<1>11. /\ Sound(d3) /\ d3.sess = d2.sess /\ d3.own = d2.own /\ d3.phys = d2.phys
       /\ \A u \in Session \ {t} : LiveMcp(d3, u) = LiveMcp(d2, u)
       /\ role # "mcp" => LiveMcp(d3, t) = LiveMcp(d2, t)
       /\ role = "mcp" => \E m \in LiveMcp(d3, t) :
            m.pid = client[c] /\ \A q \in LiveMcp(d3, t) \ {m} : q.at < m.at
       /\ role = "mcp" => \A q \in LiveMcp(d3, t) : q.conn = c
  <2>1. Sound(d2) /\ Exists(d2, t)
    BY ONLY <1>9 DEF Entered
  <2>2. t \in Session /\ d3 = Joined(d2, t, c, role)
    BY ONLY <1>5
  <2> HIDE DEF d3
  <2> QED
    BY ONLY c \in Conn, role \in Roles, client[c] \in Pid, <1>10, <2>1, <2>2, JoinedIsSound
<1> HIDE DEF d3
<1>12. /\ Sound(e) /\ SamePlaces(d3, e) /\ SecretsKept(d3, e)
       /\ \A u \in Session \ {t} : e.sess[u] = d3.sess[u]
  <2>1. Exists(d3, t)
    BY ONLY <1>9, <1>11 DEF Entered, Exists
  <2>2. CASE claims
    BY ONLY n \in Name \cup {BadName, Null}, <1>5, <1>11, <2>1, <2>2, ClaimIsSound
  <2>3. CASE ~claims
    BY ONLY <1>11, <2>3 DEF SamePlaces, SecretsKept
  <2> QED
    BY <2>2, <2>3
<1> HIDE DEF e
<1>13. \A u \in Session : LiveMcp(e, u) = LiveMcp(d3, u)
  BY ONLY <1>12, Zenon DEF LiveMcp, SamePlaces
<1>14. /\ Exists(e, t) /\ SecretsKept(d, e)
       /\ \A u \in Session \ {t} : e.sess[u] = d.sess[u] /\ LiveMcp(e, u) = LiveMcp(d, u)
       /\ d.sess[t].expired => e.sess[t].epoch > d.sess[t].epoch
       /\ e.phys = d1.phys
  <2>1. /\ Exists(d2, t) /\ SecretsKept(d1, d2) /\ d2.phys = d1.phys
        /\ \A u \in Session \ {t} : d2.sess[u] = d1.sess[u] /\ LiveMcp(d2, u) = LiveMcp(d1, u)
        /\ d1.sess[t].expired => d2.sess[t].epoch > d1.sess[t].epoch
    BY ONLY <1>9 DEF Entered
  <2>2. e.phys = d1.phys /\ e.sess[t].epoch = d2.sess[t].epoch
    BY ONLY <1>5, <1>11, <1>12, <2>1 DEF SamePlaces
  <2>3. SecretsKept(d, e)
    BY ONLY <1>6, <1>11, <1>12, <2>1 DEF SecretsKept
  <2>4. \A u \in Session \ {t} : e.sess[u] = d.sess[u] /\ LiveMcp(e, u) = LiveMcp(d, u)
    <3> TAKE u \in Session \ {t}
    <3>1. e.sess[u] = d.sess[u]
      BY ONLY u \in Session \ {t}, <1>6, <1>11, <1>12, <2>1
    <3>2. LiveMcp(e, u) = LiveMcp(d, u)
      BY ONLY u \in Session \ {t}, <1>7, <1>11, <1>13, <2>1
    <3> QED
      BY <3>1, <3>2
  <2> QED
    BY ONLY <1>5, <1>6, <2>1, <2>2, <2>3, <2>4 DEF Exists
<1>15. role # "mcp" => \/ LiveMcp(e, t) = {}
                       \/ LiveMcp(e, t) = LiveMcp(d, t) /\ e.sess[t].epoch = d.sess[t].epoch
  <2>1. LiveMcp(e, t) = LiveMcp(d3, t) /\ LiveMcp(d1, t) = LiveMcp(d, t)
    BY ONLY <1>5, <1>7, <1>13
  <2>2. e.sess[t].epoch = d2.sess[t].epoch /\ d1.sess[t].epoch = d.sess[t].epoch
    BY ONLY <1>5, <1>6, <1>11, <1>12 DEF SamePlaces
  <2> QED
    BY ONLY <1>9, <1>11, <2>1, <2>2
<1>16. Arrived(d, e, t, c, role)
  <2>1. \A p \in Session : e.phys[p] # d.phys[p] => e.phys[p] = t /\ ~hasProvenLiveMcp(d, t)
    BY ONLY <1>6, <1>14
  <2>2. LiveMcp(e, t) = LiveMcp(d3, t)
    BY ONLY <1>5, <1>13
  <2>3. role = "mcp" => /\ \A q \in LiveMcp(e, t) : q.conn = c
                        /\ \E m \in LiveMcp(e, t) :
                             m.pid = client[c] /\ \A q \in LiveMcp(e, t) \ {m} : q.at < m.at
    BY ONLY <1>11, <2>2
  <2> QED
    BY ONLY <1>12, <1>14, <1>15, <2>1, <2>3 DEF Arrived
<1> QED
  BY ONLY <1>3, <1>5, <1>16 DEF r

(* The holder of a taken name loses it (Dispossessed).  By the mirror it   *)
(* is the only one, so nobody has the name afterwards.                     *)
LEMMA DispossessedIsSound ==
  ASSUME NEW d, NEW s \in Session, NEW n \in Name, NEW t \in OwnerOf(d, n),
         Sound(d), Taken(d, s, n)
  PROVE  LET e == Dispossessed(d, s, t, n)
         IN /\ Sound(e) /\ SamePlaces(d, e) /\ SecretsKept(d, e) /\ t # s
            /\ \A u \in Session : e.sess[u].name # n
            /\ \A u \in Session \ {t} : e.sess[u] = d.sess[u]
<1> DEFINE b == releaseOthers(d, s, n)
           q == [b.sess[t] EXCEPT !.name = Null, !.nstate = "unnamed"]
           e == Dispossessed(d, s, t, n)
<1>1. /\ d \in Tables /\ OwnershipMirrorsNames(d) /\ OneHolderPerName(d)
      /\ RowsAreOfSessions(d) /\ HoldersExist(d) /\ EdgesLeadToAwakeSessions(d) /\ OneLiveOwner(d)
  BY DEF Sound
<1>2. t \in Session /\ d.own[t].name = n /\ d.sess[t].name = n
  BY ONLY <1>1, t \in OwnerOf(d, n) DEF OwnerOf, OwnershipMirrorsNames
<1>3. t # s /\ \A u \in Session \ {t} : d.sess[u].name # n /\ d.own[u].name # n
  BY ONLY n \in Name, Taken(d, s, n), <1>1, <1>2, NullAssumption DEF OneHolderPerName, OwnershipMirrorsNames, Taken
<1>4. /\ b \in Tables /\ SamePlaces(d, b) /\ b.sess = d.sess /\ SecretsKept(d, b)
      /\ \A u \in Session : u = s \/ d.own[u].name # n => b.own[u] = d.own[u]
      /\ \A u \in Session \ {s} : d.own[u].name = n => b.own[u].state = "released" /\ b.own[u].name = Null
  BY ONLY s \in Session, n \in Name, <1>1, OthersAreReleased
<1>5. e = [b EXCEPT !.sess = [b.sess EXCEPT ![t] = q]]
  BY DEF Dispossessed
<1> HIDE DEF b
<1>6. b.sess[t] \in Row
  BY ONLY <1>2, <1>4 DEF Tables
<1>7. q \in Row
  BY ONLY <1>6, Zenon DEF Row
<1>8. /\ q.name = Null /\ q.nstate = "unnamed"
      /\ q.epoch = d.sess[t].epoch /\ q.expired = d.sess[t].expired
  BY ONLY <1>4, <1>6 DEF Row
<1> HIDE DEF q
<1>9. /\ e \in Tables
      /\ e.sess = [b.sess EXCEPT ![t] = q] /\ e.own = b.own /\ e.phys = b.phys
      /\ e.live = b.live /\ e.clock = b.clock
  <2>1. b \in Tables
    BY ONLY <1>4
  <2>2. [b.sess EXCEPT ![t] = q] \in [Session -> Row]
    BY ONLY <1>2, <1>7, <2>1 DEF Tables
  <2> QED
    BY ONLY <1>5, <2>1, <2>2 DEF Tables
<1> HIDE DEF e
<1>10. \A u \in Session : e.sess[u] = IF u = t THEN q ELSE d.sess[u]
  <2>1. b.sess \in [Session -> Row]
    BY ONLY <1>4 DEF Tables
  <2> QED
    BY ONLY <2>1, <1>4, <1>9, Zenon
<1>11. SamePlaces(d, e) /\ SecretsKept(d, e)
  BY ONLY <1>4, <1>8, <1>9, <1>10 DEF SamePlaces, SecretsKept
<1>12. /\ \A u \in Session \ {t} : e.own[u] = d.own[u] /\ e.sess[u] = d.sess[u]
       /\ e.own[t].state = "released" /\ e.own[t].name = Null
  BY ONLY <1>2, <1>3, <1>4, <1>9, <1>10
<1>13. e.sess[t].name = Null /\ e.sess[t].nstate = "unnamed"
  BY ONLY <1>2, <1>8, <1>10
<1>14. OwnershipMirrorsNames(e)
  BY ONLY <1>1, <1>2, <1>12, <1>13, MirrorStays
<1>15. OneHolderPerName(e)
  BY ONLY <1>1, <1>12, <1>13 DEF OneHolderPerName
<1>16. HoldersExist(e)
  BY ONLY <1>1, <1>8, <1>10, <1>11 DEF HoldersExist, SamePlaces, Exists
<1>17. Sound(e)
  BY ONLY Sound(d), <1>9, <1>11, <1>14, <1>15, <1>16, PlacesStaySound DEF Sound
<1>18. \A u \in Session : e.sess[u].name # n
  BY ONLY n \in Name, <1>3, <1>12, <1>13, NullAssumption, Zenon
<1> QED
  BY ONLY <1>3, <1>11, <1>12, <1>17, <1>18 DEF e

(* A dormant session that renames itself is awake again (Awake).           *)
LEMMA AwakeIsSound ==
  ASSUME NEW d, NEW s \in Session, Sound(d), Exists(d, s)
  PROVE  LET e == Awake(d, s)
         IN /\ Sound(e) /\ Exists(e, s)
            /\ e.own = d.own /\ e.phys = d.phys /\ e.live = d.live /\ e.clock = d.clock
            /\ \A t \in Session : e.sess[t].epoch = d.sess[t].epoch /\ e.sess[t].name = d.sess[t].name
            /\ \A t \in Session \ {s} : e.sess[t] = d.sess[t]
<1> DEFINE q == [d.sess[s] EXCEPT !.expired = FALSE]
           b == [d EXCEPT !.sess = [d.sess EXCEPT ![s] = q]]
           e == Awake(d, s)
<1>1. /\ d \in Tables /\ OwnershipMirrorsNames(d) /\ OneHolderPerName(d)
      /\ RowsAreOfSessions(d) /\ HoldersExist(d) /\ EdgesLeadToAwakeSessions(d) /\ OneLiveOwner(d)
      /\ d.sess[s] \in Row
  BY DEF Sound, Tables
<1>2. q \in Row
  BY ONLY <1>1, Zenon DEF Row
<1>3. ~q.expired /\ q.epoch = d.sess[s].epoch /\ q.name = d.sess[s].name /\ q.nstate = d.sess[s].nstate
  BY ONLY <1>1 DEF Row
<1>4. e = IF d.sess[s].expired THEN upsertAutomaticAlias(b, s) ELSE d
  BY DEF Awake
<1> HIDE DEF q
<1>5. /\ b \in Tables
      /\ b.sess = [d.sess EXCEPT ![s] = q] /\ b.own = d.own /\ b.phys = d.phys
      /\ b.live = d.live /\ b.clock = d.clock
  BY ONLY s \in Session, <1>1, <1>2 DEF Tables
<1>6. \A u \in Session : b.sess[u] = IF u = s THEN q ELSE d.sess[u]
  BY ONLY <1>1, <1>5 DEF Tables
<1> HIDE DEF b, e
<1>7. \A u \in Session : LiveMcp(b, u) = LiveMcp(d, u)
  <2>1. \A u \in Session : b.sess[u].epoch = d.sess[u].epoch
    BY ONLY <1>3, <1>6, Zenon
  <2> QED
    BY ONLY <1>5, <2>1, Zenon DEF LiveMcp
<1>8. OneLiveOwner(b)
  BY ONLY <1>1, <1>7 DEF OneLiveOwner
<1>9. /\ OwnershipMirrorsNames(b) /\ OneHolderPerName(b) /\ HoldersExist(b)
  BY ONLY Exists(d, s), <1>1, <1>3, <1>5, <1>6 DEF OwnershipMirrorsNames, OneHolderPerName, HoldersExist, Exists
<1>10. EdgesLeadToAwakeSessions(b) /\ RowsAreOfSessions(b)
  BY ONLY <1>1, <1>3, <1>5, <1>6 DEF EdgesLeadToAwakeSessions, RowsAreOfSessions, Exists, Tables, Component
<1>11. Sound(b)
  BY ONLY <1>5, <1>8, <1>9, <1>10 DEF Sound
<1>12. /\ Sound(e) /\ e.own = d.own /\ e.phys = d.phys /\ e.live = d.live /\ e.clock = d.clock
       /\ e.sess = d.sess \/ e.sess = b.sess
  BY ONLY s \in Session, <1>1, <1>4, <1>5, <1>11, Sound(d), AliasKeepsSound
<1>13. \A u \in Session : b.sess[u].epoch = d.sess[u].epoch /\ b.sess[u].name = d.sess[u].name
  BY ONLY <1>3, <1>6, Zenon
<1>14. /\ \A u \in Session : e.sess[u].epoch = d.sess[u].epoch /\ e.sess[u].name = d.sess[u].name
       /\ \A u \in Session \ {s} : e.sess[u] = d.sess[u]
  BY ONLY <1>6, <1>12, <1>13
<1> QED
  BY ONLY s \in Session, Exists(d, s), <1>12, <1>14 DEF Exists, e

(* The end of sessions takes the edges from and to them (WithoutEdges) and *)
(* their aliases (WithoutAliases).                                         *)
LEMMA EdgesAreCut ==
  ASSUME NEW d \in Tables, NEW gone \in SUBSET Session
  PROVE  LET e == WithoutAliases(WithoutEdges(d, gone), gone)
         IN /\ e \in Tables
            /\ e.sess = d.sess /\ e.own = d.own /\ e.live = d.live /\ e.clock = d.clock
            /\ \A p \in Session : e.phys[p] # Null => e.phys[p] = d.phys[p] /\ e.phys[p] \notin gone
<1> DEFINE P == [p \in Session |-> IF {p, d.phys[p]} \cap gone # {} THEN Null ELSE d.phys[p]]
           A == [a \in Alias |-> IF d.alias[a] \in gone THEN Null ELSE d.alias[a]]
           b == [d EXCEPT !.phys = P]
           e == WithoutAliases(WithoutEdges(d, gone), gone)
<1>1. P \in [Session -> Session \cup {Null}] /\ A \in [Alias -> Session \cup {Null}]
  BY DEF Tables
<1>2. \A p \in Session : P[p] # Null => P[p] = d.phys[p] /\ P[p] \notin gone
  OBVIOUS
<1>3. WithoutEdges(d, gone) = b
  BY DEF WithoutEdges
<1>4. b.alias = d.alias
  BY DEF Tables
<1>5. e = [b EXCEPT !.alias = A]
  BY <1>3, <1>4 DEF WithoutAliases
<1> HIDE DEF P, A
<1>6. /\ e \in Tables
      /\ e.sess = d.sess /\ e.own = d.own /\ e.live = d.live /\ e.clock = d.clock /\ e.phys = P
  BY <1>1, <1>5, Zenon DEF Tables
<1> QED
  BY <1>2, <1>6 DEF e

-----------------------------------------------------------------------------
(* The operations of connections and of the operator, and the sweeps.      *)

(* A rename (RenameSession), with the reclaim of a taken name in it.       *)
LEMMA RenameIsSound ==
  ASSUME NEW d, NEW s \in Session, NEW n \in Name, NEW secret, Sound(d), Exists(d, s),
         NEW b \in ReclaimedByRename(d, s, n, secret)
  PROVE  LET e == Named(Awake(b, s), s, n)
         IN /\ Sound(e) /\ SecretsKept(d, e) /\ e.phys = d.phys
            /\ \A t \in Session : e.sess[t].epoch = d.sess[t].epoch /\ LiveMcp(e, t) = LiveMcp(d, t)
            /\ e.sess[s].nstate = "active"
            /\ \A t \in Session \ {s} : e.sess[t] = d.sess[t] \/ d.own[t].secret = secret
<1> DEFINE a == Awake(b, s)
           e == Named(a, s, n)
<1>1. /\ Sound(b) /\ SamePlaces(d, b) /\ SecretsKept(d, b)
      /\ \A t \in Session \ {s} : b.sess[t].name # n
      /\ \A t \in Session \ {s} : b.sess[t] = d.sess[t] \/ d.own[t].secret = secret
  <2>1. CASE ~Taken(d, s, n)
    <3>1. b = d
      BY <2>1 DEF ReclaimedByRename
    <3> QED
      BY <2>1, <3>1, NullAssumption DEF SamePlaces, SecretsKept, Taken, Sound, OwnershipMirrorsNames
  <2>2. CASE Taken(d, s, n)
    <3>1. PICK t \in OwnerOf(d, n) : d.own[t].secret = secret /\ b = Dispossessed(d, s, t, n)
      BY <2>2 DEF ReclaimedByRename
    <3>2. /\ Sound(b) /\ SamePlaces(d, b) /\ SecretsKept(d, b)
          /\ \A u \in Session : b.sess[u].name # n
          /\ \A u \in Session \ {t} : b.sess[u] = d.sess[u]
      BY <2>2, <3>1, DispossessedIsSound
    <3> QED
      BY <3>1, <3>2
  <2> QED
    BY <2>1, <2>2
<1>2. Exists(b, s)
  BY ONLY s \in Session, Exists(d, s), <1>1 DEF SamePlaces, Exists
<1>3. /\ Sound(a) /\ Exists(a, s)
      /\ a.own = b.own /\ a.phys = b.phys /\ a.live = b.live /\ a.clock = b.clock
      /\ \A t \in Session : a.sess[t].epoch = b.sess[t].epoch /\ a.sess[t].name = b.sess[t].name
      /\ \A t \in Session \ {s} : a.sess[t] = b.sess[t]
  BY ONLY s \in Session, <1>1, <1>2, AwakeIsSound
<1> HIDE DEF a
<1>4. /\ Sound(e) /\ SamePlaces(a, e) /\ SecretsKept(a, e)
      /\ e.sess[s].nstate = "active"
      /\ \A t \in Session \ {s} : e.sess[t] = a.sess[t]
  <2>1. \A t \in Session \ {s} : a.sess[t].name # n
    BY ONLY <1>1, <1>3, Zenon
  <2> QED
    BY ONLY s \in Session, n \in Name, <1>3, <2>1, NamedIsSound
<1> HIDE DEF e
<1>5. SecretsKept(d, e) /\ e.phys = d.phys /\ e.live = d.live
  <2>1. SecretsKept(d, b) /\ a.own = b.own /\ SecretsKept(a, e)
    BY ONLY <1>1, <1>3, <1>4
  <2>2. SecretsKept(d, e)
    BY ONLY <2>1 DEF SecretsKept
  <2>3. e.phys = a.phys /\ e.live = a.live /\ b.phys = d.phys /\ b.live = d.live
    BY ONLY <1>1, <1>4 DEF SamePlaces
  <2> QED
    BY ONLY <1>3, <2>2, <2>3
<1>6. \A t \in Session : e.sess[t].epoch = d.sess[t].epoch
  <2> TAKE t \in Session
  <2>1. e.sess[t].epoch = a.sess[t].epoch
    BY ONLY t \in Session, <1>4 DEF SamePlaces
  <2>2. a.sess[t].epoch = b.sess[t].epoch
    BY ONLY t \in Session, <1>3
  <2>3. b.sess[t].epoch = d.sess[t].epoch
    BY ONLY t \in Session, <1>1 DEF SamePlaces
  <2> QED
    BY ONLY <2>1, <2>2, <2>3
<1>7. \A t \in Session : LiveMcp(e, t) = LiveMcp(d, t)
  BY ONLY <1>5, <1>6, Zenon DEF LiveMcp
<1> QED
  BY ONLY <1>1, <1>3, <1>4, <1>5, <1>6, <1>7 DEF e, a

(* The removal of a record (OperatorRemoveRecord).                         *)
LEMMA RemovalIsSound ==
  ASSUME NEW d, NEW s \in Session, Sound(d)
  PROVE  LET e == Removed(d, s)
         IN /\ Sound(e) /\ ~Exists(e, s) /\ LiveMcp(e, s) = {}
            /\ \A p \in Session : e.phys[p] # Null => e.phys[p] = d.phys[p]
            /\ \A t \in Session \ {s} :
                 e.sess[t] = d.sess[t] /\ e.own[t] = d.own[t] /\ LiveMcp(e, t) = LiveMcp(d, t)
<1> DEFINE b == WithoutAliases(WithoutEdges(d, {s}), {s})
           S == [b.sess EXCEPT ![s] = NoRow]
           O == [b.own EXCEPT ![s] = NoOwnership]
           L == {r \in b.live : r.session # s}
           e == Removed(d, s)
<1>1. /\ d \in Tables /\ OwnershipMirrorsNames(d) /\ OneHolderPerName(d)
      /\ RowsAreOfSessions(d) /\ HoldersExist(d) /\ EdgesLeadToAwakeSessions(d) /\ OneLiveOwner(d)
  BY DEF Sound
<1>2. /\ b \in Tables
      /\ b.sess = d.sess /\ b.own = d.own /\ b.live = d.live /\ b.clock = d.clock
      /\ \A p \in Session : b.phys[p] # Null => b.phys[p] = d.phys[p] /\ b.phys[p] \notin {s}
  <2>1. {s} \in SUBSET Session
    OBVIOUS
  <2> QED
    BY ONLY <1>1, <2>1, EdgesAreCut
<1>3. NoRow \in Row
  BY ONLY EmptyRows
<1>4. ~NoRow.expired /\ NoRow.name = Null /\ NoRow.nstate = "unnamed" /\ NoRow.epoch = 0
  BY ONLY EmptyRows
<1>5. NoOwnership \in Ownership /\ NoOwnership.state = "none" /\ NoOwnership.name = Null
  BY ONLY EmptyRows
<1>6. e = [b EXCEPT !.sess = S, !.own = O, !.live = L]
  BY DEF Removed
<1> HIDE DEF b
<1>7. L \in SUBSET Component /\ S \in [Session -> Row] /\ O \in [Session -> Ownership]
  BY ONLY <1>2, <1>3, <1>5 DEF Tables
<1>8. /\ L = {r \in d.live : r.session # s}
      /\ \A u \in Session \ {s} : S[u] = d.sess[u] /\ O[u] = d.own[u]
      /\ S[s] = NoRow /\ O[s] = NoOwnership
  BY ONLY s \in Session, <1>1, <1>2 DEF Tables
<1> HIDE DEF S, O, L
<1>9. /\ e \in Tables
      /\ e.sess = S /\ e.own = O /\ e.live = L /\ e.phys = b.phys /\ e.clock = b.clock
  <2> DEFINE a == [b EXCEPT !.sess = S, !.own = O]
  <2>1. a \in Tables /\ a.sess = S /\ a.own = O /\ a.live = b.live /\ a.phys = b.phys /\ a.clock = b.clock
    BY ONLY <1>2, <1>7, Zenon DEF Tables
  <2>2. e = [a EXCEPT !.live = L]
    BY ONLY <1>6
  <2> HIDE DEF a, e
  <2> QED
    BY ONLY <1>7, <2>1, <2>2 DEF Tables
<1>10. /\ \A u \in Session \ {s} : e.sess[u] = d.sess[u] /\ e.own[u] = d.own[u]
       /\ e.sess[s] = NoRow /\ e.own[s] = NoOwnership
  BY ONLY <1>8, <1>9
<1> HIDE DEF e
<1>11. LiveMcp(e, s) = {} /\ \A t \in Session \ {s} : LiveMcp(e, t) = LiveMcp(d, t)
  BY ONLY <1>8, <1>9, <1>10 DEF LiveMcp
<1>12. OneLiveOwner(e)
  BY ONLY <1>1, <1>11 DEF OneLiveOwner
<1>13. OwnershipMirrorsNames(e) /\ OneHolderPerName(e)
  BY ONLY <1>1, <1>4, <1>5, <1>10, NamesKeptOrLost
<1>14. HoldersExist(e)
  BY ONLY <1>1, <1>4, <1>10 DEF HoldersExist, Exists
<1>15. RowsAreOfSessions(e)
  <2> SUFFICES ASSUME NEW r \in e.live PROVE Exists(e, r.session) /\ r.at <= e.clock
    BY DEF RowsAreOfSessions
  <2>1. r \in d.live /\ r.session # s
    BY ONLY r \in e.live, <1>8, <1>9
  <2>2. r.session \in Session
    BY ONLY <1>1, <2>1 DEF Tables, Component
  <2>3. Exists(d, r.session) /\ r.at <= d.clock
    BY ONLY <1>1, <2>1 DEF RowsAreOfSessions
  <2>4. e.sess[r.session] = d.sess[r.session] /\ e.clock = d.clock
    BY ONLY <1>2, <1>9, <1>10, <2>1, <2>2
  <2> QED
    BY ONLY <2>3, <2>4 DEF Exists
<1>16. EdgesLeadToAwakeSessions(e)
  BY ONLY <1>1, <1>2, <1>9, <1>10 DEF EdgesLeadToAwakeSessions, Exists, Tables
<1>17. Sound(e)
  BY ONLY <1>9, <1>12, <1>13, <1>14, <1>15, <1>16 DEF Sound
<1> QED
  BY <1>2, <1>4, <1>9, <1>10, <1>11, <1>17 DEF Exists, e

(* The expiry of sessions that are awake (reapExpiredSessions): names and  *)
(* ownership stay.                                                         *)
LEMMA ExpiryIsSound ==
  ASSUME NEW d, NEW due \in SUBSET Session, Sound(d), \A s \in due : Exists(d, s)
  PROVE  LET e == reapExpiredSessions(d, due)
         IN /\ Sound(e) /\ e.own = d.own
            /\ \A p \in Session : e.phys[p] # Null => e.phys[p] = d.phys[p]
            /\ \A s \in Session : /\ e.sess[s].name = d.sess[s].name
                                  /\ e.sess[s].epoch = d.sess[s].epoch
                                  /\ LiveMcp(e, s) \in {{}, LiveMcp(d, s)}
<1> DEFINE b == WithoutAliases(WithoutEdges(d, due), due)
           Q(s) == [d.sess[s] EXCEPT !.expired = TRUE, !.ttl = FALSE]
           S == [s \in Session |-> IF s \in due THEN Q(s) ELSE d.sess[s]]
           L == {r \in b.live : r.session \notin due}
           e == reapExpiredSessions(d, due)
<1>1. /\ d \in Tables /\ OwnershipMirrorsNames(d) /\ OneHolderPerName(d)
      /\ RowsAreOfSessions(d) /\ HoldersExist(d) /\ EdgesLeadToAwakeSessions(d) /\ OneLiveOwner(d)
      /\ \A s \in Session : d.sess[s] \in Row
  BY DEF Sound, Tables
<1>2. /\ b \in Tables
      /\ b.sess = d.sess /\ b.own = d.own /\ b.live = d.live /\ b.clock = d.clock
      /\ \A p \in Session : b.phys[p] # Null => b.phys[p] = d.phys[p] /\ b.phys[p] \notin due
  BY ONLY due \in SUBSET Session, <1>1, EdgesAreCut
<1>3. \A s \in Session : Q(s) \in Row
  BY ONLY <1>1, Zenon DEF Row
<1>4. \A s \in Session : /\ Q(s).name = d.sess[s].name /\ Q(s).nstate = d.sess[s].nstate
                         /\ Q(s).epoch = d.sess[s].epoch
  BY ONLY <1>1, Zenon DEF Row
<1>5. e = [b EXCEPT !.sess = S, !.live = L]
  BY DEF reapExpiredSessions
<1> HIDE DEF b, Q
<1>6. S \in [Session -> Row] /\ L \in SUBSET Component
  BY ONLY <1>1, <1>2, <1>3 DEF Tables
<1>7. /\ \A s \in Session : S[s] = IF s \in due THEN Q(s) ELSE d.sess[s]
      /\ L = {r \in d.live : r.session \notin due}
  BY ONLY <1>2
<1> HIDE DEF S, L
<1>8. e \in Tables /\ e.sess = S /\ e.own = d.own /\ e.live = L /\ e.phys = b.phys /\ e.clock = d.clock
  BY ONLY <1>2, <1>5, <1>6, Zenon DEF Tables
<1> HIDE DEF e
<1>9. \A s \in Session : /\ e.sess[s].name = d.sess[s].name /\ e.sess[s].nstate = d.sess[s].nstate
                         /\ e.sess[s].epoch = d.sess[s].epoch
                         /\ s \notin due => e.sess[s] = d.sess[s]
  BY ONLY <1>4, <1>7, <1>8, Zenon
<1>10. \A s \in Session : LiveMcp(e, s) = IF s \in due THEN {} ELSE LiveMcp(d, s)
  <2> TAKE s \in Session
  <2>1. CASE s \in due
    BY ONLY <1>7, <1>8, <2>1 DEF LiveMcp
  <2>2. CASE s \notin due
    BY ONLY s \in Session, <1>7, <1>8, <1>9, <2>2 DEF LiveMcp
  <2> QED
    BY <2>1, <2>2
<1>11. OneLiveOwner(e)
  BY ONLY <1>1, <1>10 DEF OneLiveOwner
<1>12. OwnershipMirrorsNames(e) /\ OneHolderPerName(e)
  BY ONLY <1>1, <1>8, <1>9, NamesKeptOrLost
<1>13. HoldersExist(e)
  BY ONLY \A s \in due : Exists(d, s), <1>1, <1>9 DEF HoldersExist, Exists
<1>14. RowsAreOfSessions(e)
  BY ONLY <1>1, <1>7, <1>8, <1>9 DEF RowsAreOfSessions, Exists, Tables, Component
<1>15. EdgesLeadToAwakeSessions(e)
  BY ONLY <1>1, <1>2, <1>8, <1>9 DEF EdgesLeadToAwakeSessions, Exists, Tables
<1>16. Sound(e)
  BY ONLY <1>8, <1>11, <1>12, <1>13, <1>14, <1>15 DEF Sound
<1> QED
  BY <1>2, <1>8, <1>9, <1>10, <1>16 DEF e

(* The lapse of reservations (reapStalePendingNames): they hold no name.   *)
LEMMA LapseIsSound ==
  ASSUME NEW d, NEW lapsed \in SUBSET Session, Sound(d)
  PROVE  LET e == reapStalePendingNames(d, lapsed)
         IN /\ Sound(e) /\ SamePlaces(d, e) /\ e.own = d.own
            /\ \A s \in Session : e.sess[s].name = d.sess[s].name
<1> DEFINE Q(s) == [d.sess[s] EXCEPT !.nstate = "unnamed", !.name = Null, !.ttl = FALSE]
           lapses(s) == s \in lapsed /\ d.sess[s].nstate = "pending" /\ d.sess[s].ttl
           S == [s \in Session |-> IF lapses(s) THEN Q(s) ELSE d.sess[s]]
           e == reapStalePendingNames(d, lapsed)
<1>1. /\ d \in Tables /\ OwnershipMirrorsNames(d) /\ OneHolderPerName(d)
      /\ RowsAreOfSessions(d) /\ HoldersExist(d) /\ EdgesLeadToAwakeSessions(d) /\ OneLiveOwner(d)
      /\ \A s \in Session : d.sess[s] \in Row
  BY DEF Sound, Tables
<1>2. \A s \in Session : Q(s) \in Row
  BY ONLY <1>1, Zenon DEF Row
<1>3. \A s \in Session : /\ Q(s).name = Null /\ Q(s).nstate = "unnamed"
                         /\ Q(s).epoch = d.sess[s].epoch /\ Q(s).expired = d.sess[s].expired
  BY ONLY <1>1, Zenon DEF Row
<1>4. e = [d EXCEPT !.sess = S]
  BY DEF reapStalePendingNames
<1>5. \A s \in Session : lapses(s) => d.sess[s].nstate = "pending"
  OBVIOUS
<1> HIDE DEF Q, lapses
<1>6. S \in [Session -> Row] /\ \A s \in Session : S[s] = IF lapses(s) THEN Q(s) ELSE d.sess[s]
  BY ONLY <1>1, <1>2
<1> HIDE DEF S
<1>7. /\ e \in Tables /\ e.sess = S /\ e.own = d.own /\ e.live = d.live
      /\ e.phys = d.phys /\ e.clock = d.clock
  BY ONLY <1>1, <1>4, <1>6 DEF Tables
<1> HIDE DEF e
<1>8. SamePlaces(d, e)
  BY ONLY <1>3, <1>6, <1>7 DEF SamePlaces
<1>9. \A s \in Session : /\ e.sess[s].name = d.sess[s].name
                         /\ (e.sess[s].nstate = "active") <=> (d.sess[s].nstate = "active")
  <2> TAKE s \in Session
  <2>1. CASE lapses(s)
    BY ONLY s \in Session, <1>1, <1>3, <1>5, <1>6, <1>7, <2>1 DEF OwnershipMirrorsNames
  <2>2. CASE ~lapses(s)
    BY ONLY s \in Session, <1>6, <1>7, <2>2
  <2> QED
    BY <2>1, <2>2
<1>10. OwnershipMirrorsNames(e) /\ OneHolderPerName(e)
  BY ONLY <1>1, <1>7, <1>9, NamesKeptOrLost
<1>11. HoldersExist(e)
  BY ONLY <1>1, <1>8, <1>9 DEF HoldersExist, SamePlaces, Exists
<1>12. Sound(e)
  BY ONLY Sound(d), <1>7, <1>8, <1>10, <1>11, PlacesStaySound DEF Sound
<1> QED
  BY <1>7, <1>8, <1>9, <1>12 DEF e

(* The close of a connection (Left).                                       *)
LEMMA LeftIsSound ==
  ASSUME NEW d, NEW s \in Session, NEW c \in Conn, Sound(d)
  PROVE  LET e == Left(d, s, c)
         IN /\ Sound(e) /\ e.own = d.own /\ e.phys = d.phys
            /\ \A t \in Session : /\ e.sess[t].name = d.sess[t].name
                                  /\ e.sess[t].epoch = d.sess[t].epoch
                                  /\ LiveMcp(e, t) = {r \in LiveMcp(d, t) : r.conn # c}
<1> DEFINE p == [d.sess[s] EXCEPT !.state = "disconnected", !.bound = 0]
           q == IF d.sess[s].bound = c THEN p ELSE d.sess[s]
           L == {r \in d.live : r.conn # c}
           e == Left(d, s, c)
<1>1. /\ d \in Tables /\ OwnershipMirrorsNames(d) /\ OneHolderPerName(d)
      /\ RowsAreOfSessions(d) /\ HoldersExist(d) /\ EdgesLeadToAwakeSessions(d) /\ OneLiveOwner(d)
      /\ d.sess[s] \in Row
  BY DEF Sound, Tables
<1>2. p \in Row
  BY ONLY <1>1, Zenon DEF Row
<1>3. /\ p.epoch = d.sess[s].epoch /\ p.expired = d.sess[s].expired
      /\ p.name = d.sess[s].name /\ p.nstate = d.sess[s].nstate
  BY ONLY <1>1 DEF Row
<1>4. e = [d EXCEPT !.sess = [d.sess EXCEPT ![s] = q], !.live = L]
  BY DEF Left
<1> HIDE DEF p
<1>5. /\ q \in Row /\ q.epoch = d.sess[s].epoch /\ q.expired = d.sess[s].expired
      /\ q.name = d.sess[s].name /\ q.nstate = d.sess[s].nstate
  BY ONLY <1>1, <1>2, <1>3
<1> HIDE DEF q
<1>6. [d.sess EXCEPT ![s] = q] \in [Session -> Row] /\ L \in SUBSET Component
  BY ONLY <1>1, <1>5 DEF Tables
<1>7. /\ e \in Tables
      /\ e.sess = [d.sess EXCEPT ![s] = q] /\ e.own = d.own /\ e.phys = d.phys
      /\ e.live = L /\ e.clock = d.clock
  <2> HIDE DEF L
  <2> QED
    BY ONLY <1>1, <1>4, <1>6, Zenon DEF Tables
<1>8. \A t \in Session : /\ e.sess[t].epoch = d.sess[t].epoch /\ e.sess[t].expired = d.sess[t].expired
                         /\ e.sess[t].name = d.sess[t].name /\ e.sess[t].nstate = d.sess[t].nstate
  <2>1. \A t \in Session : e.sess[t] = IF t = s THEN q ELSE d.sess[t]
    BY ONLY <1>1, <1>7 DEF Tables
  <2> QED
    BY ONLY <1>5, <2>1, Zenon
<1> HIDE DEF e
<1>9. \A t \in Session : LiveMcp(e, t) = {r \in LiveMcp(d, t) : r.conn # c}
  <2> TAKE t \in Session
  <2>1. e.live = L /\ e.sess[t].epoch = d.sess[t].epoch
    BY ONLY t \in Session, <1>7, <1>8
  <2> QED
    BY ONLY <2>1 DEF LiveMcp
<1>10. OneLiveOwner(e)
  BY ONLY <1>1, <1>9 DEF OneLiveOwner
<1>11. OwnershipMirrorsNames(e) /\ OneHolderPerName(e)
  BY ONLY <1>1, <1>7, <1>8, NamesKeptOrLost
<1>12. HoldersExist(e)
  BY ONLY <1>1, <1>8 DEF HoldersExist, Exists
<1>13. EdgesLeadToAwakeSessions(e)
  BY ONLY <1>1, <1>7, <1>8 DEF EdgesLeadToAwakeSessions, Exists, Tables
<1>14. RowsAreOfSessions(e)
  BY ONLY <1>1, <1>7, <1>8 DEF RowsAreOfSessions, Exists, Tables, Component
<1>15. Sound(e)
  BY ONLY <1>7, <1>10, <1>11, <1>12, <1>13, <1>14 DEF Sound
<1> QED
  BY <1>7, <1>8, <1>9, <1>15 DEF e
=============================================================================
