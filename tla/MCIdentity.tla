----------------------------- MODULE MCIdentity -----------------------------
(***************************************************************************)
(* The safety of Identity for every set of sessions, names, aliases and    *)
(* processes and in every world: each step keeps the invariant (Inv) and   *)
(* does nothing that the action properties forbid.  And two small worlds   *)
(* to look at: two sessions that want one name, with automatic aliases     *)
(* that collide; and one session whose name is older than owner secrets,   *)
(* with a crash of the broker.                                             *)
(***************************************************************************)
EXTENDS Identity, IdentityTables, FiniteSets, TLC


(* What every step keeps, and what no step does.                           *)
KeepsAll ==
  Inv' /\ DormantNameIsKeptStep /\ SecretIsStableStep /\ ReclaimSparesRunningOwnerStep

(* A broker starts with no connection.                                     *)
LEMMA StartsConnected ==
  ASSUME Init
  PROVE  /\ world \in World /\ Connected
         /\ auth \in [Conn -> [session : Session, epoch : Nat, role : Roles] \cup {Null}]
         /\ client \in [Conn -> Pid \cup {Null}]
         /\ proc \in [Pid -> {"running", "gone", "recycled"}]
         /\ seq \in 0 .. MaxConn /\ crashes \in Nat /\ shown \in Secret \cup {Null}
<1>1. /\ world \in World /\ auth = [c \in Conn |-> Null] /\ client = [c \in Conn |-> Null]
      /\ seq = 0 /\ proc = [p \in Pid |-> "running"] /\ crashes = 0 /\ shown = Null
  BY Zenon DEF Init
<1>2. \A c \in Conn : auth[c] = Null /\ client[c] = Null
  BY ONLY <1>1
<1>3. Connected
  BY ONLY <1>2 DEF Connected
<1>4. /\ auth \in [Conn -> [session : Session, epoch : Nat, role : Roles] \cup {Null}]
      /\ client \in [Conn -> Pid \cup {Null}]
      /\ proc \in [Pid -> {"running", "gone", "recycled"}]
  BY ONLY <1>1, Zenon
<1>5. seq \in 0 .. MaxConn /\ crashes \in Nat /\ shown \in Secret \cup {Null}
  BY ONLY <1>1, ConnAssumption
<1> QED
  BY ONLY <1>1, <1>3, <1>4, <1>5, Zenon

(* The names held before schema 10 are one per session and have one holder.*)
LEMMA InitInv == Init => Inv
<1> SUFFICES ASSUME Init PROVE Inv
  OBVIOUS
<1> DEFINE n(s) == CHOOSE x \in Legacy(s) : TRUE
           named(s) == [NoRow EXCEPT !.epoch = 1, !.nstate = "active", !.name = n(s)]
           owned(s) == [state |-> "active", name |-> n(s), secret |-> Null]
           S == [s \in Session |-> IF Legacy(s) # {} THEN named(s) ELSE NoRow]
           O == [s \in Session |-> IF Legacy(s) # {} THEN owned(s) ELSE NoOwnership]
<1>1. db = [sess |-> S, own |-> O, phys |-> [s \in Session |-> Null], alias |-> [a \in Alias |-> Null],
            live |-> {}, clock |-> 0, minted |-> [s \in Session |-> 0]]
  BY Zenon DEF Init
<1>2. \A s \in Session : Legacy(s) # {} => n(s) \in Name /\ <<s, n(s)>> \in world.legacy
  BY DEF Legacy
<1> USE <1>2
<1>3. \A s, t \in Session : Legacy(s) # {} /\ Legacy(t) # {} /\ n(s) = n(t) => s = t
  <2> SUFFICES ASSUME NEW s \in Session, NEW t \in Session, Legacy(s) # {}, Legacy(t) # {}, n(s) = n(t)
               PROVE  s = t
    OBVIOUS
  <2>1. <<s, n(s)>> \in world.legacy /\ <<t, n(t)>> \in world.legacy
    OBVIOUS
  <2> HIDE DEF n
  <2>2. world \in World
    BY Zenon DEF Init
  <2>3. <<s, n(s)>>[1] = <<t, n(t)>>[1] <=> <<s, n(s)>>[2] = <<t, n(t)>>[2]
    BY <2>1, <2>2, WorldAssumption
  <2> QED
    BY <2>3
<1> HIDE DEF n
<1>4. NoRow \in Row
  BY ONLY EmptyRows
<1>5. ~NoRow.expired /\ NoRow.name = Null /\ NoRow.nstate = "unnamed" /\ NoRow.epoch = 0
  BY ONLY EmptyRows
<1> USE <1>5
<1>6. \A s \in Session : Legacy(s) # {} => named(s) \in Row
  <2>1. 1 \in Nat
    OBVIOUS
  <2> QED
    BY <1>4, <2>1, Zenon DEF Row
<1>7. \A s \in Session : /\ ~named(s).expired /\ named(s).name = n(s)
                         /\ named(s).nstate = "active" /\ named(s).epoch = 1
  BY <1>4, Zenon DEF Row
<1>8. \A s \in Session : Legacy(s) # {} => owned(s) \in Ownership /\ owned(s).state = "active" /\ owned(s).name = n(s)
  BY Zenon DEF Ownership
<1>9. NoOwnership \in Ownership /\ NoOwnership.state = "none" /\ NoOwnership.name = Null
  BY DEF NoOwnership, Ownership
<1> HIDE DEF named, owned
<1>10. /\ S \in [Session -> Row] /\ O \in [Session -> Ownership]
       /\ \A s \in Session : S[s] = IF Legacy(s) # {} THEN named(s) ELSE NoRow
       /\ \A s \in Session : O[s] = IF Legacy(s) # {} THEN owned(s) ELSE NoOwnership
  BY <1>4, <1>6, <1>8, <1>9
<1> USE <1>10
<1> HIDE DEF S, O
<1>11. db \in Tables
  <2>1. [s \in Session |-> Null] \in [Session -> Session \cup {Null}]
    OBVIOUS
  <2>2. [a \in Alias |-> Null] \in [Alias -> Session \cup {Null}] /\ [s \in Session |-> 0] \in [Session -> Nat]
    OBVIOUS
  <2>3. {} \in SUBSET Component /\ 0 \in Nat
    OBVIOUS
  <2> QED
    BY <1>1, <2>1, <2>2, <2>3, Zenon DEF Tables
<1>12. db.sess = S /\ db.own = O /\ db.live = {} /\ \A p \in Session : db.phys[p] = Null
  BY <1>1
<1> USE <1>12
<1>13. OwnershipMirrorsNames(db)
  <2> SUFFICES ASSUME NEW s \in Session
               PROVE  /\ (db.own[s].state = "active") <=> (db.sess[s].nstate = "active")
                      /\ db.own[s].name = db.sess[s].name
                      /\ (db.sess[s].name # Null) <=> (db.sess[s].nstate = "active")
    BY Zenon DEF OwnershipMirrorsNames
  <2>1. CASE Legacy(s) # {}
    <3>1. db.sess[s] = named(s) /\ db.own[s] = owned(s) /\ n(s) # Null
      BY <2>1, NullAssumption, Zenon
    <3> QED
      BY <1>7, <1>8, <2>1, <3>1
  <2>2. CASE Legacy(s) = {}
    <3>1. db.sess[s] = NoRow /\ db.own[s] = NoOwnership
      BY <2>2
    <3> QED
      BY <1>9, <3>1
  <2> QED
    BY <2>1, <2>2
<1>14. \A s \in Session : db.sess[s].name # Null => Legacy(s) # {} /\ db.sess[s].name = n(s)
  BY <1>7
<1>15. OneHolderPerName(db)
  BY ONLY <1>3, <1>14 DEF OneHolderPerName
<1>16. HoldersExist(db)
  <2>1. \A s \in Session : db.sess[s] = named(s) \/ db.sess[s] = NoRow
    BY Zenon
  <2> QED
    BY ONLY <1>5, <1>7, <2>1 DEF HoldersExist, Exists
<1>17. \A s \in Session : LiveMcp(db, s) = {}
  BY Zenon DEF LiveMcp
<1>18. EdgesLeadToAwakeSessions(db) /\ RowsAreOfSessions(db) /\ OneLiveOwner(db)
  BY <1>17 DEF EdgesLeadToAwakeSessions, RowsAreOfSessions, OneLiveOwner
<1>19. \A s \in Session : RegisteredLast(db, s)
  BY <1>17 DEF RegisteredLast
<1>20. TypeOK /\ Connected
  BY ONLY Init, <1>11, StartsConnected, Zenon DEF TypeOK
<1>21. Sound(db)
  BY ONLY <1>11, <1>13, <1>15, <1>16, <1>18, Zenon DEF Sound
<1> QED
  BY ONLY <1>19, <1>20, <1>21, Zenon DEF Inv

(* A registered connection stays the one that connected last in a step     *)
(* that leaves the connections alone.                                      *)
LEMMA LastStaysRegistered ==
  ASSUME \A s \in Session : RegisteredLast(db, s), auth' = auth, client' = client,
         \A s \in Session : \/ LiveMcp(db', s) = {}
                            \/ LiveMcp(db', s) = LiveMcp(db, s) /\ db'.sess[s].epoch = db.sess[s].epoch
  PROVE  \A s \in Session : RegisteredLast(db, s)'
<1> TAKE s \in Session
<1>1. CASE LiveMcp(db', s) = {}
  BY <1>1 DEF RegisteredLast
<1>2. CASE LiveMcp(db', s) = LiveMcp(db, s) /\ db'.sess[s].epoch = db.sess[s].epoch
  BY <1>2 DEF RegisteredLast
<1> QED
  BY <1>1, <1>2

(* What an operation on the tables leaves of the rest.                     *)
LEMMA RestStays ==
  ASSUME Inv, UNCHANGED <<world, auth, client, seq, proc, crashes>>,
         shown' \in Secret \cup {Null}, Sound(db')
  PROVE  TypeOK' /\ Connected'
<1>1. TypeOK /\ Connected
  BY DEF Inv
<1>2. db' \in Tables
  BY DEF Sound
<1>3. TypeOK'
  BY <1>1, <1>2 DEF TypeOK
<1>4. Connected'
  BY <1>1 DEF Connected
<1> QED
  BY <1>3, <1>4

(* The action properties of a step that touches no name, no ownership and  *)
(* adds no edge.                                                           *)
LEMMA NamesStay ==
  ASSUME \A s \in Session : db'.sess[s].name = db.sess[s].name,
         db'.own = db.own,
         \A p \in Session : db'.phys[p] # Null => db'.phys[p] = db.phys[p]
  PROVE  DormantNameIsKeptStep /\ SecretIsStableStep /\ ReclaimSparesRunningOwnerStep
<1>1. DormantNameIsKeptStep /\ SecretIsStableStep
  BY DEF DormantNameIsKeptStep, SecretIsStableStep
<1>2. ReclaimSparesRunningOwnerStep
  BY NullAssumption DEF ReclaimSparesRunningOwnerStep
<1> QED
  BY <1>1, <1>2

(* The guard of a reclaim finds a component that is registered and runs    *)
(* (hasProvenLiveMcp): the row it looks at is that component's.            *)
LEMMA RunningOwnerIsFound ==
  ASSUME Inv, NEW t \in Session, ~hasProvenLiveMcp(db, t), NEW r \in LiveMcp(db, t)
  PROVE  ~Runs(r)
<1> SUFFICES ASSUME Runs(r) PROVE FALSE
  OBVIOUS
<1>1. r.session = t /\ r.epoch = db.sess[t].epoch /\ r.role = "mcp"
  BY DEF LiveMcp
<1>2. auth[r.conn] = [session |-> t, epoch |-> db.sess[t].epoch, role |-> "mcp"]
  BY <1>1 DEF Runs
<1>3. PICK m \in LiveMcp(db, t) :
        m.pid = client[r.conn] /\ \A q \in LiveMcp(db, t) \ {m} : q.at < m.at
  BY <1>2 DEF Inv, RegisteredLast
<1>4. \A q \in LiveMcp(db, t) : q.at \in Nat
  BY DEF LiveMcp, Inv, TypeOK, Tables, Component
<1>5. Newest(LiveMcp(db, t)) = m
  <2>1. \A q \in LiveMcp(db, t) : q.at <= m.at
    BY <1>3, <1>4
  <2>2. \A n \in LiveMcp(db, t) : (\A q \in LiveMcp(db, t) : q.at <= n.at) => n = m
    BY <1>3, <1>4
  <2> QED
    BY <2>1, <2>2 DEF Newest
<1>6. ~ProvenDead(m.pid)
  BY <1>3 DEF Runs, ProvenDead
<1> QED
  BY <1>5, <1>6 DEF hasProvenLiveMcp

(* A registration.                                                         *)
LEMMA RegisterKeepsAll ==
  ASSUME Inv, NEW c \in Conn, NEW s \in world.who, NEW role \in Roles,
         NEW n \in Name \cup {BadName, Null}, NEW secret, NEW supersede,
         Register(c, s, role, n, secret, supersede)
  PROVE  KeepsAll
<1> DEFINE r == Registered(db, c, s, role, n, secret, supersede)
           t == r.as
<1>1. s \in Session
  BY WorldAssumption DEF Inv, TypeOK
<1>2. client[c] \in Pid /\ auth[c] = Null
  BY DEF Inv, TypeOK, Register
<1>3. Sound(db) /\ r.ok /\ TypeOK /\ Connected /\ \A u \in Session : RegisteredLast(db, u)
  BY DEF Inv, Register
<1>4. t \in Session /\ Arrived(db, r.db, t, c, role)
  BY ONLY c \in Conn, role \in Roles, n \in Name \cup {BadName, Null}, <1>1, <1>2, <1>3, RegisteredIsSound
<1>5. /\ db' = r.db /\ shown' = Null
      /\ auth' = [auth EXCEPT ![c] = [session |-> t, epoch |-> db'.sess[t].epoch, role |-> role]]
      /\ UNCHANGED <<world, client, seq, proc, crashes>>
  BY DEF Register
<1> HIDE DEF r
<1>6. t \in Session /\ Arrived(db, db', t, c, role)
  BY ONLY <1>4, <1>5
<1> HIDE DEF t
<1>7. Sound(db')
  BY ONLY <1>6 DEF Arrived
<1>8. TypeOK'
  <2>1. db' \in Tables /\ db'.sess[t].epoch \in Nat
    BY ONLY <1>6, <1>7 DEF Sound, Tables, Row
  <2> QED
    BY ONLY c \in Conn, role \in Roles, <1>3, <1>5, <1>6, <2>1 DEF TypeOK
<1>9. Connected'
  BY ONLY c \in Conn, <1>2, <1>3, <1>5, NullAssumption DEF TypeOK, Connected
<1>10. \A u \in Session : RegisteredLast(db, u)'
  <2> TAKE u \in Session
  <2>1. /\ \A k \in Conn \ {c} : auth'[k] = auth[k]
        /\ auth'[c] = [session |-> t, epoch |-> db'.sess[t].epoch, role |-> role]
        /\ client' = client
    BY ONLY c \in Conn, <1>3, <1>5 DEF TypeOK
  <2>2. \A q \in LiveMcp(db', u) : q.conn \in Conn
    BY ONLY <1>7 DEF LiveMcp, Sound, Tables, Component
  <2>3. CASE u # t
    <3>1. LiveMcp(db', u) = LiveMcp(db, u) /\ db'.sess[u].epoch = db.sess[u].epoch
      BY ONLY u \in Session, <1>6, <2>3 DEF Arrived
    <3> QED
      BY ONLY u \in Session, <1>3, <2>1, <2>2, <2>3, <3>1 DEF RegisteredLast
  <2>4. CASE u = t /\ role = "mcp"
    BY ONLY <1>5, <1>6, <2>1, <2>4 DEF RegisteredLast, Arrived
  <2>5. CASE u = t /\ role # "mcp"
    <3>1. \/ LiveMcp(db', t) = {}
          \/ LiveMcp(db', t) = LiveMcp(db, t) /\ db'.sess[t].epoch = db.sess[t].epoch
      BY ONLY <1>6, <2>5 DEF Arrived
    <3> QED
      BY ONLY <1>3, <1>6, <2>1, <2>2, <2>5, <3>1 DEF RegisteredLast
  <2> QED
    BY ONLY role \in Roles, <2>3, <2>4, <2>5
<1>11. SecretIsStableStep
  BY ONLY <1>6 DEF SecretIsStableStep, Arrived, SecretsKept
<1>12. DormantNameIsKeptStep
  BY ONLY <1>6 DEF DormantNameIsKeptStep, Arrived
<1>13. ReclaimSparesRunningOwnerStep
  <2> SUFFICES ASSUME NEW p \in Session, NEW u \in Session, db'.phys[p] = u, db.phys[p] # u,
                      NEW q \in LiveMcp(db, u)
               PROVE  ~Runs(q)
    BY DEF ReclaimSparesRunningOwnerStep
  <2>1. u = t /\ ~hasProvenLiveMcp(db, u)
    BY ONLY p \in Session, db'.phys[p] = u, db.phys[p] # u, <1>6 DEF Arrived
  <2> QED
    BY ONLY Inv, u \in Session, q \in LiveMcp(db, u), <2>1, RunningOwnerIsFound
<1> QED
  BY ONLY <1>7, <1>8, <1>9, <1>10, <1>11, <1>12, <1>13 DEF KeepsAll, Inv

(* A rename by the session itself.                                         *)
LEMMA RenameKeepsAll ==
  ASSUME Inv, NEW c \in Conn, NEW n \in Name, NEW secret \in Secret \cup {Null},
         RenameSession(c, n, secret)
  PROVE  KeepsAll
<1> DEFINE s == auth[c].session
<1>1. s \in Session /\ Sound(db) /\ Exists(db, s)
  BY SecretAssumption DEF RenameSession, Current, Inv, TypeOK
<1>2. UNCHANGED <<world, auth, client, seq, proc, crashes>> /\ shown' = secret
  BY DEF RenameSession
<1>3. PICK b \in ReclaimedByRename(db, s, n, secret) : db' = Named(Awake(b, s), s, n)
  BY DEF RenameSession
<1> HIDE DEF s
<1>4. /\ Sound(db') /\ SecretsKept(db, db') /\ db'.phys = db.phys
      /\ \A t \in Session : db'.sess[t].epoch = db.sess[t].epoch /\ LiveMcp(db', t) = LiveMcp(db, t)
      /\ db'.sess[s].nstate = "active"
      /\ \A t \in Session \ {s} : db'.sess[t] = db.sess[t] \/ db.own[t].secret = secret
  BY ONLY n \in Name, <1>1, <1>3, RenameIsSound
<1>5. TypeOK' /\ Connected'
  BY ONLY Inv, secret \in Secret \cup {Null}, <1>2, <1>4, RestStays
<1>6. \A t \in Session : RegisteredLast(db, t)'
  BY ONLY Inv, <1>2, <1>4, LastStaysRegistered DEF Inv
<1>7. DormantNameIsKeptStep
  BY ONLY <1>1, <1>2, <1>4 DEF DormantNameIsKeptStep
<1>8. SecretIsStableStep
  BY ONLY <1>4 DEF SecretIsStableStep, SecretsKept
<1>9. ReclaimSparesRunningOwnerStep
  BY ONLY <1>4 DEF ReclaimSparesRunningOwnerStep
<1> QED
  BY ONLY <1>4, <1>5, <1>6, <1>7, <1>8, <1>9 DEF KeepsAll, Inv

(* A rename by the operator, who takes no name from a session.             *)
LEMMA OperatorRenameKeepsAll ==
  ASSUME Inv, NEW s \in Session, NEW n \in Name, OperatorRenameAlias(s, n)
  PROVE  KeepsAll
<1>1. Sound(db) /\ Exists(db, s)
  BY DEF OperatorRenameAlias, Inv
<1>2. /\ UNCHANGED <<world, auth, client, seq, proc, crashes>> /\ shown' = Null
      /\ db' = Named(db, s, n)
  BY DEF OperatorRenameAlias
<1>3. \A t \in Session \ {s} : db.sess[t].name # n
  BY <1>1, NullAssumption DEF OperatorRenameAlias, Taken, Sound, OwnershipMirrorsNames
<1>4. /\ Sound(db') /\ SamePlaces(db, db') /\ SecretsKept(db, db')
      /\ db'.sess[s].nstate = "active"
      /\ \A t \in Session \ {s} : db'.sess[t] = db.sess[t]
  BY ONLY s \in Session, n \in Name, <1>1, <1>2, <1>3, NamedIsSound
<1>5. TypeOK' /\ Connected'
  BY ONLY Inv, <1>2, <1>4, RestStays
<1>6. \A t \in Session : LiveMcp(db', t) = LiveMcp(db, t) /\ db'.sess[t].epoch = db.sess[t].epoch
  BY ONLY <1>4 DEF SamePlaces, LiveMcp
<1>7. \A t \in Session : RegisteredLast(db, t)'
  BY ONLY Inv, <1>2, <1>6, LastStaysRegistered DEF Inv
<1>8. DormantNameIsKeptStep
  BY ONLY <1>4 DEF DormantNameIsKeptStep
<1>9. SecretIsStableStep
  BY ONLY <1>4 DEF SecretIsStableStep, SecretsKept
<1>10. ReclaimSparesRunningOwnerStep
  BY ONLY <1>4 DEF ReclaimSparesRunningOwnerStep, SamePlaces
<1> QED
  BY ONLY <1>4, <1>5, <1>7, <1>8, <1>9, <1>10 DEF KeepsAll, Inv

(* The removal of a record.                                                *)
LEMMA RemoveKeepsAll ==
  ASSUME Inv, NEW s \in Session, OperatorRemoveRecord(s)
  PROVE  KeepsAll
<1>1. /\ UNCHANGED <<world, auth, client, seq, proc, crashes>> /\ shown' = Null
      /\ db' = Removed(db, s)
  BY DEF OperatorRemoveRecord
<1>2. /\ Sound(db') /\ ~Exists(db', s) /\ LiveMcp(db', s) = {}
      /\ \A p \in Session : db'.phys[p] # Null => db'.phys[p] = db.phys[p]
      /\ \A t \in Session \ {s} :
           db'.sess[t] = db.sess[t] /\ db'.own[t] = db.own[t] /\ LiveMcp(db', t) = LiveMcp(db, t)
  BY ONLY Inv, s \in Session, <1>1, RemovalIsSound DEF Inv
<1>3. TypeOK' /\ Connected'
  BY ONLY Inv, <1>1, <1>2, RestStays
<1>4. \A t \in Session : RegisteredLast(db, t)'
  <2>1. \A t \in Session : \/ LiveMcp(db', t) = {}
                           \/ LiveMcp(db', t) = LiveMcp(db, t) /\ db'.sess[t].epoch = db.sess[t].epoch
    BY ONLY <1>2
  <2> QED
    BY ONLY Inv, <1>1, <2>1, LastStaysRegistered DEF Inv
<1>5. DormantNameIsKeptStep
  BY ONLY <1>2 DEF DormantNameIsKeptStep
<1>6. SecretIsStableStep
  BY ONLY <1>2 DEF SecretIsStableStep
<1>7. ReclaimSparesRunningOwnerStep
  BY ONLY <1>2, NullAssumption DEF ReclaimSparesRunningOwnerStep
<1> QED
  BY ONLY <1>2, <1>3, <1>4, <1>5, <1>6, <1>7 DEF KeepsAll, Inv

(* A sweep: the expiry and then the lapse of reservations.                 *)
LEMMA SweepKeepsAll ==
  ASSUME Inv, NEW due \in SUBSET Session, NEW lapsed \in SUBSET Session, Sweep(due, lapsed)
  PROVE  KeepsAll
<1> DEFINE b == reapExpiredSessions(db, due)
<1>1. /\ UNCHANGED <<world, auth, client, seq, proc, crashes>> /\ shown' = Null
      /\ db' = reapStalePendingNames(b, lapsed)
  BY DEF Sweep
<1>2. Sound(db) /\ \A s \in due : Exists(db, s)
  BY DEF Sweep, Inv
<1>3. /\ Sound(b) /\ b.own = db.own
      /\ \A p \in Session : b.phys[p] # Null => b.phys[p] = db.phys[p]
      /\ \A s \in Session : /\ b.sess[s].name = db.sess[s].name /\ b.sess[s].epoch = db.sess[s].epoch
                            /\ LiveMcp(b, s) \in {{}, LiveMcp(db, s)}
  BY ONLY due \in SUBSET Session, <1>2, ExpiryIsSound
<1> HIDE DEF b
<1>4. /\ Sound(db') /\ SamePlaces(b, db') /\ db'.own = b.own
      /\ \A s \in Session : db'.sess[s].name = b.sess[s].name
  BY ONLY lapsed \in SUBSET Session, <1>1, <1>3, LapseIsSound
<1>5. TypeOK' /\ Connected'
  BY ONLY Inv, <1>1, <1>4, RestStays
<1>6. \A s \in Session : LiveMcp(db', s) = LiveMcp(b, s) /\ db'.sess[s].epoch = b.sess[s].epoch
  BY ONLY <1>4 DEF SamePlaces, LiveMcp
<1>7. \A s \in Session : RegisteredLast(db, s)'
  <2>1. \A s \in Session : \/ LiveMcp(db', s) = {}
                           \/ LiveMcp(db', s) = LiveMcp(db, s) /\ db'.sess[s].epoch = db.sess[s].epoch
    BY ONLY <1>3, <1>6
  <2> QED
    BY ONLY Inv, <1>1, <2>1, LastStaysRegistered DEF Inv
<1>8. DormantNameIsKeptStep /\ SecretIsStableStep /\ ReclaimSparesRunningOwnerStep
  BY ONLY <1>3, <1>4, NamesStay DEF SamePlaces
<1> QED
  BY ONLY <1>4, <1>5, <1>7, <1>8 DEF KeepsAll, Inv

(* The close of a connection: what it leaves of a session's rows is of     *)
(* another connection, and so is the newest of them.                       *)
LEMMA CloseKeepsAll ==
  ASSUME Inv, NEW c \in Conn, Close(c)
  PROVE  KeepsAll
<1>1. /\ UNCHANGED <<world, seq, proc, crashes>> /\ shown' = Null
      /\ client' = [client EXCEPT ![c] = Null] /\ auth' = [auth EXCEPT ![c] = Null]
      /\ db' = IF auth[c] = Null THEN db ELSE Left(db, auth[c].session, c)
  BY DEF Close
<1>2. /\ world \in World /\ db \in Tables /\ Sound(db) /\ Connected
      /\ auth \in [Conn -> [session : Session, epoch : Nat, role : Roles] \cup {Null}]
      /\ client \in [Conn -> Pid \cup {Null}]
      /\ \A t \in Session : RegisteredLast(db, t)
  BY DEF Inv, TypeOK
<1>3. /\ Sound(db') /\ db'.own = db.own /\ db'.phys = db.phys
      /\ \A t \in Session : db'.sess[t].name = db.sess[t].name /\ db'.sess[t].epoch = db.sess[t].epoch
      /\ \A t \in Session : \/ auth[c] = Null /\ LiveMcp(db', t) = LiveMcp(db, t)
                            \/ LiveMcp(db', t) = {r \in LiveMcp(db, t) : r.conn # c}
  <2>1. CASE auth[c] = Null
    BY ONLY <1>1, <1>2, <2>1
  <2>2. CASE auth[c] # Null
    <3>1. auth[c].session \in Session
      BY ONLY <1>2, <2>2, c \in Conn
    <3> QED
      BY ONLY <1>1, <1>2, <2>2, <3>1, c \in Conn, LeftIsSound
  <2> QED
    BY ONLY <2>1, <2>2
<1>4. /\ \A k \in Conn : /\ client'[k] = IF k = c THEN Null ELSE client[k]
                         /\ auth'[k] = IF k = c THEN Null ELSE auth[k]
      /\ auth' \in [Conn -> [session : Session, epoch : Nat, role : Roles] \cup {Null}]
      /\ client' \in [Conn -> Pid \cup {Null}]
  BY ONLY <1>1, <1>2
<1>5. TypeOK'
  <2>1. db' \in Tables
    BY ONLY <1>3 DEF Sound
  <2> QED
    BY ONLY Inv, <1>1, <1>4, <2>1 DEF Inv, TypeOK
<1>6. Connected'
  BY ONLY <1>1, <1>2, <1>4 DEF Connected
<1>7. \A t \in Session : RegisteredLast(db, t)'
  <2> SUFFICES ASSUME NEW t \in Session, NEW r \in LiveMcp(db', t),
                      auth'[r.conn] = [session |-> t, epoch |-> db'.sess[t].epoch, role |-> "mcp"]
               PROVE  \E m \in LiveMcp(db', t) :
                        m.pid = client'[r.conn] /\ \A q \in LiveMcp(db', t) \ {m} : q.at < m.at
    BY DEF RegisteredLast
  <2> DEFINE badge == [session |-> t, epoch |-> db.sess[t].epoch, role |-> "mcp"]
  <2>1. auth'[r.conn] = badge /\ r \in LiveMcp(db, t)
    BY ONLY <1>3, t \in Session, r \in LiveMcp(db', t),
            auth'[r.conn] = [session |-> t, epoch |-> db'.sess[t].epoch, role |-> "mcp"]
  <2>2. r.conn \in Conn /\ db.sess[t].epoch \in Nat
    BY ONLY <1>2, <2>1, t \in Session DEF LiveMcp, Tables, Component, Row
  <2>3. badge # Null
    <3>1. badge \in [session : Session, epoch : Nat, role : Roles]
      BY ONLY <2>2, t \in Session DEF Roles
    <3> QED
      BY ONLY <3>1, SecretAssumption
  <2> HIDE DEF badge
  <2>4. r.conn # c /\ auth[r.conn] = badge /\ client'[r.conn] = client[r.conn]
    BY ONLY <1>4, <2>1, <2>2, <2>3
  <2>5. PICK m \in LiveMcp(db, t) : m.pid = client[r.conn] /\ \A q \in LiveMcp(db, t) \ {m} : q.at < m.at
    BY ONLY <1>2, <2>1, <2>4, t \in Session DEF RegisteredLast, badge
  <2>6. m.conn = r.conn
    BY ONLY <1>2, <2>1, <2>5, t \in Session DEF Sound, OneLiveOwner
  <2>7. m \in LiveMcp(db', t) /\ LiveMcp(db', t) \subseteq LiveMcp(db, t)
    BY ONLY <1>3, <2>4, <2>5, <2>6, t \in Session
  <2> QED
    BY ONLY <2>4, <2>5, <2>7
<1>8. DormantNameIsKeptStep /\ SecretIsStableStep /\ ReclaimSparesRunningOwnerStep
  BY ONLY <1>3, NamesStay
<1> QED
  BY ONLY <1>3, <1>5, <1>6, <1>7, <1>8 DEF KeepsAll, Inv

(* The steps that leave the tables as they are: a connection opens, a      *)
(* process ends, its pid is given away, the broker dies; and stuttering.   *)
LEMMA OutsideKeepsAll ==
  ASSUME Inv,
         \/ \E p \in Pid : Open(p) \/ ProcessExit(p) \/ PidRecycled(p)
         \/ Crash
         \/ UNCHANGED vars
  PROVE  KeepsAll
<1>1. db' = db /\ Sound(db')
  BY DEF Open, ProcessExit, PidRecycled, Crash, vars, Inv
<1>2. /\ world \in World /\ db \in Tables /\ Connected
      /\ auth \in [Conn -> [session : Session, epoch : Nat, role : Roles] \cup {Null}]
      /\ client \in [Conn -> Pid \cup {Null}]
      /\ seq \in 0 .. MaxConn /\ crashes \in Nat
      /\ TypeOK /\ \A s \in Session : RegisteredLast(db, s)
  BY DEF Inv, TypeOK
<1>3. DormantNameIsKeptStep /\ SecretIsStableStep /\ ReclaimSparesRunningOwnerStep
  BY ONLY <1>1, NamesStay
<1>4. ASSUME NEW p \in Pid, Open(p) PROVE Inv'
  <2>1. seq + 1 \in Conn
    <3>1. seq < world.conn
      BY <1>4, Zenon DEF Open
    <3>2. world.conn \in 0 .. MaxConn
      BY ONLY <1>2, WorldAssumption, Zenon
    <3> QED
      BY ONLY <1>2, <3>1, <3>2, ConnAssumption DEF Conn
  <2>2. client[seq + 1] = Null /\ auth[seq + 1] = Null
    BY ONLY <1>2, <2>1 DEF Connected
  <2>3. /\ client' = [client EXCEPT ![seq + 1] = p] /\ seq' = seq + 1 /\ shown' = Null
        /\ UNCHANGED <<world, db, auth, proc, crashes>>
    BY <1>4, Zenon DEF Open
  <2>4. TypeOK'
    <3>1. client' \in [Conn -> Pid \cup {Null}]
      BY ONLY p \in Pid, <1>2, <2>1, <2>3
    <3>2. seq' \in 0 .. MaxConn
      BY ONLY <1>2, <2>1, <2>3, ConnAssumption DEF Conn
    <3> QED
      BY ONLY <1>2, <2>3, <3>1, <3>2 DEF TypeOK
  <2>5. Connected'
    <3>1. \A c \in Conn : client'[c] = IF c = seq + 1 THEN p ELSE client[c]
      BY ONLY <1>2, <2>3
    <3> QED
      BY ONLY <1>2, <2>1, <2>2, <2>3, <3>1, ConnAssumption DEF Connected, Conn
  <2>6. \A s \in Session : RegisteredLast(db, s)'
    <3> SUFFICES ASSUME NEW s \in Session, NEW r \in LiveMcp(db, s),
                        auth[r.conn] = [session |-> s, epoch |-> db.sess[s].epoch, role |-> "mcp"]
                 PROVE  \E m \in LiveMcp(db, s) :
                          m.pid = client'[r.conn] /\ \A q \in LiveMcp(db, s) \ {m} : q.at < m.at
      BY <2>3 DEF RegisteredLast
    <3>1. r.conn \in Conn /\ db.sess[s].epoch \in Nat
      BY ONLY s \in Session, r \in LiveMcp(db, s), <1>2 DEF LiveMcp, Tables, Component, Row
    <3>2. [session |-> s, epoch |-> db.sess[s].epoch, role |-> "mcp"] \in [session : Session, epoch : Nat, role : Roles]
      BY ONLY s \in Session, <3>1 DEF Roles
    <3>3. r.conn # seq + 1
      BY ONLY <2>2, <3>2, SecretAssumption, auth[r.conn] = [session |-> s, epoch |-> db.sess[s].epoch, role |-> "mcp"]
    <3>4. client'[r.conn] = client[r.conn]
      BY ONLY <1>2, <2>3, <3>1, <3>3
    <3> QED
      BY ONLY s \in Session, r \in LiveMcp(db, s), <1>2, <3>4,
              auth[r.conn] = [session |-> s, epoch |-> db.sess[s].epoch, role |-> "mcp"] DEF RegisteredLast
  <2> QED
    BY ONLY <1>1, <2>4, <2>5, <2>6 DEF Inv
<1>5. ASSUME NEW p \in Pid, ProcessExit(p) \/ PidRecycled(p) PROVE Inv'
  <2>1. UNCHANGED <<world, db, auth, client, seq, crashes>> /\ shown' = Null
    BY ONLY <1>5 DEF ProcessExit, PidRecycled
  <2>2. proc' \in [Pid -> {"running", "gone", "recycled"}]
    BY ONLY <1>2, <1>5 DEF ProcessExit, PidRecycled, TypeOK
  <2>3. TypeOK' /\ Connected'
    BY ONLY <1>2, <2>1, <2>2 DEF TypeOK, Connected
  <2>4. \A s \in Session : RegisteredLast(db, s)'
    BY ONLY <1>2, <2>1 DEF RegisteredLast
  <2> QED
    BY ONLY <1>1, <2>3, <2>4 DEF Inv
<1>6. CASE Crash
  <2>1. TypeOK'
    <3>1. /\ auth' = [c \in Conn |-> Null] /\ client' = [c \in Conn |-> Null] /\ seq' = 0
          /\ crashes' = crashes + 1 /\ shown' = Null /\ UNCHANGED <<world, db, proc>>
      BY <1>6, Zenon DEF Crash
    <3>2. /\ auth' \in [Conn -> [session : Session, epoch : Nat, role : Roles] \cup {Null}]
          /\ client' \in [Conn -> Pid \cup {Null}]
      BY ONLY <3>1, Zenon
    <3>3. seq' \in 0 .. MaxConn /\ crashes' \in Nat
      BY ONLY <1>2, <3>1, ConnAssumption
    <3> QED
      BY ONLY <1>2, <3>1, <3>2, <3>3 DEF TypeOK
  <2>2. Connected'
    BY <1>6, Zenon DEF Crash, Connected
  <2>3. \A s \in Session : RegisteredLast(db, s)'
    <3> SUFFICES ASSUME NEW s \in Session, NEW r \in LiveMcp(db, s),
                        auth'[r.conn] = [session |-> s, epoch |-> db.sess[s].epoch, role |-> "mcp"]
                 PROVE  FALSE
      BY <1>1 DEF RegisteredLast
    <3>1. r.conn \in Conn /\ db.sess[s].epoch \in Nat
      BY ONLY s \in Session, r \in LiveMcp(db, s), <1>2 DEF LiveMcp, Tables, Component, Row
    <3>2. [session |-> s, epoch |-> db.sess[s].epoch, role |-> "mcp"] \in [session : Session, epoch : Nat, role : Roles]
      BY ONLY s \in Session, <3>1 DEF Roles
    <3>3. auth'[r.conn] = Null
      BY ONLY <1>6, <3>1 DEF Crash
    <3> QED
      BY ONLY <3>2, <3>3, SecretAssumption,
              auth'[r.conn] = [session |-> s, epoch |-> db.sess[s].epoch, role |-> "mcp"]
  <2> QED
    BY ONLY <1>1, <1>3, <2>1, <2>2, <2>3 DEF Inv, KeepsAll
<1>7. CASE UNCHANGED vars
  <2>1. TypeOK' /\ Connected'
    BY ONLY <1>2, <1>7 DEF vars, TypeOK, Connected
  <2>2. \A s \in Session : RegisteredLast(db, s)'
    BY ONLY <1>2, <1>7 DEF vars, RegisteredLast
  <2> QED
    BY ONLY <1>1, <1>3, <2>1, <2>2 DEF Inv, KeepsAll
<1> QED
  BY <1>3, <1>4, <1>5, <1>6, <1>7 DEF KeepsAll

(* A routing alias.                                                        *)
LEMMA RegisterAliasKeepsAll ==
  ASSUME Inv, NEW c \in Conn, NEW a \in Alias, RegisterAlias(c, a)
  PROVE  KeepsAll
<1>1. /\ UNCHANGED <<world, auth, client, seq, proc, crashes>> /\ shown' = Null
      /\ db' = [db EXCEPT !.alias = [db.alias EXCEPT ![a] = auth[c].session]]
  BY DEF RegisterAlias
<1>2. db \in Tables /\ Sound(db) /\ auth[c].session \in Session
  BY DEF RegisterAlias, Current, Inv, TypeOK
<1>3. /\ db' \in Tables
      /\ db'.sess = db.sess /\ db'.own = db.own /\ db'.phys = db.phys
      /\ db'.live = db.live /\ db'.clock = db.clock
  <2>1. [db.alias EXCEPT ![a] = auth[c].session] \in [Alias -> Session \cup {Null}]
    BY ONLY a \in Alias, <1>2 DEF Tables
  <2> QED
    BY ONLY <1>1, <1>2, <2>1 DEF Tables
<1>4. SamePlaces(db, db') /\ \A s \in Session : LiveMcp(db', s) = LiveMcp(db, s)
  BY ONLY <1>3 DEF SamePlaces, LiveMcp
<1>5. OwnershipMirrorsNames(db') /\ OneHolderPerName(db') /\ HoldersExist(db')
  <2>1. OwnershipMirrorsNames(db) /\ OneHolderPerName(db) /\ HoldersExist(db)
    BY ONLY <1>2 DEF Sound
  <2> QED
    BY ONLY <1>3, <2>1 DEF OwnershipMirrorsNames, OneHolderPerName, HoldersExist, Exists
<1>6. Sound(db')
  <2>1. EdgesLeadToAwakeSessions(db') /\ RowsAreOfSessions(db') /\ OneLiveOwner(db')
    BY ONLY <1>2, <1>3, <1>4, PlacesStaySound
  <2> QED
    BY ONLY <1>3, <1>5, <2>1 DEF Sound
<1>7. TypeOK' /\ Connected'
  BY ONLY Inv, <1>1, <1>6, RestStays
<1>8. \A s \in Session : RegisteredLast(db, s)'
  BY ONLY Inv, <1>1, <1>3, <1>4, LastStaysRegistered DEF Inv
<1>9. DormantNameIsKeptStep /\ SecretIsStableStep /\ ReclaimSparesRunningOwnerStep
  BY ONLY <1>3, NamesStay
<1> QED
  BY ONLY <1>6, <1>7, <1>8, <1>9 DEF KeepsAll, Inv

-----------------------------------------------------------------------------
(* The theorems.                                                           *)

(* Every step keeps the invariant and what the action properties say.      *)
LEMMA StepKeepsAll == Inv /\ [Next]_vars => KeepsAll
<1> SUFFICES ASSUME Inv, [Next]_vars PROVE KeepsAll
  OBVIOUS
<1>1. ASSUME NEW c \in Conn, NEW s \in world.who, NEW role \in Roles, NEW n \in Name \cup {BadName, Null},
             NEW secret \in MintedSecrets \cup {Null}, NEW supersede \in BOOLEAN,
             Register(c, s, role, n, secret, supersede)
      PROVE  KeepsAll
  BY <1>1, RegisterKeepsAll
<1>2. MintedSecrets \subseteq Secret
  BY DEF MintedSecrets, Secret
<1>3. ASSUME NEW c \in Conn, NEW n \in Name, NEW secret \in MintedSecrets \cup {Null}, RenameSession(c, n, secret)
      PROVE  KeepsAll
  BY <1>2, <1>3, RenameKeepsAll
<1>4. ASSUME NEW c \in Conn, NEW a \in Alias, RegisterAlias(c, a) PROVE KeepsAll
  BY <1>4, RegisterAliasKeepsAll
<1>5. ASSUME NEW s \in Session, NEW n \in Name, OperatorRenameAlias(s, n) PROVE KeepsAll
  BY <1>5, OperatorRenameKeepsAll
<1>6. ASSUME NEW s \in Session, OperatorRemoveRecord(s) PROVE KeepsAll
  BY <1>6, RemoveKeepsAll
<1>7. ASSUME NEW due \in SUBSET Session, NEW lapsed \in SUBSET Session, Sweep(due, lapsed) PROVE KeepsAll
  BY <1>7, SweepKeepsAll
<1>8. ASSUME NEW c \in Conn, Close(c) PROVE KeepsAll
  BY <1>8, CloseKeepsAll
<1> QED
  BY <1>1, <1>3, <1>4, <1>5, <1>6, <1>7, <1>8, OutsideKeepsAll, Zenon DEF Next

(* In every reachable state the names of the sessions and the active rows  *)
(* of name_ownership are one relation, a name has one holder, edges of the *)
(* redirect map lead to sessions that are awake, and the components that   *)
(* may write for a session are of one connection.                          *)
THEOREM NamesStaySound == Spec => []NamesAreSound
<1>1. Inv => NamesAreSound
  BY DEF Inv, Sound, NamesAreSound
<1>2. Inv /\ [Next]_vars => Inv'
  BY StepKeepsAll DEF KeepsAll
<1> QED
  BY <1>1, <1>2, InitInv, PTL DEF Spec

(* No step takes a protected name from a dormant session without its       *)
(* secret, and none replaces the secret of an identity that exists.        *)
THEOREM NamesAreNeverLost == Spec => NamesAreKept
<1>1. Inv /\ [Next]_vars => [DormantNameIsKeptStep /\ SecretIsStableStep]_vars
  BY StepKeepsAll DEF KeepsAll
<1>2. Inv /\ [Next]_vars => Inv'
  BY StepKeepsAll DEF KeepsAll
<1> QED
  BY <1>1, <1>2, InitInv, PTL DEF Spec, NamesAreKept

(* No registration takes over, with the owner secret, a session whose      *)
(* component is registered and runs.                                       *)
THEOREM RunningOwnerIsSpared == Spec => ReclaimSparesRunningOwner
<1>1. Inv /\ [Next]_vars => [ReclaimSparesRunningOwnerStep]_vars
  BY StepKeepsAll DEF KeepsAll
<1>2. Inv /\ [Next]_vars => Inv'
  BY StepKeepsAll DEF KeepsAll
<1> QED
  BY <1>1, <1>2, InitInv, PTL DEF Spec, ReclaimSparesRunningOwner

-----------------------------------------------------------------------------
(* What the comments of the code say and the code does not keep.           *)

(* The connections that may write for s: open, registered as mcp, in the   *)
(* current epoch.                                                          *)
Writers(s) == {c \in Conn : Current(c) /\ auth[c].session = s /\ auth[c].role = "mcp"}

(* store.ts: removal refuses to remove a live session.                     *)
LiveSessionIsNotRemoved ==
  [][\A s \in Session : Exists(db, s) /\ ~Exists(db', s) => Writers(s) = {}]_vars

(* store.ts: at most one live writable component per session epoch.        *)
OneWriterPerEpoch == \A s \in Session : Cardinality(Writers(s)) <= 1

(* store.ts: a predecessor whose process is gone does not block a reclaim. *)
DeadOwnerNeverBlocks ==
  \A s \in Session :
    hasProvenLiveMcp(db, s) =>
      \/ Writers(s) # {}
      \/ \E r \in LiveMcp(db, s) : proc[r.pid] = "running"

(* mcp-server.ts: after a broker restart the server of a session registers *)
(* again and joins the current epoch.                                      *)
OwnClientRejoins ==
  \A c \in Conn, s \in Session :
    client[c] # Null /\ auth[c] = Null /\ Writers(Redirect(db, s)) = {}
    => Registered(db, c, s, "mcp", Null, Null, FALSE).ok

(* reaper.ts: the aliases of an expired session return to the pool.        *)
ExpiredHoldsNoAlias ==
  \A a \in Alias : db.alias[a] # Null => ~db.sess[db.alias[a]].expired

-----------------------------------------------------------------------------
(* The instance.                                                           *)

CONSTANTS alice, bob, carol, api, auto, team, p1

People == {alice, bob, carol}

OneAutoAlias == [s \in People |-> auto]

TwoWorlds ==
  {[who |-> {alice, bob}, legacy |-> {}, user |-> {}, conn |-> 3, epoch |-> 3, mint |-> 1, crash |-> 0],
   [who |-> {carol}, legacy |-> {<<carol, api>>}, user |-> {team}, conn |-> 2, epoch |-> 2, mint |-> 2,
    crash |-> 1]}

(* The sessions of the first world are interchangeable.                    *)
Symmetry == Permutations({alice, bob})
=============================================================================
