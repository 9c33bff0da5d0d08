------------------------------ MODULE Identity ------------------------------
(***************************************************************************)
(* Who a connection speaks for: registration, epochs, session names, the   *)
(* ownership table that protects them, the redirect map of reclaimed       *)
(* identities, routing aliases, and the live component rows of the         *)
(* split-brain guard (broker/store.ts, broker/daemon.ts, broker/reaper.ts).*)
(*                                                                         *)
(* The tables are the record db of IdentityStore.  Connections, the        *)
(* authority each holds, and the client processes live beside it; a crash  *)
(* of the broker loses them and keeps db.  Connection ids restart at 1     *)
(* with the broker, as IpcServer.seq does.                                 *)
(*                                                                         *)
(* Time is left open: a sweep may find any set of sessions idle for the    *)
(* retention period and any set of pending reservations lapsed.  A         *)
(* behaviour belongs to a world, which says who comes, which names are     *)
(* older than owner secrets, and how far it is followed.                   *)
(***************************************************************************)
EXTENDS IdentityStore

CONSTANT World   \* the worlds that are looked at

(* A world: the sessions that come, the names held without a secret since  *)
(* before schema 10 (one per session and one holder each, as the unique    *)
(* index has it), the aliases a session may ask for, and the bounds on     *)
(* connections per broker process, epochs and secrets per session, and     *)
(* crashes of the broker.                                                  *)
ASSUME WorldAssumption ==
  \A w \in World :
    /\ w.who \subseteq Session /\ w.user \subseteq Alias
    /\ w.legacy \subseteq Session \X Name
    /\ \A l, m \in w.legacy : l[1] = m[1] <=> l[2] = m[2]
    /\ w.conn \in 0 .. MaxConn

VARIABLES
  world,     \* the world of this behaviour
  db,        \* the tables
  auth,      \* connAuth: the authority of each registered connection
  seq,       \* connections accepted by this broker process
  crashes,
  shown      \* the owner secret the last rename carried (no code reads it)

vars == <<world, db, auth, client, seq, proc, crashes, shown>>

Bounded(d) ==
  \A s \in Session : d.sess[s].epoch <= world.epoch /\ d.minted[s] <= world.mint

Register(c, s, role, n, secret, supersede) ==
  LET r == Registered(db, c, s, role, n, secret, supersede)
  IN /\ client[c] # Null /\ auth[c] = Null
     /\ r.ok
     /\ Bounded(r.db)
     /\ db' = r.db
     /\ auth' = [auth EXCEPT ![c] = [session |-> r.as, epoch |-> r.db.sess[r.as].epoch, role |-> role]]
     /\ shown' = Null
     /\ UNCHANGED <<world, client, seq, proc, crashes>>

-----------------------------------------------------------------------------
(* Operations of a registered connection, and of the operator.             *)

Current(c) ==
  /\ auth[c] # Null
  /\ Exists(db, auth[c].session)
  /\ db.sess[auth[c].session].epoch = auth[c].epoch

RenameSession(c, n, secret) ==
  /\ Current(c) /\ auth[c].role = "mcp"
  /\ \E d \in ReclaimedByRename(db, auth[c].session, n, secret) :
       db' = Named(Awake(d, auth[c].session), auth[c].session, n)
  /\ Bounded(db')
  /\ shown' = secret
  /\ UNCHANGED <<world, auth, client, seq, proc, crashes>>

RegisterAlias(c, a) ==
  /\ Current(c) /\ a \in world.user
  /\ db.alias[a] = Null
  /\ db' = [db EXCEPT !.alias[a] = auth[c].session]
  /\ shown' = Null
  /\ UNCHANGED <<world, auth, client, seq, proc, crashes>>

OperatorRenameAlias(s, n) ==
  /\ Exists(db, s) /\ ~Taken(db, s, n)
  /\ db' = Named(db, s, n)
  /\ Bounded(db')
  /\ shown' = Null
  /\ UNCHANGED <<world, auth, client, seq, proc, crashes>>

OperatorRemoveRecord(s) ==
  /\ Exists(db, s) /\ db.sess[s].state # "connected"
  /\ db' = Removed(db, s)
  /\ shown' = Null
  /\ UNCHANGED <<world, auth, client, seq, proc, crashes>>

-----------------------------------------------------------------------------
(* The reaper: sessions expire, reservations of names lapse.               *)

Sweep(due, lapsed) ==
  /\ \A s \in due : Exists(db, s) /\ ~db.sess[s].expired
  /\ \A s \in lapsed : db.sess[s].nstate = "pending" /\ db.sess[s].ttl
  /\ due \cup lapsed # {}
  /\ db' = reapStalePendingNames(reapExpiredSessions(db, due), lapsed)
  /\ shown' = Null
  /\ UNCHANGED <<world, auth, client, seq, proc, crashes>>

-----------------------------------------------------------------------------
(* Connections and processes.                                              *)

Open(p) ==
  /\ proc[p] = "running" /\ seq < world.conn
  /\ seq' = seq + 1
  /\ client' = [client EXCEPT ![seq + 1] = p]
  /\ shown' = Null
  /\ UNCHANGED <<world, db, auth, proc, crashes>>

(* onConnClose.                                                            *)
Close(c) ==
  /\ client[c] # Null
  /\ client' = [client EXCEPT ![c] = Null]
  /\ auth' = [auth EXCEPT ![c] = Null]
  /\ db' = IF auth[c] = Null THEN db ELSE Left(db, auth[c].session, c)
  /\ shown' = Null
  /\ UNCHANGED <<world, seq, proc, crashes>>

(* The broker dies: no close handler runs, and nothing in the next start   *)
(* goes over the rows that were live.                                      *)
Crash ==
  /\ crashes < world.crash
  /\ crashes' = crashes + 1
  /\ seq' = 0
  /\ auth' = [c \in Conn |-> Null]
  /\ client' = [c \in Conn |-> Null]
  /\ shown' = Null
  /\ UNCHANGED <<world, db, proc>>

(* A client process ends; the broker sees its sockets close afterwards.    *)
ProcessExit(p) ==
  /\ proc[p] = "running"
  /\ proc' = [proc EXCEPT ![p] = "gone"]
  /\ shown' = Null
  /\ UNCHANGED <<world, db, auth, client, seq, crashes>>

(* The system gives the pid to an unrelated process.                       *)
PidRecycled(p) ==
  /\ proc[p] = "gone" /\ \A c \in Conn : client[c] # p
  /\ proc' = [proc EXCEPT ![p] = "recycled"]
  /\ shown' = Null
  /\ UNCHANGED <<world, db, auth, client, seq, crashes>>

-----------------------------------------------------------------------------
(* The name a session holds at first, if any.                              *)
Legacy(s) == {n \in Name : <<s, n>> \in world.legacy}

Init ==
  /\ world \in World
  /\ db = [sess |-> [s \in Session |->
             IF Legacy(s) # {}
             THEN [NoRow EXCEPT !.epoch = 1, !.nstate = "active", !.name = CHOOSE n \in Legacy(s) : TRUE]
             ELSE NoRow],
           own |-> [s \in Session |->
             IF Legacy(s) # {}
             THEN [state |-> "active", name |-> CHOOSE n \in Legacy(s) : TRUE, secret |-> Null]
             ELSE NoOwnership],
           phys |-> [s \in Session |-> Null],
           alias |-> [a \in Alias |-> Null],
           live |-> {},
           clock |-> 0,
           minted |-> [s \in Session |-> 0]]
  /\ auth = [c \in Conn |-> Null]
  /\ client = [c \in Conn |-> Null]
  /\ seq = 0
  /\ proc = [p \in Pid |-> "running"]
  /\ crashes = 0
  /\ shown = Null

MintedSecrets == UNION {{<<s, k>> : k \in 1 .. db.minted[s]} : s \in Session}

Next ==
  \/ \E c \in Conn, s \in world.who, role \in Roles, n \in Name \cup {BadName, Null},
        secret \in MintedSecrets \cup {Null}, supersede \in BOOLEAN :
       Register(c, s, role, n, secret, supersede)
  \/ \E c \in Conn, n \in Name, secret \in MintedSecrets \cup {Null} : RenameSession(c, n, secret)
  \/ \E c \in Conn, a \in Alias : RegisterAlias(c, a)
  \/ \E s \in Session, n \in Name : OperatorRenameAlias(s, n)
  \/ \E s \in Session : OperatorRemoveRecord(s)
  \/ \E due, lapsed \in SUBSET Session : Sweep(due, lapsed)
  \/ \E p \in Pid : Open(p) \/ ProcessExit(p) \/ PidRecycled(p)
  \/ \E c \in Conn : Close(c)
  \/ Crash

Spec == Init /\ [][Next]_vars

-----------------------------------------------------------------------------
(* Properties.                                                             *)

(* The tables and the connection maps keep their shapes.                   *)
TypeOK ==
  /\ world \in World /\ db \in Tables
  /\ auth \in [Conn -> [session : Session, epoch : Nat, role : Roles] \cup {Null}]
  /\ client \in [Conn -> Pid \cup {Null}]
  /\ proc \in [Pid -> {"running", "gone", "recycled"}]
  /\ seq \in 0 .. MaxConn /\ crashes \in Nat /\ shown \in Secret \cup {Null}

(* Whatever claims, renames, reclaims, takeovers, expiries and removals    *)
(* came before (store.ts): the names of the sessions and the active rows   *)
(* of name_ownership are one relation, a name leads to one session, an     *)
(* edge of the redirect map to a session that exists and is awake, and the *)
(* live components that may write for a session are of one connection.     *)
NamesAreSound ==
  /\ OwnershipMirrorsNames(db) /\ OneHolderPerName(db)
  /\ EdgesLeadToAwakeSessions(db) /\ OneLiveOwner(db)

(* A protected name held by a dormant session leaves it only when the      *)
(* session comes back in a new epoch, renames itself or is removed, or by  *)
(* a rename that presents its secret.                                      *)
DormantNameIsKeptStep ==
  \A s \in Session :
    LET row == db.sess[s]
    IN row.expired /\ row.nstate = "active" /\ db.own[s].secret # Null /\ db'.sess[s].name # row.name
       => \/ ~Exists(db', s)
          \/ db'.sess[s].epoch > row.epoch
          \/ db'.sess[s].nstate = "active"
          \/ shown' = db.own[s].secret

(* The secret of an identity is never replaced while the identity exists:  *)
(* a client that stored the first one is never locked out.                 *)
SecretIsStableStep ==
  \A s \in Session :
    db.own[s].secret # Null /\ Exists(db', s) => db'.own[s].secret = db.own[s].secret

(* A protected name held by a dormant session leaves it only when the      *)
(* session comes back, renames itself or is removed, or by a rename that   *)
(* presents its secret; and the secret of an identity is never replaced    *)
(* while the identity exists, so nobody who stored it is locked out.       *)
NamesAreKept == [][DormantNameIsKeptStep /\ SecretIsStableStep]_vars

(* The connection and the process of a component that is registered.       *)
Runs(r) ==
  /\ auth[r.conn] = [session |-> r.session, epoch |-> r.epoch, role |-> r.role]
  /\ client[r.conn] = r.pid /\ proc[r.pid] = "running"

(* A reclaim under another id never takes a session from a live component  *)
(* that is registered and whose process runs.                              *)
ReclaimSparesRunningOwnerStep ==
  \A p, t \in Session :
    db'.phys[p] = t /\ db.phys[p] # t => \A r \in LiveMcp(db, t) : ~Runs(r)

ReclaimSparesRunningOwner == [][ReclaimSparesRunningOwnerStep]_vars

-----------------------------------------------------------------------------
(* Why these hold: what the tables say of each other after every store     *)
(* operation, and of the connections that are registered.                  *)

(* If one of the rows that may write for s is of a registered connection,  *)
(* that connection made the row that connected last.                       *)
RegisteredLast(d, s) ==
  \A r \in LiveMcp(d, s) :
    auth[r.conn] = [session |-> s, epoch |-> d.sess[s].epoch, role |-> "mcp"]
    => \E m \in LiveMcp(d, s) : m.pid = client[r.conn] /\ \A q \in LiveMcp(d, s) \ {m} : q.at < m.at

Connected == \A c \in Conn : /\ auth[c] # Null => client[c] # Null
                             /\ client[c] # Null => c <= seq

Inv == TypeOK /\ Sound(db) /\ Connected /\ \A s \in Session : RegisteredLast(db, s)
=============================================================================
