---------------------------- MODULE IdentityStore ----------------------------
(***************************************************************************)
(* The tables behind Identity and the operations of the store on them      *)
(* (broker/store.ts, broker/reaper.ts): sessions, name_ownership, the      *)
(* redirect map, aliases and the rows of live components.                  *)
(*                                                                         *)
(* A store operation is one SQLite transaction, so the tables are one      *)
(* record d, with the fields sess, own, phys, alias, live, minted and      *)
(* clock, and an operation is a function from d to d.  Two things are read *)
(* that are not in the tables: the process at the other end of a           *)
(* connection, and whether a process is alive.                             *)
(***************************************************************************)
EXTENDS Naturals

CONSTANTS
  Session,      \* session ids; also the physical ids clients present
  Name,         \* valid normalized names
  BadName,      \* a requested name that validateSessionName refuses
  Alias,        \* routing aliases
  AutoAlias,    \* the automatic alias of each session (may collide)
  Pid,          \* client processes
  Null,
  MaxConn       \* bound: connections per broker process

(* Null stands for the absent value of a column.                           *)
ASSUME NullAssumption == Null \notin Session \cup Name \cup Pid \cup Alias /\ BadName \notin Name

Conn == 1 .. MaxConn

Roles == {"mcp", "hook"}

(* An owner secret: the session it was minted for and the mint it was.     *)
Secret == Session \X Nat

(* A secret, and a registration, is not Null.                              *)
ASSUME SecretAssumption ==
  Null \notin Secret /\ Null \notin [session : Session, epoch : Nat, role : Roles]

ASSUME ConnAssumption == MaxConn \in Nat

ASSUME AliasAssumption == AutoAlias \in [Session -> Alias]

VARIABLES
  client,    \* the process at the other end of each open connection
  proc       \* what is behind each pid

NoRow == [epoch |-> 0, state |-> "disconnected", bound |-> 0, expired |-> FALSE,
          nstate |-> "unnamed", name |-> Null, ttl |-> FALSE]

NoOwnership == [state |-> "none", name |-> Null, secret |-> Null]

Exists(d, s) == d.sess[s].epoch > 0

(* The session other than s that holds the name n.                         *)
Taken(d, s, n) ==
  \E t \in Session \ {s} : d.sess[t].name = n /\ d.sess[t].nstate \in {"active", "pending"}

(* The row of name_ownership an active name leads to.                      *)
OwnerOf(d, n) == {t \in Session : d.own[t].name = n /\ d.own[t].state = "active"}

-----------------------------------------------------------------------------
(* Names.                                                                  *)

setNameOwnershipReleased(d, s) ==
  IF d.own[s].state = "none" THEN d
  ELSE [d EXCEPT !.own[s] = [@ EXCEPT !.state = "released", !.name = Null]]

(* releaseNameOwnership in its other form: every holder of n but s.        *)
releaseOthers(d, s, n) ==
  [d EXCEPT !.own = [t \in Session |->
     IF t # s /\ d.own[t].name = n
     THEN [d.own[t] EXCEPT !.state = "released", !.name = Null] ELSE d.own[t]]]

(* Mutant: a new secret for every award, not only for the first.           *)
MutSetNameOwnershipActive(d, s, n) ==
  LET k == d.minted[s] + 1
  IN [releaseOthers(d, s, n) EXCEPT
        !.own[s] = [state |-> "active", name |-> n, secret |-> <<s, k>>],
        !.minted[s] = k]

setNameOwnershipActive(d, s, n) ==
  LET k      == d.minted[s] + 1
      mint   == d.own[s].secret = Null
      secret == IF mint THEN <<s, k>> ELSE d.own[s].secret
  IN [releaseOthers(d, s, n) EXCEPT
        !.own[s] = [state |-> "active", name |-> n, secret |-> secret],
        !.minted[s] = IF mint THEN k ELSE @]

(* The columns of the sessions table that hold the name.                   *)
SetName(d, s, nstate, n, ttl) ==
  [d EXCEPT !.sess[s] = [@ EXCEPT !.nstate = nstate, !.name = n, !.ttl = ttl]]

(* The name is written with its ownership, and goes with it.               *)
Named(d, s, n) == setNameOwnershipActive(SetName(d, s, "active", n, FALSE), s, n)

Unnamed(d, s, nstate, ttl) == setNameOwnershipReleased(SetName(d, s, nstate, Null, ttl), s)

markPending(d, s) == Unnamed(d, s, "pending", TRUE)

(* Mutant: the name of a dormant session counts as free.                   *)
MutClaimNameForRegister(d, s, n) ==
  IF n = Null THEN d
  ELSE IF n = BadName \/ \E t \in Session \ {s} : d.sess[t].name = n /\ ~d.sess[t].expired
       THEN markPending(d, s)
  ELSE Named(d, s, n)

claimNameForRegister(d, s, n) ==
  IF n = Null THEN d
  ELSE IF n = BadName \/ Taken(d, s, n) THEN markPending(d, s)
  ELSE Named(d, s, n)

(* upsertAutomaticAliasSafe: taken by another session, it is left alone.   *)
upsertAutomaticAlias(d, s) ==
  IF d.alias[AutoAlias[s]] = Null THEN [d EXCEPT !.alias[AutoAlias[s]] = s] ELSE d

-----------------------------------------------------------------------------
(* Liveness and reclaim.                                                   *)

LiveMcp(d, s) ==
  {r \in d.live : r.session = s /\ r.epoch = d.sess[s].epoch /\ r.role = "mcp"}

(* The row that connected last.                                            *)
Newest(rows) == CHOOSE r \in rows : \A q \in rows : q.at <= r.at

(* pidIsAlive: a pid the system has given to another process is alive too; *)
(* no creation time is recorded for a component, so classifyLiveness has   *)
(* nothing to compare and answers "inconclusive" for every live pid.       *)
ProvenDead(p) == proc[p] = "gone"

(* Mutant: the liveness of the incumbent is not looked at.                 *)
MutHasProvenLiveMcp(d, s) == d.sess[s].state # "disconnected" /\ LiveMcp(d, s) # {}

hasProvenLiveMcp(d, s) ==
  /\ LiveMcp(d, s) # {}
  /\ \/ d.sess[s].state # "disconnected"
     \/ ~ProvenDead(Newest(LiveMcp(d, s)).pid)

(* resolveReclaim: the sessions (at most one) that the name and the secret *)
(* give the caller.                                                        *)
resolveReclaim(d, n, secret, s) ==
  {t \in OwnerOf(d, n) \ {s} :
     /\ secret # Null
     /\ d.own[t].secret = secret
     /\ ~hasProvenLiveMcp(d, t)}

-----------------------------------------------------------------------------
(* Registration.                                                           *)

(* The edge of the redirect map, followed only to a session that exists    *)
(* and is not dormant.                                                     *)
Redirect(d, s) ==
  LET t == d.phys[s]
  IN IF t # Null /\ t # s /\ Exists(d, t) /\ ~d.sess[t].expired THEN t ELSE s

Purged(d, s) ==
  LET t == d.phys[s]
  IN IF t # Null /\ (~Exists(d, t) \/ d.sess[t].expired)
     THEN [d EXCEPT !.phys[s] = Null] ELSE d

RegisterFirst(d, t, c) ==
  upsertAutomaticAlias(
    [d EXCEPT !.sess[t] = [NoRow EXCEPT !.epoch = 1, !.state = "connected", !.bound = c]], t)

(* A new epoch, in which the components of the old one are closed.         *)
NewEpoch(d, t) ==
  [d EXCEPT !.sess[t] = [@ EXCEPT !.epoch = d.sess[t].epoch + 1, !.state = "connected", !.expired = FALSE],
            !.live = {r \in @ : r.session # t}]

(* Mutant: the ownership row of the name that is dropped stays active.     *)
MutRegisterFresh(d, t) == SetName(NewEpoch(d, t), t, "unnamed", Null, FALSE)

(* Takeover and resume of an expired session.  The bound connection is not *)
(* among the columns this branch writes.                                   *)
RegisterFresh(d, t) ==
  LET e == Unnamed(NewEpoch(d, t), t, "unnamed", FALSE)
  IN IF d.sess[t].expired THEN upsertAutomaticAlias(e, t) ELSE e

(* Mutant: a second mcp component joins whatever connection the first has. *)
MutOtherOwner(d, t, c) == FALSE

(* The split-brain guard of a joining mcp component.                       *)
OtherOwner(d, t, c) == \E r \in LiveMcp(d, t) : r.conn # c

RegisterJoin(d, t, c) ==
  LET bound == IF d.sess[t].bound = 0 THEN c ELSE d.sess[t].bound
  IN [d EXCEPT !.sess[t] = [@ EXCEPT !.state = "connected", !.bound = bound]]

(* The row of the component that registers, stamped with the time.         *)
Joined(d, t, c, role) ==
  [d EXCEPT !.clock = @ + 1,
            !.live = @ \cup {[conn |-> c, pid |-> client[c], session |-> t,
                              epoch |-> d.sess[t].epoch, role |-> role, at |-> d.clock + 1]}]

(* register, whole: redirect, reclaim, one of the three branches, the      *)
(* component row, the name.  A refused registration changes nothing.       *)
Registered(d, c, s, role, n, secret, supersede) ==
  LET d0      == Purged(d, s)
      reclaim == IF role = "mcp" THEN resolveReclaim(d0, n, secret, s) ELSE {}
      t       == IF reclaim # {} THEN CHOOSE u \in reclaim : TRUE ELSE Redirect(d0, s)
      d1      == IF reclaim # {} THEN [d0 EXCEPT !.phys[s] = t] ELSE d0
      first   == ~Exists(d1, t)
      fresh   == ~first /\ (supersede \/ reclaim # {} \/ d1.sess[t].expired)
      d2      == IF first THEN RegisterFirst(d1, t, c)
                 ELSE IF fresh THEN RegisterFresh(d1, t) ELSE RegisterJoin(d1, t, c)
      d3      == Joined(d2, t, c, role)
      claims  == first \/ fresh \/ d3.sess[t].nstate = "unnamed"
  IN [ok    |-> first \/ fresh \/ role # "mcp" \/ ~OtherOwner(d1, t, c),
      fresh |-> fresh,
      as    |-> t,
      db    |-> IF claims THEN claimNameForRegister(d3, t, n) ELSE d3]

-----------------------------------------------------------------------------
(* Renames, removal, expiry and the close of a connection.                 *)

(* The incumbent of the name loses it.                                     *)
Dispossessed(d, s, t, n) ==
  [releaseOthers(d, s, n) EXCEPT !.sess[t] = [@ EXCEPT !.name = Null, !.nstate = "unnamed"]]

(* Mutant: the incumbent is released whatever secret was presented.        *)
MutReclaimedByRename(d, s, n, secret) ==
  IF ~Taken(d, s, n) THEN {d}
  ELSE {Dispossessed(d, s, t, n) : t \in {u \in OwnerOf(d, n) \ {s} : ~hasProvenLiveMcp(d, u)}}

(* The database once a taken name has been reclaimed with its secret; the  *)
(* empty set when the rename is refused.                                   *)
ReclaimedByRename(d, s, n, secret) ==
  IF ~Taken(d, s, n) THEN {d}
  ELSE {Dispossessed(d, s, t, n) :
          t \in {u \in OwnerOf(d, n) : /\ secret # Null
                                       /\ d.own[u].secret = secret
                                       /\ ~hasProvenLiveMcp(d, u)}}

(* A rename of an expired session resumes it, in the epoch it was in.      *)
Awake(d, s) ==
  IF d.sess[s].expired
  THEN upsertAutomaticAlias([d EXCEPT !.sess[s] = [@ EXCEPT !.expired = FALSE]], s) ELSE d

(* Mutant: removal leaves the redirect map as it is.                       *)
MutWithoutEdges(d, gone) == d

(* The redirect map without the edges that lead from or to those gone.     *)
WithoutEdges(d, gone) ==
  [d EXCEPT !.phys = [p \in Session |-> IF {p, d.phys[p]} \cap gone # {} THEN Null ELSE d.phys[p]]]

WithoutAliases(d, gone) ==
  [d EXCEPT !.alias = [a \in Alias |-> IF d.alias[a] \in gone THEN Null ELSE d.alias[a]]]

Removed(d, s) ==
  [WithoutAliases(WithoutEdges(d, {s}), {s}) EXCEPT
     !.sess[s] = NoRow, !.own[s] = NoOwnership, !.live = {r \in @ : r.session # s}]

(* The reaper: expiry keeps the name and its ownership.                    *)
reapExpiredSessions(d, due) ==
  [WithoutAliases(WithoutEdges(d, due), due) EXCEPT
     !.sess = [s \in Session |-> IF s \in due THEN [d.sess[s] EXCEPT !.expired = TRUE, !.ttl = FALSE]
                                             ELSE d.sess[s]],
     !.live = {r \in @ : r.session \notin due}]

reapStalePendingNames(d, lapsed) ==
  [d EXCEPT !.sess = [s \in Session |->
     IF s \in lapsed /\ d.sess[s].nstate = "pending" /\ d.sess[s].ttl
     THEN [d.sess[s] EXCEPT !.nstate = "unnamed", !.name = Null, !.ttl = FALSE]
     ELSE d.sess[s]]]

(* The session is marked disconnected only if this is the connection it is *)
(* bound to; the component rows of the connection go.                      *)
Left(d, s, c) ==
  LET row == d.sess[s]
  IN [d EXCEPT !.sess[s] = IF row.bound = c THEN [row EXCEPT !.state = "disconnected", !.bound = 0] ELSE row,
               !.live = {r \in @ : r.conn # c}]

-----------------------------------------------------------------------------
(* What the tables say of themselves after every operation.                *)

Row == [epoch : Nat, state : {"connected", "disconnected"}, bound : Nat, expired : BOOLEAN,
        nstate : {"unnamed", "pending", "active"}, name : Name \cup {Null}, ttl : BOOLEAN]

Ownership == [state : {"none", "active", "released"}, name : Name \cup {Null}, secret : Secret \cup {Null}]

Component == [conn : Conn, pid : Pid, session : Session, epoch : Nat, role : Roles, at : Nat]

Tables == [sess : [Session -> Row], own : [Session -> Ownership], phys : [Session -> Session \cup {Null}],
           alias : [Alias -> Session \cup {Null}], live : SUBSET Component, clock : Nat,
           minted : [Session -> Nat]]

(* The names of the sessions table and the active rows of name_ownership   *)
(* are the same relation, whatever claims, renames, reclaims, takeovers,   *)
(* expiries and removals came before.                                      *)
OwnershipMirrorsNames(d) ==
  \A s \in Session :
    /\ (d.own[s].state = "active") <=> (d.sess[s].nstate = "active")
    /\ d.own[s].name = d.sess[s].name
    /\ (d.sess[s].name # Null) <=> (d.sess[s].nstate = "active")

(* A name, a dormant one included, leads to one session: the pre-checks    *)
(* alone keep the unique index from ever being hit.                        *)
OneHolderPerName(d) ==
  \A s, t \in Session : s # t /\ d.sess[s].name # Null => d.sess[s].name # d.sess[t].name

(* An edge of the redirect map leads to a session that exists and is not   *)
(* dormant: no registration without a secret is led to an identity that    *)
(* expired or was removed.                                                 *)
EdgesLeadToAwakeSessions(d) ==
  \A p \in Session : d.phys[p] # Null => Exists(d, d.phys[p]) /\ ~d.sess[d.phys[p]].expired

(* The live rows of a session in its current epoch that may write are of   *)
(* one connection.                                                         *)
OneLiveOwner(d) ==
  \A s \in Session : \A q, r \in LiveMcp(d, s) : q.conn = r.conn

(* A row of a live component is of a session that exists, and was stamped  *)
(* by now.                                                                 *)
RowsAreOfSessions(d) == \A r \in d.live : Exists(d, r.session) /\ r.at <= d.clock

(* Only a session that exists is dormant or has a name.                    *)
HoldersExist(d) ==
  \A s \in Session : d.sess[s].expired \/ d.sess[s].nstate = "active" => Exists(d, s)

Sound(d) ==
  /\ d \in Tables
  /\ OwnershipMirrorsNames(d) /\ OneHolderPerName(d) /\ EdgesLeadToAwakeSessions(d)
  /\ RowsAreOfSessions(d) /\ HoldersExist(d) /\ OneLiveOwner(d)
==============================================================================
