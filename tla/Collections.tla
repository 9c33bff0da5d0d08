---------------------------- MODULE Collections -----------------------------
(***************************************************************************)
(* Collections of agents: the dashboard tabs that edit them and the broker *)
(* table they share (dashboard/static/collections.js and agents.js,        *)
(* broker/store.ts, broker/daemon.ts).                                     *)
(*                                                                         *)
(* A tab holds a whole state, changes its own copy and posts all of it;    *)
(* the broker replaces the table by what arrives.  Posts are not awaited,  *)
(* so several are under way at a time and may arrive in any order or not   *)
(* at all.  Collection ids are random, here numbers never used before.     *)
(***************************************************************************)
EXTENDS Naturals, FiniteSets

CONSTANTS
  Tab,      \* browser tabs
  Agent,    \* agents an operator may group
  Name,     \* normalized collection names
  MaxId,    \* bound: collections ever created
  MaxPost   \* bound: posts under way

Id == 1 .. MaxId

VARIABLES
  table,    \* the collections and collection_members tables
  agents,   \* the agents whose record has not been removed
  tab,      \* per tab: its phase and the state it shows
  posts,    \* posts under way: pairs of tab and payload
  lastId,
  deleted   \* collections an operator deleted (no code reads it)

vars == <<table, agents, tab, posts, lastId, deleted>>

emptyState == [names |-> << >>, members |-> {}]

Ids(st) == DOMAIN st.names

normalize(st) == [st EXCEPT !.members = {m \in @ : m[2] \in Ids(st)}]

Init ==
  /\ table = emptyState
  /\ agents = Agent
  /\ tab = [t \in Tab |-> [phase |-> "probing", state |-> emptyState]]
  /\ posts = {}
  /\ lastId = 0
  /\ deleted = {}

-----------------------------------------------------------------------------
(* The edits of a tab, on the state it shows.                              *)

Created(st, n) ==
  IF \E i \in Ids(st) : st.names[i] = n THEN st
  ELSE [st EXCEPT !.names = [i \in Ids(st) \cup {lastId + 1} |->
                              IF i = lastId + 1 THEN n ELSE st.names[i]]]

renameCollection(st, i, n) == [st EXCEPT !.names[i] = n]

(* Mutant: the members of the deleted collection are kept.                 *)
MutDeleteCollection(st, i) == [st EXCEPT !.names = [j \in Ids(st) \ {i} |-> st.names[j]]]

deleteCollection(st, i) ==
  normalize([st EXCEPT !.names = [j \in Ids(st) \ {i} |-> st.names[j]]])

addMember(st, i, a) == [st EXCEPT !.members = @ \cup {<<a, i>>}]

removeMember(st, i, a) == [st EXCEPT !.members = @ \ {<<a, i>>}]

(* Every edit persists, a create that found the name included.  Before the *)
(* probe has answered the store is the localStorage of the browser, which  *)
(* nothing reads once the server store is chosen.                          *)
Persist(t, st) ==
  /\ tab' = [tab EXCEPT ![t].state = st]
  /\ IF tab[t].phase = "probing" THEN UNCHANGED posts
     ELSE Cardinality(posts) < MaxPost /\ posts' = posts \cup {<<t, normalize(st)>>}

CreateCollection(t, n) ==
  /\ lastId < MaxId
  /\ Persist(t, Created(tab[t].state, n))
  /\ lastId' = IF \E i \in Ids(tab[t].state) : tab[t].state.names[i] = n THEN lastId ELSE lastId + 1
  /\ UNCHANGED <<table, agents, deleted>>

Edit(t, i) ==
  LET st == tab[t].state IN
  /\ i \in Ids(st)
  /\ \/ \E n \in Name : Persist(t, renameCollection(st, i, n))
     \/ \E a \in agents : Persist(t, IF <<a, i>> \in st.members THEN removeMember(st, i, a)
                                                             ELSE addMember(st, i, a))
  /\ UNCHANGED <<table, agents, lastId, deleted>>

DeleteCollection(t, i) ==
  /\ i \in Ids(tab[t].state)
  /\ Persist(t, deleteCollection(tab[t].state, i))
  /\ deleted' = deleted \cup {i}
  /\ UNCHANGED <<table, agents, lastId>>

(* The probe finds the endpoint and the tab starts to load.                *)
ChooseServerStore(t) ==
  /\ tab[t].phase = "probing"
  /\ tab' = [tab EXCEPT ![t].phase = "loading"]
  /\ UNCHANGED <<table, agents, posts, lastId, deleted>>

(* The answer of the load; a failed read is an empty state.                *)
Loaded(t) ==
  /\ tab[t].phase = "loading"
  /\ \E st \in {normalize(table), emptyState} : tab' = [tab EXCEPT ![t] = [phase |-> "ready", state |-> st]]
  /\ UNCHANGED <<table, agents, posts, lastId, deleted>>

-----------------------------------------------------------------------------
(* The broker.                                                             *)

(* Mutant: two collections may have one name.                              *)
MutAcceptable(st) == TRUE

Acceptable(st) == \A i, j \in Ids(st) : st.names[i] = st.names[j] => i = j

(* All or nothing; references to collections that are not in the payload   *)
(* are dropped, agents are not looked at.                                  *)
replaceCollections(old, st) == IF Acceptable(st) THEN normalize(st) ELSE old

ApplyPost(p) ==
  /\ table' = replaceCollections(table, p[2])
  /\ posts' = posts \ {p}
  /\ UNCHANGED <<agents, tab, lastId, deleted>>

(* The request fails; save answers false and nobody looks.                 *)
LosePost(p) ==
  /\ posts' = posts \ {p}
  /\ UNCHANGED <<table, agents, tab, lastId, deleted>>

(* operatorRemoveRecord, as far as collections are concerned.              *)
RemoveAgent(a) ==
  /\ a \in agents
  /\ agents' = agents \ {a}
  /\ table' = [table EXCEPT !.members = {m \in @ : m[1] # a}]
  /\ UNCHANGED <<tab, posts, lastId, deleted>>

Next ==
  \/ \E t \in Tab : ChooseServerStore(t) \/ Loaded(t)
  \/ \E t \in Tab, n \in Name : CreateCollection(t, n)
  \/ \E t \in Tab, i \in Id : Edit(t, i) \/ DeleteCollection(t, i)
  \/ \E p \in posts : ApplyPost(p) \/ LosePost(p)
  \/ \E a \in Agent : RemoveAgent(a)

Spec == Init /\ [][Next]_vars

-----------------------------------------------------------------------------

(* Neither the table nor a tab groups an agent under a collection that     *)
(* does not exist, whatever was deleted elsewhere in the meantime.         *)
NoDanglingMembership ==
  \A st \in {table} \cup {tab[t].state : t \in Tab} : \A m \in st.members : m[2] \in Ids(st)

(* No two collections of the table have one name, although a tab may show  *)
(* two after a rename.                                                     *)
CollectionNamesAreUnique == \A i, j \in Ids(table) : table.names[i] = table.names[j] => i = j

-----------------------------------------------------------------------------
(* What the repository says and the code does not do.                      *)

version(st) == Cardinality(Ids(st)) + Cardinality(st.members) + 1

(* The version lets "the client [...] detect staleness": a replacement     *)
(* that changes the table changes the version.                             *)
VersionTellsStatesApart == [][table' # table => version(table') # version(table)]_vars

(* "Deleting an AGENT cleans its collection_members rows".                 *)
RemovedAgentHasNoMembership == \A m \in table.members : m[1] \in agents

(* "the grouping is shared across browsers": a collection leaves the table *)
(* only after an operator deleted it.                                      *)
OnlyDeletedCollectionsVanish == [][Ids(table) \ Ids(table') \subseteq deleted]_vars
=============================================================================
