------------------------------ MODULE TabToken ------------------------------
(***************************************************************************)
(* How a browser tab comes to a token: `xbus dashboard` opens a URL with a *)
(* one-time nonce in its fragment, the page exchanges it (auth.ts and      *)
(* server.ts of broker/dashboard, app.js of its static files).             *)
(*                                                                         *)
(* Nonces and tokens are numbers in the order they are minted.  The broker *)
(* keeps both in memory: a restart forgets them.  A tab keeps its token in *)
(* sessionStorage, over reloads and over the opening of another URL.       *)
(***************************************************************************)
EXTENDS Naturals, FiniteSets

CONSTANTS
  Tab,
  MaxMint,     \* bound: nonces, and so tokens, ever minted
  MaxRestart   \* bound: restarts of the broker

VARIABLES
  nonces,      \* the nonces in the store: number -> "fresh" or "consumed"
  tokens,      \* the tokens in the store
  minted,      \* nonces minted so far
  issued,      \* the nonce each token was issued for (no code reads the past)
  stored,      \* per tab, the token in its sessionStorage, 0 when none
  fragment,    \* per tab, the nonce in its location, 0 when none
  page,        \* per tab: "none", "boot", "exchanging", "ready", "lost"
  using,       \* per tab, the nonce being exchanged
  restarts

vars == <<nonces, tokens, minted, issued, stored, fragment, page, using, restarts>>

Nonce == 1 .. MaxMint

Init ==
  /\ nonces = [n \in {} |-> "fresh"]
  /\ tokens = {}
  /\ minted = 0
  /\ issued = << >>
  /\ stored = [t \in Tab |-> 0]
  /\ fragment = [t \in Tab |-> 0]
  /\ page = [t \in Tab |-> "none"]
  /\ using = [t \in Tab |-> 0]
  /\ restarts = 0

Without(f, d) == [x \in DOMAIN f \ d |-> f[x]]

(* sweep: what has expired by now, any of it, is dropped; a consumed nonce *)
(* stays for its time to live.                                             *)
sweep(gone) == Without(nonces, gone)

-----------------------------------------------------------------------------
(* The broker.                                                             *)

(* mintOpenUrl, and the browser opens the URL in a new tab or in one that  *)
(* shows the dashboard already.                                            *)
OpenUrl(t) ==
  /\ minted < MaxMint
  /\ minted' = minted + 1
  /\ \E gone \in SUBSET DOMAIN nonces :
       nonces' = [n \in (DOMAIN nonces \ gone) \cup {minted + 1} |->
                    IF n = minted + 1 THEN "fresh" ELSE nonces[n]]
  /\ \E gone \in SUBSET tokens : tokens' = tokens \ gone
  /\ fragment' = [fragment EXCEPT ![t] = minted + 1]
  /\ page' = [page EXCEPT ![t] = "boot"]
  /\ UNCHANGED <<issued, stored, using, restarts>>

(* Mutant: a nonce that was consumed is taken again.                       *)
MutUsable(n, live) == n \in live

Usable(n, live) == n \in live /\ nonces[n] = "fresh"

(* exchange: the store is swept, the nonce consumed, a token issued.       *)
Exchange(t) ==
  LET n == using[t] IN
  /\ page[t] = "exchanging"
  /\ \E gone \in SUBSET DOMAIN nonces, old \in SUBSET tokens :
       LET live == DOMAIN nonces \ gone
           new == Cardinality(DOMAIN issued) + 1 IN
       IF Usable(n, live)
       THEN /\ nonces' = [sweep(gone) EXCEPT ![n] = "consumed"]
            /\ tokens' = (tokens \ old) \cup {new}
            /\ issued' = [k \in DOMAIN issued \cup {new} |-> IF k = new THEN n ELSE issued[k]]
            /\ stored' = [stored EXCEPT ![t] = new]
            /\ page' = [page EXCEPT ![t] = "ready"]
       ELSE /\ nonces' = sweep(gone)
            /\ tokens' = tokens \ old
            /\ page' = [page EXCEPT ![t] = "lost"]
            /\ UNCHANGED <<issued, stored>>
  /\ using' = [using EXCEPT ![t] = 0]
  /\ UNCHANGED <<minted, fragment, restarts>>

(* Mutant: the page keeps the token that was refused.                      *)
MutOnExpired(t) == stored

onExpired(t) == [stored EXCEPT ![t] = 0]

(* A request of the page: a token that is unknown or has expired is        *)
(* answered 401, and the page forgets it.                                  *)
Request(t, expired) ==
  /\ page[t] = "ready"
  /\ IF stored[t] \in tokens /\ ~expired
     THEN UNCHANGED <<tokens, stored, page>>
     ELSE /\ tokens' = tokens \ {stored[t]}
          /\ stored' = onExpired(t)
          /\ page' = [page EXCEPT ![t] = "lost"]
  /\ UNCHANGED <<nonces, minted, issued, fragment, using, restarts>>

Restart ==
  /\ restarts < MaxRestart
  /\ restarts' = restarts + 1
  /\ nonces' = [n \in {} |-> "fresh"]
  /\ tokens' = {}
  /\ UNCHANGED <<minted, issued, stored, fragment, page, using>>

-----------------------------------------------------------------------------
(* The page.                                                               *)

(* boot: the fragment is stripped whether the nonce is used or not.        *)
Boot(t) ==
  /\ page[t] = "boot"
  /\ fragment' = [fragment EXCEPT ![t] = 0]
  /\ IF stored[t] # 0 THEN page' = [page EXCEPT ![t] = "ready"] /\ UNCHANGED using
     ELSE IF fragment[t] # 0
     THEN page' = [page EXCEPT ![t] = "exchanging"] /\ using' = [using EXCEPT ![t] = fragment[t]]
     ELSE page' = [page EXCEPT ![t] = "lost"] /\ UNCHANGED using
  /\ UNCHANGED <<nonces, tokens, minted, issued, stored, restarts>>

(* A reload, or a copy of the page opened while its fragment still shows.  *)
Reload(t) ==
  /\ page[t] # "none"
  /\ page' = [page EXCEPT ![t] = "boot"]
  /\ using' = [using EXCEPT ![t] = 0]
  /\ UNCHANGED <<nonces, tokens, minted, issued, stored, fragment, restarts>>

Duplicate(t, u) ==
  /\ page[t] = "boot" /\ page[u] = "none"
  /\ page' = [page EXCEPT ![u] = "boot"]
  /\ fragment' = [fragment EXCEPT ![u] = fragment[t]]
  /\ stored' = [stored EXCEPT ![u] = stored[t]]
  /\ UNCHANGED <<nonces, tokens, minted, issued, using, restarts>>

Next ==
  \/ \E t \in Tab : OpenUrl(t) \/ Exchange(t) \/ Boot(t) \/ Reload(t)
  \/ \E t \in Tab, e \in BOOLEAN : Request(t, e)
  \/ \E t, u \in Tab : Duplicate(t, u)
  \/ Restart

Spec == Init /\ [][Next]_vars

-----------------------------------------------------------------------------

(* A nonce yields at most one token, however often its page is reloaded or *)
(* copied before the fragment is gone, and whatever the sweeps remove.     *)
NonceYieldsOneToken == \A j, k \in DOMAIN issued : issued[j] = issued[k] => j = k

(* A page that tells its operator to reopen the dashboard has given up its *)
(* token, so that the nonce of the URL opened next is exchanged.           *)
LostTabStartsClean == \A t \in Tab : page[t] = "lost" => stored[t] = 0

-----------------------------------------------------------------------------
(* What the repository says and the code does not do.                      *)

(* "exchanges it at POST /auth/exchange for a short-lived tab token": a    *)
(* fresh nonce is exchanged by the page that takes it from the location.   *)
NonceIsExchanged ==
  [][\A t \in Tab : fragment[t] # 0 /\ fragment'[t] = 0 => using'[t] = fragment[t]]_vars
=============================================================================
