------------------------------- MODULE Adapter -------------------------------
(***************************************************************************)
(* Adapter-aware registration: the broker's registry of evidence (src/     *)
(* adapter-broker/trusted-evidence.ts), the evaluation of a declaration    *)
(* against it (enforce.ts, src/adapter/capabilities.ts, evidence.ts,       *)
(* tier.ts) and the award kept for a connection (onHello, onRegister and   *)
(* onConnClose of broker/daemon.ts).                                       *)
(***************************************************************************)
EXTENDS Naturals, FiniteSets, FiniteSetsExt

CONSTANTS
  Conn,       \* connection ids
  AdapterId,  \* adapter ids (with their versions)
  Build,      \* build ids
  Observed,   \* the sets of flags a validation run may have verified
  MaxRecord   \* bound: evidence records per adapter

VARIABLES
  registry,   \* TrustedEvidenceRegistry.byKey
  recorded,   \* records so far
  open,       \* open connections
  connHello,  \* connections that passed hello
  connAuth,   \* the role a connection registered with, None before
  connAwarded,\* the award of a connection
  last        \* the last registration attempt of a connection (ghost)

vars == <<registry, recorded, open, connHello, connAuth, connAwarded, last>>

None == "none"
Role == {"mcp", "hook"}
Key == AdapterId \X Role

(* The broker's side of a hello: one protocol version, one schema.         *)
PROTOCOL_VERSION == 1
SCHEMA_VERSION == 1

Source == {"conformance_runner", "real_runtime_validation", "policy_signed_off"}
CapabilityFlag == {"send", "manual", "checkpoint", "live", "ack"}

(* The durability and security verifications of a full run.                *)
Battery == {"restart", "reconnect", "queued", "fencing", "secretRedaction", "telemetryRedaction", "packaged"}

(* version: the conformance version is one this build supports.            *)
Evidence == [source : Source, build : Build \cup {None}, flags : Observed, version : BOOLEAN]

NoEvidence == [source |-> None, build |-> None, flags |-> {}, version |-> TRUE]

(* wellFormed: declaredCapabilities has the required groups and leaves.    *)
(* claims: the leaves the adapter calls verified.                          *)
Declaration ==
  [id : AdapterId, role : Role \cup {"bogus"}, build : Build \cup {None}, wellFormed : BOOLEAN,
   claims : {{}, CapabilityFlag}]

NoDeclaration == [id |-> None]
Mode == {"manual_pull", "hook_checkpoint", "live_push", "legacy"}
NoAward == [tier |-> None]
NoAttempt == [awards |-> FALSE]

Init ==
  /\ registry = [k \in Key |-> NoEvidence]
  /\ recorded = 0
  /\ open = Conn
  /\ connHello = {}
  /\ connAuth = [c \in Conn |-> None]
  /\ connAwarded = [c \in Conn |-> NoAward]
  /\ last = [c \in Conn |-> NoAttempt]

-----------------------------------------------------------------------------
(* Pure functions.                                                         *)

toEvidenceSource(source) ==
  CASE source = "conformance_runner" -> "fake_runtime"
    [] source = "real_runtime_validation" -> "real_runtime"
    [] source = "policy_signed_off" -> "real_runtime_signed_off"
    [] OTHER -> None

(* Mutant: live receive is taken from a run against a fake runtime.        *)
MutBuildValidationEvidence(source, flags) == flags

(* live and full are forced off unless a real runtime showed them.         *)
buildValidationEvidence(source, flags) ==
  IF source \in {"real_runtime", "real_runtime_signed_off"} THEN flags ELSE flags \ {"live", "full"}

(* The ValidationEvidence of a record, as the set of its true flags.       *)
trustedToValidationEvidence(ev) ==
  buildValidationEvidence(toEvidenceSource(ev.source),
    (ev.flags \cap CapabilityFlag)
      \cup (IF {"send", "checkpoint", "manual"} \cap ev.flags # {} THEN {"booted"} ELSE {})
      \cup (IF Battery \subseteq ev.flags THEN {"full"} ELSE {}))

(* confirmCapabilities and toVerified: what the adapter claims is clamped, *)
(* what the evidence shows is raised.                                      *)
confirmed(claims, evidence) == evidence \cap {"manual", "checkpoint", "live", "ack"}

modeRequires(mode) ==
  CASE mode = "manual_pull" -> {"manual"}
    [] mode = "hook_checkpoint" -> {"checkpoint"}
    [] mode = "live_push" -> {"live"}
    [] OTHER -> {}

(* Mutant: each rung looks at its own requirements only.                   *)
MutCalculateMaximumTier(verified, evidence) ==
  CASE "full" \in evidence -> 5
    [] "live" \in verified -> 4
    [] {"checkpoint", "ack"} \subseteq verified -> 3
    [] "manual" \in verified -> 2
    [] "send" \in evidence -> 1
    [] OTHER -> 0

calculateMaximumTier(verified, evidence) ==
  CASE "booted" \notin evidence \/ "send" \notin evidence -> 0
    [] "manual" \notin verified \cap evidence -> 1
    [] ~({"checkpoint", "ack"} \subseteq verified \cap evidence) -> 2
    [] "live" \notin verified \cap evidence -> 3
    [] "full" \notin evidence -> 4
    [] OTHER -> 5

(* unvalidated, conformance_tested, real_runtime_validated, supported.     *)
maxLevelForSource(source) ==
  CASE source = "fake_runtime" -> 1
    [] source = "real_runtime" -> 2
    [] source = "real_runtime_signed_off" -> 3
    [] OTHER -> 0

deriveValidationLevel(source, fullConformancePassed) ==
  IF source = None \/ ~fullConformancePassed THEN 0 ELSE maxLevelForSource(source)

(* Mutant: evidence pinned to a build answers a query that names none.     *)
MutResolve(id, role, build) ==
  LET ev == registry[<<id, role>>] IN
  IF ev.version /\ (build = None \/ ev.build = build) THEN ev ELSE NoEvidence

(* Absent, of another build, or of an unsupported version: none.           *)
resolve(id, role, build) ==
  LET ev == registry[<<id, role>>] IN
  IF ev # NoEvidence /\ ev.build = build /\ ev.version THEN ev ELSE NoEvidence

(* evaluateRegistration with a declaration: a refusal or an award.         *)
evaluateRegistration(d, role, mode) ==
  LET ev == IF d.role \in Role THEN resolve(d.id, d.role, d.build) ELSE NoEvidence
      evidence == trustedToValidationEvidence(ev)
      verified == confirmed(d.claims, evidence)
      source == toEvidenceSource(ev.source)
      passed == source # None /\ {"full", "checkpoint", "manual", "send"} \cap evidence # {}
  IN IF \/ d.role \notin Role
        \/ d.role # role
        \/ ~d.wellFormed
        \/ ~(modeRequires(mode) \subseteq verified)
     THEN NoAward
     ELSE [tier |-> calculateMaximumTier(verified, evidence),
           level |-> deriveValidationLevel(source, passed)]

-----------------------------------------------------------------------------
(* Broker-owned validation code records evidence; the newest wins.         *)
record(k, ev) ==
  /\ recorded < MaxRecord
  /\ recorded' = recorded + 1
  /\ registry' = [registry EXCEPT ![k] = ev]
  /\ UNCHANGED <<open, connHello, connAuth, connAwarded, last>>

checkCompatibility(min, max, schema) ==
  /\ min <= PROTOCOL_VERSION /\ PROTOCOL_VERSION <= max
  /\ schema = SCHEMA_VERSION

onHello(c, min, max, schema) ==
  /\ c \in open
  /\ checkCompatibility(min, max, schema)
  /\ connHello' = connHello \cup {c}
  /\ UNCHANGED <<registry, recorded, open, connAuth, connAwarded, last>>

(* Whether the attempt made an award, from which evidence, for which build. *)
Attempt(c, d, ok) ==
  last' = [last EXCEPT ![c] =
    IF d # NoDeclaration /\ ok THEN [awards |-> TRUE, build |-> d.build, ev |-> resolve(d.id, d.role, d.build)]
                               ELSE NoAttempt]

(* Mutant: the award of the registration before is not cleared.            *)
MutOnRegister(c, role, mode, d, stored) ==
  LET award == IF d = NoDeclaration THEN NoAward ELSE evaluateRegistration(d, role, mode)
      accepted == stored /\ (d = NoDeclaration \/ award # NoAward)
  IN
  /\ c \in connHello
  /\ connAwarded' = IF accepted /\ award # NoAward THEN [connAwarded EXCEPT ![c] = award] ELSE connAwarded
  /\ connAuth' = IF accepted THEN [connAuth EXCEPT ![c] = role] ELSE connAuth
  /\ Attempt(c, d, accepted)
  /\ UNCHANGED <<registry, recorded, open, connHello>>

(* The award is cleared first; the declaration is evaluated before the     *)
(* store is asked, and the store may refuse (`stored`); only a success     *)
(* sets the authority and the award.                                       *)
onRegister(c, role, mode, d, stored) ==
  LET award == IF d = NoDeclaration THEN NoAward ELSE evaluateRegistration(d, role, mode)
      accepted == stored /\ (d = NoDeclaration \/ award # NoAward)
  IN
  /\ c \in connHello
  /\ connAwarded' = [connAwarded EXCEPT ![c] = IF accepted THEN award ELSE NoAward]
  /\ connAuth' = IF accepted THEN [connAuth EXCEPT ![c] = role] ELSE connAuth
  /\ Attempt(c, d, accepted)
  /\ UNCHANGED <<registry, recorded, open, connHello>>

onConnClose(c) ==
  /\ c \in open
  /\ open' = open \ {c}
  /\ connHello' = connHello \ {c}
  /\ connAuth' = [connAuth EXCEPT ![c] = None]
  /\ connAwarded' = [connAwarded EXCEPT ![c] = NoAward]
  /\ last' = [last EXCEPT ![c] = NoAttempt]
  /\ UNCHANGED <<registry, recorded>>

Next ==
  \/ \E k \in Key, ev \in Evidence : record(k, ev)
  \/ \E c \in Conn :
       \/ \E min, max, schema \in 0..2 : onHello(c, min, max, schema)
       \/ \E role \in Role, mode \in Mode, d \in Declaration \cup {NoDeclaration}, stored \in BOOLEAN :
            onRegister(c, role, mode, d, stored)
       \/ onConnClose(c)

Spec == Init /\ [][Next]_vars

-----------------------------------------------------------------------------
(* The requirements of each rung of the ladder in the documentation of     *)
(* SupportTier, and the sources that may show them.                        *)
Rung == <<{"send"}, {"manual"}, {"checkpoint", "ack"}, {"live"}, Battery>>

Shown(ev) == Max({0} \cup {n \in 1..5 :
  /\ \A m \in 1..n : Rung[m] \subseteq ev.flags
  /\ n >= 4 => ev.source \in {"real_runtime_validation", "policy_signed_off"}})

(* The award of a connection is exactly what the evidence of the exact     *)
(* identity showed when it registered: no rung skipped, nothing of what    *)
(* the adapter claims, no live tier from a fake runtime, and no level      *)
(* above what the source justifies (calculateMaximumTier,                  *)
(* buildValidationEvidence, confirmCapabilities, resolve).                 *)
AwardIsWhatTheEvidenceShows ==
  \A c \in Conn : connAwarded[c] # NoAward =>
    LET a == last[c] IN
    /\ connAwarded[c].tier = Shown(a.ev)
    /\ connAwarded[c].level <= maxLevelForSource(toEvidenceSource(a.ev.source))
    /\ a.ev # NoEvidence => a.ev.build = a.build

(* An award never outlives the registration it was made for: the last      *)
(* attempt on the connection declared an adapter and succeeded ("a stale   *)
(* award can never survive a re-registration").                            *)
NoStaleAward ==
  \A c \in Conn : connAwarded[c] # NoAward =>
    c \in open /\ last[c].awards

-----------------------------------------------------------------------------
(* What the repository says and the code does not do.                      *)

(* "Without a full conformance pass, nothing above `conformance_tested` is *)
(* claimable".                                                             *)
LevelNeedsFullPass ==
  \A c \in Conn : (connAwarded[c] # NoAward /\ connAwarded[c].level > 1) =>
    CapabilityFlag \subseteq last[c].ev.flags
=============================================================================
