-------------------------------- MODULE Ledger --------------------------------
(***************************************************************************)
(* The append-only, hash-chained audit ledger (broker/ledger.ts): append   *)
(* within the transaction of the mutation it records, anchors that stand   *)
(* for a pruned prefix, and the verification of the chain, which the       *)
(* daemon runs at its start and on a timer.                                *)
(*                                                                         *)
(* A hash is the pair of what it is computed from, so different contents   *)
(* have different hashes.  A damaged row is one whose text changed or went *)
(* missing below the broker (bit rot, a partial write, an edited file).    *)
(***************************************************************************)
EXTENDS Integers, Sequences, FiniteSets, FiniteSetsExt, SequencesExt

CONSTANTS MaxSeq,     \* bound: events appended
          MaxDamage,  \* bound: rows damaged
          MayDrop     \* rows of the tail may go missing

VARIABLES rows,       \* ledger_events by seq
          anchors,    \* ledger_anchors
          state,      \* mutations of the mutable tables that committed
          rotten,     \* ghost: seqs of rows changed below the broker
          missing,    \* ghost: seqs of rows that went missing
          reports     \* outcomes of verifyLedgerNow since the last damage

vars == <<rows, anchors, state, rotten, missing, reports>>

LEDGER_GENESIS_HASH == <<>>

Init == rows = <<>> /\ anchors = {} /\ state = 0 /\ rotten = {} /\ missing = {} /\ reports = {}

(* canonicalize, canonicalLedgerPayload: text that does not parse, or a     *)
(* value without a canonical form, is an error.                             *)
Canonical(content) == content # "unparseable"

computeEntryHash(prevHash, seq, content) == <<prevHash, seq, content>>

newestAnchor(S) == CHOOSE a \in S : \A b \in S : a.seq >= b.seq

(* The row a new event is chained to. *)
Tip(rs, as) ==
  IF rs # <<>> THEN [seq |-> Last(rs).seq, hash |-> Last(rs).entryHash]
  ELSE IF as # {} THEN newestAnchor(as)
  ELSE [seq |-> 0, hash |-> LEDGER_GENESIS_HASH]

ledgerAppend(rs, content) ==
  LET t == Tip(rs, anchors)
  IN  Append(rs, [seq |-> t.seq + 1, content |-> content, prevHash |-> t.hash,
                  entryHash |-> computeEntryHash(t.hash, t.seq + 1, content)])

MutCommit(ops) ==  (* Mutant: an append that fails does not undo the mutation. *)
  /\ state + Len(ops) <= MaxSeq
  /\ state' = state + Len(ops)
  /\ rows' = FoldLeft(LAMBDA rs, c : IF Canonical(c) THEN ledgerAppend(rs, c) ELSE rs, rows, ops)
  /\ UNCHANGED <<anchors, rotten, missing, reports>>

(* A transaction: each mutation appends its event, and one failure rolls    *)
(* all of them back.                                                        *)
Commit(ops) ==
  /\ state + Len(ops) <= MaxSeq
  /\ \A i \in DOMAIN ops : Canonical(ops[i])
  /\ state' = state + Len(ops)
  /\ rows' = FoldLeft(ledgerAppend, rows, ops)
  /\ UNCHANGED <<anchors, rotten, missing, reports>>

(* Compaction, which the anchors are made for: the events up to one of them *)
(* are replaced by an anchor.                                               *)
Vacuum(i) ==
  /\ rotten = {} /\ missing = {}
  /\ anchors' = anchors \cup {[seq |-> rows[i].seq, hash |-> rows[i].entryHash]}
  /\ rows' = SubSeq(rows, i + 1, Len(rows))
  /\ UNCHANGED <<state, rotten, missing, reports>>

Damages == Cardinality(rotten \cup missing)

BitRot(i) ==
  /\ Damages < MaxDamage
  /\ \E c \in {"other", "unparseable"} : rows' = [rows EXCEPT ![i].content = c]
  /\ rotten' = rotten \cup {rows[i].seq} /\ reports' = {}
  /\ UNCHANGED <<anchors, state, missing>>

GoesMissing(i) ==
  /\ Damages < MaxDamage
  /\ MayDrop \/ i < Len(rows)
  /\ rows' = RemoveAt(rows, i)
  /\ rotten' = rotten \ {rows[i].seq} /\ missing' = missing \cup {rows[i].seq} /\ reports' = {}
  /\ UNCHANGED <<anchors, state>>

(***************************************************************************)
(* verifyLedger: the first row that does not parse, is not dense, is not   *)
(* linked, or does not hash to what it says.                               *)
(***************************************************************************)
MutRoot ==  (* Mutant: the oldest anchor is the trust root. *)
  LET below == {a \in anchors : a.seq < rows[1].seq}
  IN  IF below # {} THEN CHOOSE a \in below : \A b \in below : a.seq <= b.seq
      ELSE [seq |-> 0, hash |-> LEDGER_GENESIS_HASH]

Root == LET below == {a \in anchors : a.seq < rows[1].seq}
        IN  IF below # {} THEN newestAnchor(below) ELSE [seq |-> 0, hash |-> LEDGER_GENESIS_HASH]

MutBreaks(i) ==  (* Mutant: only the links are compared. *)
  LET before == IF i = 1 THEN Root ELSE [seq |-> rows[i-1].seq, hash |-> rows[i-1].entryHash]
  IN  rows[i].prevHash # before.hash

Breaks(i) ==
  LET before == IF i = 1 THEN Root ELSE [seq |-> rows[i-1].seq, hash |-> rows[i-1].entryHash]
  IN  \/ ~Canonical(rows[i].content)
      \/ rows[i].seq # before.seq + 1
      \/ rows[i].prevHash # before.hash
      \/ rows[i].entryHash # computeEntryHash(rows[i].prevHash, rows[i].seq, rows[i].content)

verifyLedger ==
  LET broken == {i \in DOMAIN rows : Breaks(i)}
  IN  IF broken = {} THEN [ok |-> TRUE, checked |-> Len(rows), firstBreak |-> 0]
      ELSE LET i == Min(broken)
           IN  [ok |-> FALSE, checked |-> rows[i].seq - rows[1].seq, firstBreak |-> rows[i].seq]

(* verifyLedgerNow: an audit row of the outcome, and nothing else. *)
verifyLedgerNow ==
  /\ reports' = reports \cup {verifyLedger}
  /\ UNCHANGED <<rows, anchors, state, rotten, missing>>

Next == \/ \E n \in 1..2 : \E ops \in [1..n -> {"event", "unparseable"}] : Commit(ops)
        \/ \E i \in DOMAIN rows : Vacuum(i) \/ BitRot(i) \/ GoesMissing(i)
        \/ verifyLedgerNow

Spec == Init /\ [][Next]_vars

(***************************************************************************)
(* Properties.                                                             *)
(***************************************************************************)
(* An undamaged ledger verifies, whatever was pruned and whenever: also     *)
(* when every event was pruned before the next was appended.                *)
UndamagedVerifies ==
  rotten = {} /\ missing = {} => verifyLedger = [ok |-> TRUE, checked |-> Len(rows), firstBreak |-> 0]

(* No mutation commits without its event, and no event without its          *)
(* mutation: the newest seq counts the mutations.                           *)
NoStateWithoutEvent == missing = {} => Tip(rows, anchors).seq = state

(* The first damaged row is the one verification names: a changed row       *)
(* itself, or the row after one that went missing.                          *)
DamageIsLocalized ==
  LET first == Min(rotten \cup missing)
      later == {rows[i].seq : i \in {j \in DOMAIN rows : rows[j].seq >= first}}
  IN  rotten \cup missing # {} => verifyLedger.ok = FALSE /\ verifyLedger.firstBreak = Min(later)

(* What was reported since the last damage is still what verification       *)
(* finds: appends and pruning neither hide nor create a break.              *)
ReportsStay == \A r \in reports : r.ok = verifyLedger.ok /\ r.firstBreak = verifyLedger.firstBreak

(***************************************************************************)
(* What the repository says and the code does not do.                      *)
(***************************************************************************)
(* broker/ledger.ts: verification "Reports the FIRST break so tampering / a *)
(* dropped row / bit-rot is localized."  Nothing records where the chain    *)
(* ends, so the newest rows can go missing without a break.                 *)
DroppedRowIsReported == missing # {} => ~verifyLedger.ok
=============================================================================
