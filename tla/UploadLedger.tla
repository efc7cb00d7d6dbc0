---------------------------- MODULE UploadLedger ----------------------------
(***************************************************************************)
(* What the snapshot server promises whoever runs it, with no handler, no  *)
(* mutex and no file in sight: a credential is granted once, it is         *)
(* completed at most once, a restart voids the credentials that are still  *)
(* open for good, and an object whose upload is in the ledger never        *)
(* changes again.  SnapshotServer is shown to implement this module.       *)
(***************************************************************************)
EXTENDS Sequences

CONSTANTS
  Snapshot,   \* snapshot identifiers
  Body,       \* what an object can hold, "not there" included
  Entry,      \* ledger lines: records with (at least) fields id and etag
  Nothing     \* the member of Body that means "no object"

VARIABLES
  granted,    \* credentials ever granted
  open,       \* granted, neither completed nor voided
  ledger,     \* completed uploads, oldest first
  store       \* the object stored under each snapshot's key

ledgerVars == <<granted, open, ledger, store>>

Completed(id) == \E i \in DOMAIN ledger : ledger[i].id = id

LedgerInit ==
  /\ granted = {}
  /\ open = {}
  /\ ledger = << >>
  /\ store = [id \in Snapshot |-> Nothing]

\* A credential is granted under an identifier that was never used before.
Grant(id) ==
  /\ id \notin granted
  /\ granted' = granted \cup {id}
  /\ open' = open \cup {id}
  /\ UNCHANGED <<ledger, store>>

\* The object of an upload that is not in the ledger may change in any way.
Stage(id) ==
  /\ ~Completed(id)
  /\ \E b \in Body : store' = [store EXCEPT ![id] = b]
  /\ UNCHANGED <<granted, open, ledger>>

\* An open credential is completed: its line describes the stored object.
Complete(e) ==
  /\ e.id \in open
  /\ store[e.id] = e.etag
  /\ ledger' = Append(ledger, e)
  /\ open' = open \ {e.id}
  /\ UNCHANGED <<granted, store>>

\* A restart voids every open credential.
Void ==
  /\ open' = {}
  /\ UNCHANGED <<granted, ledger, store>>

LedgerNext ==
  \/ \E id \in Snapshot : Grant(id) \/ Stage(id)
  \/ \E e \in Entry : Complete(e)
  \/ Void

LedgerSpec == LedgerInit /\ [][LedgerNext]_ledgerVars
=============================================================================
