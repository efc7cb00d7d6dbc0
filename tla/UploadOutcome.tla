--------------------------- MODULE UploadOutcome ---------------------------
(***************************************************************************)
(* What an Agent may conclude from the end of an upload call.  A success   *)
(* means that the snapshot is kept: logged and stored, for good.  An error *)
(* from before anything was posted means that nothing is kept and nothing  *)
(* will be.  Any later error leaves both open: the snapshot may be kept    *)
(* already, or still become so.                                            *)
(***************************************************************************)
CONSTANT Call

VARIABLES
  outcome,   \* how each call ended
  kept       \* calls whose snapshot is logged and stored

outcomeVars == <<outcome, kept>>

OutcomeInit ==
  /\ outcome = [c \in Call |-> "open"]
  /\ kept = {}

\* The server finishes uploads, or a restart leaves them finished.
Keep ==
  /\ \E finished \in SUBSET {c \in Call : outcome[c] # "failed"} :
       kept' = kept \cup finished
  /\ UNCHANGED outcome

End(c, verdict) ==
  /\ outcome[c] = "open"
  /\ verdict = "succeeded" => c \in kept
  /\ verdict = "failed" => c \notin kept
  /\ outcome' = [outcome EXCEPT ![c] = verdict]
  /\ UNCHANGED kept

OutcomeNext ==
  \/ Keep
  \/ \E c \in Call, verdict \in {"succeeded", "failed", "unknown"} : End(c, verdict)

OutcomeSpec == OutcomeInit /\ [][OutcomeNext]_outcomeVars
=============================================================================
