-------------------------- MODULE DatasetSession --------------------------
(***************************************************************************)
(* What the shared dataset session promises to the tools that use it       *)
(* (DR-012: many readers, one writer): a write, the applied part of one    *)
(* batch or a new empty session, happens at one instant, and a reader      *)
(* takes away what the session held between two writes.                    *)
(***************************************************************************)
EXTENDS SequencesExt

CONSTANTS Batches, Readers, Nothing

VARIABLES store, served

SessionInit == store = {} /\ served = [r \in Readers |-> Nothing]

\* A batch that meets a term outside the whitelist stops there (no rollback).
Write(store_) == store' = store_ /\ UNCHANGED served
AddBatch(b)    == \E n \in 0..Len(b) : Write(store \cup ToSet(SubSeq(b, 1, n)))
RemoveBatch(b) == Write(store \ ToSet(b))
Replace        == Write({})

Serve(r) == served' = [served EXCEPT ![r] = store] /\ UNCHANGED store

SessionNext ==
  \/ \E b \in Batches : AddBatch(b) \/ RemoveBatch(b)
  \/ Replace
  \/ \E r \in Readers : Serve(r)

SessionSpec == SessionInit /\ [][SessionNext]_<<store, served>>
=============================================================================
