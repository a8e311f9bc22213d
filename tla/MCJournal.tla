----------------------------- MODULE MCJournal ------------------------------
(***************************************************************************)
(* The scene of the audit journal: its variables, named apart from those   *)
(* of the Logger and the drains that MCDrains plays beside it.             *)
(***************************************************************************)
EXTENDS Naturals

CONSTANTS Journals, Records, None, Every, MaxTrouble

VARIABLES disk, jpartial, lock, open, jpc, call, jevent, jline, prev, jrecords, hook, hashes,
          fresh, acked, jreported, synced, trouble

J == INSTANCE Journal WITH pc <- jpc, event <- jevent, line <- jline, records <- jrecords,
         reported <- jreported, partial <- jpartial

journal == <<disk, jpartial, lock, open, jpc, call, jevent, jline, prev, jrecords, hook, hashes,
             fresh, acked, jreported, synced, trouble>>

(* Nobody is neither an instance nor a record, and a marker follows some records. *)
ASSUME JournalAssumption == J!JournalAssumption
=============================================================================
