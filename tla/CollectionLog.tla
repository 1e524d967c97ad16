--------------------------- MODULE CollectionLog ---------------------------
(***************************************************************************)
(* What one collection promises about the rows its hooks capture, without  *)
(* threads, buffers or files.  A row is captured once, is then stored in   *)
(* exactly one parquet file or lost, and neither outcome is ever taken     *)
(* back.  The collection closes only when no captured row is undecided.    *)
(* Module Collector implements this specification.                         *)
(***************************************************************************)
CONSTANTS Hooks,  \* the instrumentation hooks of the collection
          Rows    \* identities of the events a hook may capture

VARIABLES status, \* status[<<h, r>>]: what has become of row r of hook h
          open    \* whether the collection still accepts changes

logVars == <<status, open>>

Entries == Hooks \X Rows

RowStatus == {"absent", "captured", "stored", "lost"}

LogInit == /\ status = [k \in Entries |-> "absent"]
           /\ open = TRUE

(* The rows S, all in state from, move to state to in one step. *)
Move(S, from, to) ==
    /\ open
    /\ \A k \in S : status[k] = from
    /\ status' = [k \in Entries |-> IF k \in S THEN to ELSE status[k]]
    /\ UNCHANGED open

Capture == \E S \in SUBSET Entries : Move(S, "absent", "captured")
Store   == \E S \in SUBSET Entries : Move(S, "captured", "stored")
Lose    == \E S \in SUBSET Entries : Move(S, "captured", "lost")

Close == /\ open
         /\ \A k \in Entries : status[k] # "captured"
         /\ open' = FALSE
         /\ UNCHANGED status

LogNext == Capture \/ Store \/ Lose \/ Close

LogSpec == LogInit /\ [][LogNext]_logVars
=============================================================================
