------------------------------ MODULE ResultStream ------------------------------
(***************************************************************************)
(* What a query request promises its client, whatever the format: either   *)
(* no body at all, or a growing prefix of one result, which ends cleanly   *)
(* only when it is the whole result and otherwise ends with an error or    *)
(* with the client gone.                                                   *)
(*                                                                         *)
(* CsvStream and ParquetStream implement this specification.               *)
(***************************************************************************)
EXTENDS Naturals

VARIABLES
  state,      \* where the request stands, as `response` in ResponseBody
  produced,   \* bytes of the result produced so far
  whole,      \* they are the whole result
  delivered   \* bytes given to the client

vars == <<state, produced, whole, delivered>>

Init ==
  /\ state = "waiting"
  /\ produced = 0 /\ whole = FALSE /\ delivered = 0

Answer ==
  /\ state = "waiting"
  /\ state' \in {"streaming", "rejected", "cancelled"}
  /\ UNCHANGED <<produced, whole, delivered>>

\* More of the result, and possibly the knowledge that this is all of it.
Produce ==
  /\ ~whole
  /\ produced' \in Nat /\ produced' >= produced
  /\ whole' \in BOOLEAN
  /\ UNCHANGED <<state, delivered>>

Deliver ==
  /\ state = "streaming"
  /\ delivered' \in Nat /\ delivered' > delivered /\ delivered' <= produced
  /\ UNCHANGED <<state, produced, whole>>

EndCleanly ==
  /\ state = "streaming"
  /\ whole /\ delivered = produced
  /\ state' = "complete"
  /\ UNCHANGED <<produced, whole, delivered>>

Break ==
  /\ state = "streaming"
  /\ state' \in {"failed", "abandoned"}
  /\ UNCHANGED <<produced, whole, delivered>>

Next == Answer \/ Produce \/ Deliver \/ EndCleanly \/ Break

Spec == Init /\ [][Next]_vars

TypeOK ==
  /\ state \in {"waiting", "rejected", "cancelled", "streaming",
                "complete", "failed", "abandoned"}
  /\ produced \in Nat /\ delivered \in Nat /\ whole \in BOOLEAN

\* What the promise amounts to for a client (csv.rs and parquet.rs).
NothingButTheResult ==
  /\ delivered <= produced
  /\ state \in {"waiting", "rejected", "cancelled"} => delivered = 0
  /\ state = "complete" => whole /\ delivered = produced
================================================================================
