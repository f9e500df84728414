------------------------------ MODULE MCApiData ------------------------------
(* Instances of ApiData for TLC. *)
EXTENDS ApiData, TLC

CONSTANTS analyst, reader

\* The read locks, then reads; an analysis makes one query.
LockThenRead == reader :> 2 @@ analyst :> 1
==============================================================================
