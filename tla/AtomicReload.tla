---------------------------- MODULE AtomicReload ----------------------------
(***************************************************************************)
(* What a reload promises its readers (ADR-013, "All-old or all-new"): the *)
(* served data is one whole load at a time, replaced in one step by a      *)
(* later one, and everything a transaction reads comes from the one load   *)
(* served when it first looked.                                            *)
(***************************************************************************)
EXTENDS Naturals

CONSTANTS
    Load,    \* loads, numbered in the order they began
    Reader

VARIABLES
    current,   \* the load that is served
    view       \* the loads each open transaction has read from

Init ==
    /\ current \in Load
    /\ view = [r \in Reader |-> {}]

Publish ==
    /\ \E load \in Load : load > current /\ current' = load
    /\ UNCHANGED view

Look(r) ==
    /\ view[r] = {}
    /\ view' = [view EXCEPT ![r] = {current}]
    /\ UNCHANGED current

Leave(r) ==
    /\ view' = [view EXCEPT ![r] = {}]
    /\ UNCHANGED current

Next == Publish \/ \E r \in Reader : Look(r) \/ Leave(r)

Spec == Init /\ [][Next]_<<current, view>>
=============================================================================
