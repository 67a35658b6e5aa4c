----------------------------- MODULE FrameLease -----------------------------
(***************************************************************************)
(* What the daemon promises about the frames it is lent, without queues,    *)
(* routes or retries: every frame is lent once under a number of its own,   *)
(* may be read by the encoder only while it is lent, and is returned only   *)
(* when it is not being read.                                               *)
(***************************************************************************)
EXTENDS Naturals

VARIABLES
    issued,     \* how many frames were lent so far; their numbers are 1 .. issued
    lent,       \* frames not yet returned
    reading     \* frames the encoder may read

leaseVars == <<issued, lent, reading>>

Init == issued = 0 /\ lent = {} /\ reading = {}

(* A frame arrives; it, or older ones, may be returned at once. *)
Lend ==
    /\ issued' = issued + 1
    /\ \E back \in SUBSET (lent \union {issued'}) :
         /\ back \cap reading = {}
         /\ lent' = (lent \union {issued'}) \ back
    /\ UNCHANGED reading

(* The encoder takes a frame, finishes some of what it reads, or both; what  *)
(* it no longer reads may be returned.                                       *)
Proceed ==
    /\ \E begin, end \in SUBSET lent : reading' = (reading \union begin) \ end
    /\ \E back \in SUBSET (lent \ reading') : lent' = lent \ back
    /\ UNCHANGED issued

Next == Lend \/ Proceed
Spec == Init /\ [][Next]_leaseVars
=============================================================================
