-------------------------- MODULE ExclusiveSection --------------------------
(***************************************************************************)
(* What the lifecycle lease promises its callers, without rows, clocks or  *)
(* heartbeats: under each key at most one call is inside the section, for  *)
(* as long as the timing of the owners can be trusted; trust, once lost,   *)
(* does not come back; and a call enters at most once.                     *)
(***************************************************************************)
CONSTANTS Call, Key, KeyOf

VARIABLES
  inside,   \* the calls whose body is running
  served,   \* the calls that have entered
  trusted   \* the owners have kept to their timing so far

Init == inside = {} /\ served = {} /\ trusted = TRUE

Enter(c) ==
  /\ c \notin served
  /\ trusted => \A d \in inside : KeyOf[d] # KeyOf[c]
  /\ inside' = inside \cup {c}
  /\ served' = served \cup {c}
  /\ UNCHANGED trusted

Leave(c) ==
  /\ c \in inside
  /\ inside' = inside \ {c}
  /\ UNCHANGED <<served, trusted>>

LoseTrust ==
  /\ trusted' = FALSE
  /\ UNCHANGED <<inside, served>>

Next == LoseTrust \/ \E c \in Call : Enter(c) \/ Leave(c)

Spec == Init /\ [][Next]_<<inside, served, trusted>>
=============================================================================
