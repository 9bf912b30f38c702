---------------------------- MODULE MCMuxSession ----------------------------
(***************************************************************************)
(* Instances of MuxSession for TLC, with one stream in use: one that this  *)
(* end opens (1, of which a peer running this code may speak as well, it   *)
(* numbers its own alike), or one of a peer that gives out even numbers.   *)
(***************************************************************************)
EXTENDS MuxSession

VARIABLE inUse
allVars == <<vars, sent, inUse>>

OneStream ==
  /\ \A k \in DOMAIN inbox : inbox[k].id \in {0, inUse}
  /\ inUse = 2 => nextID = 1

MCInit == Init /\ sent = 0 /\ inUse \in IDs
MCNext == Next /\ UNCHANGED inUse /\ OneStream'
MCSpec == MCInit /\ [][MCNext]_allVars /\ Fairness
=============================================================================
