----------------------------- MODULE MCWsSession -----------------------------
(* Instances of WsSession for TLC. *)
EXTENDS WsSession

CONSTANTS
  SlotFrames,  \* bound: requests of a session whose end is asked about
  SlotIds      \* and their ids

\* The question a behaviour is about: "slot" is any end of a short session,
\* "guard" a longer exchange with a client that stays and reads.
VARIABLE part

MCInit == Init /\ part \in {"slot", "guard"}
MCNext ==
  /\ Next /\ UNCHANGED part
  /\ part = "slot" => Len(frames') <= SlotFrames /\ Range(frames') \subseteq SlotIds
  /\ part = "guard" => open' /\ reads' /\ ~mute' /\ ~stopping' /\ events' = 0

\* The fairness is that of the code; what MCNext leaves out are steps of the
\* client, of the engine and of the operator.
MCSpec == MCInit /\ [][MCNext]_<<vars, part>> /\ Fairness
=============================================================================
