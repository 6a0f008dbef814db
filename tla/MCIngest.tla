------------------------------ MODULE MCIngest ------------------------------
(***************************************************************************)
(* The instance of Ingest that TLC checks: a question between two answers  *)
(* that were typed on the phone.  To keep it small, a behaviour has either *)
(* failures and an import of the first answer and the question, or a       *)
(* ticket and all three messages live.                                     *)
(***************************************************************************)
EXTENDS Ingest, TLC

CONSTANTS ask, reply, again, import

MCTimeOf == reply :> 1 @@ ask :> 2 @@ again :> 3
MCDirectionOf == reply :> "outbound" @@ ask :> "inbound" @@ again :> "outbound"
MCEventsIn == import :> <<ask, reply>>
MCMappings ==
  {[mode |-> "single_client", effectiveAt |-> 2], [mode |-> "mixed", effectiveAt |-> 0]}

VARIABLE withTicket

MCInit == Init /\ withTicket \in BOOLEAN

MCNext ==
  /\ Next
  /\ IF withTicket THEN faults' = faults /\ job'[import] = "absent"
                   ELSE ticketVars' = ticketVars /\ \A m \in {reply, again} : post'[m] = "unseen"
  /\ UNCHANGED withTicket

MCSpec == MCInit /\ [][MCNext]_<<vars, withTicket>> /\ Fairness
=============================================================================
