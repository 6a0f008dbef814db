------------------------------ MODULE MCOutbox ------------------------------
(***************************************************************************)
(* The instances of Outbox that TLC checks.  A behaviour tells one of      *)
(* three stories: that of an attachment and the phone, of a delayed text   *)
(* and its echo, or of a delayed text and its retry, which carries the     *)
(* same key.                                                               *)
(***************************************************************************)
EXTENDS Outbox, TLC

CONSTANTS q1, q2, q3, w1, w2, file, key, Stories

Keys == [q \in Requests |-> IF q = q1 THEN file ELSE key]
Kinds == [q \in Requests |-> IF q = q1 THEN "media" ELSE "delayed"]

VARIABLE story

Calling == CASE story = "attachment" -> {q1}
             [] story = "echo" -> {q2}
             [] story = "retry" -> {q2, q3}

StoryInit ==
  /\ Init
  /\ story \in Stories
  /\ story # "attachment" => phone = "connected"

StoryNext ==
  /\ Next
  /\ story' = story
  /\ \A q \in Requests \ Calling : call'[q] = "idle"
  /\ story # "attachment" => phone' = phone /\ unanswered' = unanswered
  /\ story = "retry" => faults' = 0

StorySpec == StoryInit /\ [][StoryNext]_<<vars, story>>

\* Where no liveness is checked, the workers are alike, and so are the text and its retry.
Alike == Permutations(Workers) \cup Permutations({q2, q3})

\* Where liveness is checked, nothing fails around the attachment, the client writes while
\* a reply is handed over, the phone stays what it is, and nobody cancels the text.
LiveNext ==
  /\ StoryNext
  /\ phone' = phone
  /\ unanswered' /\ ~unanswered => \E w \in Workers : at[w] \in {"dispatch", "stamp"}
  /\ IF story = "attachment" THEN faults' = 0 ELSE step' = step

LiveSpec == StoryInit /\ [][LiveNext]_<<vars, story>> /\ Fairness
=============================================================================
