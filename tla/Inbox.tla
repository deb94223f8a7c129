------------------------------- MODULE Inbox -------------------------------
(***************************************************************************)
(* What the long-poll loop promises, with no process, offset or store in   *)
(* it: updates arrive in order, each is tried (stored or given up) any     *)
(* number of times, and Telegram may forget a prefix of them only when     *)
(* every update of the prefix has been tried.  Module Updater implements   *)
(* this specification.                                                     *)
(***************************************************************************)
EXTENDS Naturals

VARIABLES
  posted,     \* number of updates that have arrived; their ids are 1..posted
  tried,      \* ids that were tried at least once
  stored,     \* ids whose message was written at least once
  forgotten   \* ids 1..forgotten are no longer held by Telegram

vars == <<posted, tried, stored, forgotten>>

Init ==
  /\ posted = 0
  /\ tried = {}
  /\ stored = {}
  /\ forgotten = 0

Post ==
  /\ posted' = posted + 1
  /\ UNCHANGED <<tried, stored, forgotten>>

GiveUp(i) ==
  /\ tried' = tried \cup {i}
  /\ UNCHANGED <<posted, stored, forgotten>>

Store(i) ==
  /\ tried' = tried \cup {i}
  /\ stored' = stored \cup {i}
  /\ UNCHANGED <<posted, forgotten>>

\* Telegram forgets only what was tried, and never remembers again.
Forget(n) ==
  /\ n > forgotten
  /\ 1..n \subseteq tried
  /\ forgotten' = n
  /\ UNCHANGED <<posted, tried, stored>>

Next ==
  \/ Post
  \/ \E i \in 1..posted : GiveUp(i) \/ Store(i) \/ Forget(i)

Spec == Init /\ [][Next]_vars
=============================================================================
