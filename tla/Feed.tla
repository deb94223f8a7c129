-------------------------------- MODULE Feed --------------------------------
(***************************************************************************)
(* What a session gets from its hook, with no question, poll or message id *)
(* arithmetic in it: messages of the user, each at most once, and never an *)
(* older one after a newer one.  Module Hook implements this.              *)
(***************************************************************************)
EXTENDS Naturals, Sequences

CONSTANT Sessions

VARIABLES
  said,   \* ids of the messages the user has sent to the chat
  got     \* got[h]: what was handed to session h, a set of ids each time

vars == <<said, got>>

\* The ids in the sets of a sequence.
Given(s) == UNION {s[k] : k \in DOMAIN s}

Init ==
  /\ said = {}
  /\ got = [h \in Sessions |-> <<>>]

\* Telegram's message ids grow.
Say ==
  /\ said \subseteq said'
  /\ \A i \in said' \ said, j \in said : j < i
  /\ UNCHANGED got

Deliver(h, S) ==
  /\ S # {}
  /\ \A i \in S, j \in Given(got[h]) : j < i
  /\ got' = [got EXCEPT ![h] = Append(@, S)]
  /\ UNCHANGED said

Next ==
  \/ Say
  \/ \E h \in Sessions : \E S \in SUBSET said : Deliver(h, S)

Spec == Init /\ [][Next]_vars
=============================================================================
