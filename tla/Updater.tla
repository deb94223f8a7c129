------------------------------ MODULE Updater ------------------------------
(***************************************************************************)
(* The long-poll loop of tg-updater (polling.rs), run by every server      *)
(* process of one bot over one history database, against Telegram's queue  *)
(* of updates.                                                             *)
(*                                                                         *)
(* An update is identified by its update_id, its position in `arrived';    *)
(* what it carries is the message it creates or edits, so a later update   *)
(* of the same message is a later revision of it.  A store row holds the   *)
(* update whose revision it shows.  Telegram's queue is external: it holds *)
(* the ids from `confirmed' on, forgets the ids below the offset of a      *)
(* request it receives, and answers with at most BatchLimit updates, the   *)
(* oldest it holds from that offset on.                                    *)
(***************************************************************************)
EXTENDS Naturals, Sequences

CONSTANTS
  Procs,        \* server processes, each running one updater
  Msgs,         \* messages updates are about
  Allowed,      \* those whose chat passes allowed_chats
  Unmapped,     \* an update map_update turns into None
  MaxUpdates,   \* bound on the updates that arrive
  BatchLimit,   \* most updates in one getUpdates answer
  MaxBackoff    \* cap of the error backoff, in seconds (30 in the code)

ASSUME MsgsAssumption == Allowed \subseteq Msgs /\ Unmapped \notin Msgs
ASSUME BoundsAssumption ==
  /\ MaxUpdates \in Nat
  /\ BatchLimit \in Nat \ {0}
  /\ MaxBackoff \in Nat \ {0}

VARIABLES
  arrived,    \* the updates so far, in update_id order
  confirmed,  \* Telegram still holds the ids from here on
  rows,       \* rows[m]: the update whose revision the row of m shows, 0: no row
  kvOffset,   \* kv["update_offset"], 0 when the key is absent
  pc,         \* where each process is in Updater::run
  offset,     \* the loop's in-memory offset
  next,       \* update of the current batch to handle next
  last,       \* highest update_id of the current batch (max_update_id)
  backoff,    \* delay of the next error sleep
  tried,      \* history: ids handled at least once, in whatever way
  stored,     \* history: ids whose record_inbound committed at least once
  failed      \* history: ids whose record_inbound failed at least once

telegram == <<arrived, confirmed>>
store == <<rows, kvOffset>>
locals == <<offset, next, last, backoff>>
history == <<tried, stored, failed>>
vars == <<telegram, store, pc, locals, history>>

Locations == {"down", "ended", "ready", "waiting", "batch", "backing_off", "limited"}

Later(a, b) == IF a >= b THEN a ELSE b
Earlier(a, b) == IF a <= b THEN a ELSE b

Updates == Msgs \cup {Unmapped}
Storable(i) == arrived[i] \in Allowed

Init ==
  /\ arrived = <<>>
  /\ confirmed = 1
  /\ rows = [m \in Msgs |-> 0]
  /\ kvOffset = 0
  /\ pc = [p \in Procs |-> "down"]
  /\ offset = [p \in Procs |-> 0]
  /\ next = [p \in Procs |-> 0]
  /\ last = [p \in Procs |-> 0]
  /\ backoff = [p \in Procs |-> 1]
  /\ tried = {} /\ stored = {} /\ failed = {}

-----------------------------------------------------------------------------
(* Telegram *)

Arrive ==
  /\ Len(arrived) < MaxUpdates
  /\ \E u \in Updates : arrived' = Append(arrived, u)
  /\ UNCHANGED <<confirmed, store, pc, locals, history>>

-----------------------------------------------------------------------------
(* A process starts, ends and dies *)

\* kv_get("update_offset"), 0 when there is none.
Start(p) ==
  /\ pc[p] = "down"
  /\ pc' = [pc EXCEPT ![p] = "ready"]
  /\ offset' = [offset EXCEPT ![p] = kvOffset]
  /\ UNCHANGED <<telegram, store, next, last, backoff, history>>

\* kv_get fails: run() returns and the server lives on without an updater.
StartFails(p) ==
  /\ pc[p] = "down"
  /\ pc' = [pc EXCEPT ![p] = "ended"]
  /\ UNCHANGED <<telegram, store, locals, history>>

\* The process exits between two steps; what is in memory is gone.
Crash(p) ==
  /\ pc[p] # "down"
  /\ pc' = [pc EXCEPT ![p] = "down"]
  /\ offset' = [offset EXCEPT ![p] = 0]
  /\ next' = [next EXCEPT ![p] = 0]
  /\ last' = [last EXCEPT ![p] = 0]
  /\ backoff' = [backoff EXCEPT ![p] = 1]
  /\ UNCHANGED <<telegram, store, history>>

-----------------------------------------------------------------------------
(* get_updates_raw *)

\* The request reaches Telegram, which forgets the ids below its offset.
Request(p) ==
  /\ pc[p] = "ready"
  /\ pc' = [pc EXCEPT ![p] = "waiting"]
  /\ confirmed' = Later(confirmed, offset[p])
  /\ UNCHANGED <<arrived, store, locals, history>>

FirstHeld(p) == Later(confirmed, offset[p])
LastSent(p) == Earlier(Len(arrived), FirstHeld(p) + BatchLimit - 1)

\* Ok(updates): the backoff starts over; an empty answer has no max_update_id.
Answer(p) ==
  /\ pc[p] = "waiting"
  /\ backoff' = [backoff EXCEPT ![p] = 1]
  /\ IF FirstHeld(p) <= LastSent(p)
     THEN /\ pc' = [pc EXCEPT ![p] = "batch"]
          /\ next' = [next EXCEPT ![p] = FirstHeld(p)]
          /\ last' = [last EXCEPT ![p] = LastSent(p)]
     ELSE /\ pc' = [pc EXCEPT ![p] = "ready"]
          /\ UNCHANGED <<next, last>>
  /\ UNCHANGED <<telegram, store, offset, history>>

\* Err(RateLimited): sleep for retry_after, the backoff stays as it is.
RateLimited(p) ==
  /\ pc[p] = "waiting"
  /\ pc' = [pc EXCEPT ![p] = "limited"]
  /\ UNCHANGED <<telegram, store, locals, history>>

\* Any other Err, before or after the request reached Telegram.
PollError(p) ==
  /\ pc[p] \in {"ready", "waiting"}
  /\ pc' = [pc EXCEPT ![p] = "backing_off"]
  /\ UNCHANGED <<telegram, store, locals, history>>

\* Mutant: the doubling is not capped.
WakeAfterErrorUncapped(p) ==
  /\ pc[p] = "backing_off"
  /\ pc' = [pc EXCEPT ![p] = "ready"]
  /\ backoff' = [backoff EXCEPT ![p] = 2 * backoff[p]]
  /\ UNCHANGED <<telegram, store, offset, next, last, history>>

WakeAfterError(p) ==
  /\ pc[p] = "backing_off"
  /\ pc' = [pc EXCEPT ![p] = "ready"]
  /\ backoff' = [backoff EXCEPT ![p] = Earlier(2 * backoff[p], MaxBackoff)]
  /\ UNCHANGED <<telegram, store, offset, next, last, history>>

WakeAfterLimit(p) ==
  /\ pc[p] = "limited"
  /\ pc' = [pc EXCEPT ![p] = "ready"]
  /\ UNCHANGED <<telegram, store, locals, history>>
-----------------------------------------------------------------------------
(* The batch, one update at a time *)

InBatch(p) == pc[p] = "batch" /\ next[p] <= last[p]

Advance(p) ==
  /\ next' = [next EXCEPT ![p] = next[p] + 1]
  /\ tried' = tried \cup {next[p]}

\* map_update gives None, or the chat is not in allowed_chats: continue.
Skip(p) ==
  /\ InBatch(p)
  /\ ~Storable(next[p])
  /\ Advance(p)
  /\ UNCHANGED <<telegram, store, pc, offset, last, backoff, stored, failed>>

\* Mutant: ON CONFLICT DO NOTHING, an edit leaves the row as it is.
RecordUnlessPresent(p) ==
  /\ InBatch(p)
  /\ Storable(next[p])
  /\ Advance(p)
  /\ rows' = [rows EXCEPT ![arrived[next[p]]] = IF @ = 0 THEN next[p] ELSE @]
  /\ stored' = stored \cup {next[p]}
  /\ UNCHANGED <<telegram, kvOffset, pc, offset, last, backoff, failed>>

\* record_inbound commits: the row shows this revision, whatever it showed.
Record(p) ==
  /\ InBatch(p)
  /\ Storable(next[p])
  /\ Advance(p)
  /\ rows' = [rows EXCEPT ![arrived[next[p]]] = next[p]]
  /\ stored' = stored \cup {next[p]}
  /\ UNCHANGED <<telegram, kvOffset, pc, offset, last, backoff, failed>>

\* record_inbound fails and rolls back: the error is logged, the loop goes on.
RecordFails(p) ==
  /\ InBatch(p)
  /\ Storable(next[p])
  /\ Advance(p)
  /\ failed' = failed \cup {next[p]}
  /\ UNCHANGED <<telegram, store, pc, offset, last, backoff, stored>>

-----------------------------------------------------------------------------
(* The batch is done: persist the offset *)

\* Mutant: the offset may be persisted before the batch is through.
BatchStarted(p) == pc[p] = "batch"

BatchDone(p) == pc[p] = "batch" /\ next[p] > last[p]

LeaveBatch(p) ==
  /\ pc' = [pc EXCEPT ![p] = "ready"]
  /\ next' = [next EXCEPT ![p] = 0]
  /\ last' = [last EXCEPT ![p] = 0]

\* Mutant: one past last_update_id + 1.
PersistTooFar(p) ==
  /\ BatchDone(p)
  /\ kvOffset' = last[p] + 2
  /\ offset' = [offset EXCEPT ![p] = last[p] + 1]
  /\ LeaveBatch(p)
  /\ UNCHANGED <<telegram, rows, backoff, history>>

\* Mutant: last_update_id itself, which Telegram then sends again forever.
PersistLast(p) ==
  /\ BatchDone(p)
  /\ kvOffset' = last[p]
  /\ offset' = [offset EXCEPT ![p] = last[p]]
  /\ LeaveBatch(p)
  /\ UNCHANGED <<telegram, rows, backoff, history>>

\* Mutant: the in-memory offset is not moved along.
PersistOnly(p) ==
  /\ BatchDone(p)
  /\ kvOffset' = last[p] + 1
  /\ LeaveBatch(p)
  /\ UNCHANGED <<telegram, rows, offset, backoff, history>>

Persist(p) ==
  /\ BatchDone(p)
  /\ kvOffset' = last[p] + 1
  /\ offset' = [offset EXCEPT ![p] = last[p] + 1]
  /\ LeaveBatch(p)
  /\ UNCHANGED <<telegram, rows, backoff, history>>

\* Mutant: the in-memory offset moves to the end of the queue even so.
PersistFailsButMoves(p) ==
  /\ BatchDone(p)
  /\ offset' = [offset EXCEPT ![p] = Len(arrived) + 1]
  /\ LeaveBatch(p)
  /\ UNCHANGED <<telegram, store, backoff, history>>

\* kv_put fails: the in-memory offset stays, so the batch will be sent again.
PersistFails(p) ==
  /\ BatchDone(p)
  /\ LeaveBatch(p)
  /\ UNCHANGED <<telegram, store, offset, backoff, history>>

-----------------------------------------------------------------------------
Step(p) ==
  \/ Start(p) \/ StartFails(p) \/ Crash(p)
  \/ Request(p) \/ Answer(p) \/ RateLimited(p) \/ PollError(p)
  \/ WakeAfterError(p) \/ WakeAfterLimit(p)
  \/ Skip(p) \/ Record(p) \/ RecordFails(p)
  \/ Persist(p) \/ PersistFails(p)

Next == Arrive \/ \E p \in Procs : Step(p)

Spec == Init /\ [][Next]_vars

(***************************************************************************)
(* Fairness: tokio runs a ready task, a sleep ends, a request ends in an   *)
(* answer or an error (it has a timeout).  A loop that keeps polling gets  *)
(* its request and an answer through now and then, and one that keeps      *)
(* writing its offset succeeds now and then.  Nothing makes a user start   *)
(* a server or an update arrive.                                           *)
(***************************************************************************)
Fairness == \A p \in Procs :
  /\ WF_vars(Request(p) \/ PollError(p))
  /\ SF_vars(Request(p))
  /\ WF_vars(Answer(p) \/ RateLimited(p) \/ PollError(p))
  /\ SF_vars(Answer(p))
  /\ WF_vars(WakeAfterError(p) \/ WakeAfterLimit(p))
  /\ WF_vars(Skip(p) \/ Record(p) \/ RecordFails(p))
  /\ WF_vars(Persist(p) \/ PersistFails(p))
  /\ SF_vars(Persist(p))

LiveSpec == Spec /\ Fairness

-----------------------------------------------------------------------------
(* Properties *)

TypeOK ==
  /\ arrived \in Seq(Updates)
  /\ confirmed \in Nat \ {0}
  /\ rows \in [Msgs -> Nat]
  /\ kvOffset \in Nat
  /\ pc \in [Procs -> Locations]
  /\ offset \in [Procs -> Nat]
  /\ next \in [Procs -> Nat]
  /\ last \in [Procs -> Nat]
  /\ backoff \in [Procs -> 1..MaxBackoff]
  /\ tried \subseteq 1..Len(arrived)
  /\ stored \subseteq tried
  /\ failed \subseteq tried

\* Update i was handled: dropped on purpose, or handed to record_inbound.
Settled(i) ==
  /\ i \in 1..Len(arrived)
  /\ i \in tried
  /\ Storable(i) => i \in stored \cup failed

SettledBelow(n) == \A i \in 1..(n - 1) : Settled(i)

\* Telegram never forgets an update before some process has handled it,
\* whatever the crashes, errors and interleavings of the pollers sharing the
\* offset: the offset is persisted, and then sent, only after the batch.
ForgottenIsSettled == SettledBelow(confirmed)

\* A restart never resumes past an update that was not handled, and never past
\* the end of the queue (last_update_id + 1, not more).
ResumeIsSettled == SettledBelow(kvOffset)

\* Below the persisted offset the row of a message shows its latest revision:
\* neither a replay after a crash nor a replay after a failed kv_put brings an
\* older text back for good.  Holds of a single process.
LatestBelow(n) ==
  \A i \in 1..(n - 1) :
    Storable(i) /\ i \notin failed => rows[arrived[i]] >= i

LatestRevisionKept == LatestBelow(kvOffset)

\* A single process never records again an update below the persisted offset,
\* and never moves that offset back: replay is limited to the last batch.
ReplayOnlyFromResumePoint ==
  [][ /\ kvOffset' >= kvOffset
      /\ \A m \in Msgs : rows'[m] # rows[m] => rows'[m] >= kvOffset ]_vars

\* Inductive strengthening of the safety invariants: whatever a process holds in
\* memory - its offset, and its place in a batch - is settled as well.
BatchInBounds ==
  \A p \in Procs : pc[p] = "batch" =>
    next[p] \in 1..(last[p] + 1) /\ last[p] <= Len(arrived)

HeldIsSettled ==
  \A p \in Procs :
    /\ SettledBelow(offset[p])
    /\ pc[p] = "batch" => SettledBelow(next[p])

IInv ==
  /\ TypeOK
  /\ BatchInBounds
  /\ ForgottenIsSettled
  /\ ResumeIsSettled
  /\ HeldIsSettled

\* The strengthening for a single process: it holds the persisted offset, its
\* batch starts there, and Telegram has not forgotten more than that.
SoloInv ==
  /\ LatestBelow(kvOffset)
  /\ confirmed <= Later(kvOffset, 1)
  /\ \A p \in Procs :
       /\ pc[p] \in {"down", "ended"} => offset[p] = 0
       /\ pc[p] \notin {"down", "ended"} => offset[p] = kvOffset
       /\ pc[p] = "batch" => next[p] >= kvOffset /\ LatestBelow(next[p])

\* As the design has it ("restarts don't replay or skip"): every update for the
\* store below the persisted offset is in the store.
NothingSkipped ==
  \A i \in 1..(kvOffset - 1) : Storable(i) => i \in stored

Running(p) == pc[p] \notin {"down", "ended"}

\* While some updater stays up, every update that arrives is in the end
\* confirmed to Telegram, hence (ForgottenIsSettled) handled.
EventuallyConfirmed ==
  \A p \in Procs, i \in 1..MaxUpdates :
    <>[]Running(p) => (Len(arrived) >= i ~> confirmed > i)

\* The updater is an at-least-once inbox.
Inbox == INSTANCE Inbox WITH posted <- Len(arrived), forgotten <- confirmed - 1

ImplementsInbox == Inbox!Spec
=============================================================================
