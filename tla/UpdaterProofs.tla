--------------------------- MODULE UpdaterProofs ---------------------------
(***************************************************************************)
(* Proofs about Updater, for any number of processes, messages and updates.*)
(***************************************************************************)
EXTENDS Updater, TLAPS

(***************************************************************************)
(* Types and batch bounds.  tried \subseteq 1..Len(arrived) needs that a   *)
(* batch lies inside the queue, so the two are proved together.            *)
(***************************************************************************)
LEMMA InitTypes == Init => TypeOK /\ BatchInBounds
BY BoundsAssumption DEF Init, TypeOK, BatchInBounds, Locations

LEMMA NextTypes ==
  TypeOK /\ BatchInBounds /\ [Next]_vars => TypeOK' /\ BatchInBounds'
<1> SUFFICES ASSUME TypeOK, BatchInBounds, [Next]_vars
             PROVE  TypeOK' /\ BatchInBounds'
  OBVIOUS
<1> USE MsgsAssumption, BoundsAssumption
<1> USE DEF TypeOK, BatchInBounds, Locations, telegram, store, locals, history
<1>1. CASE Arrive
  <2>1. PICK u \in Updates : arrived' = Append(arrived, u)
    BY <1>1 DEF Arrive
  <2>2. arrived' \in Seq(Updates) /\ Len(arrived') = Len(arrived) + 1
    BY <2>1
  <2>. QED  BY <1>1, <2>2 DEF Arrive
<1>2. ASSUME NEW p \in Procs, Step(p)
      PROVE  TypeOK' /\ BatchInBounds'
  <2>1. CASE Start(p)
    <3>1. TypeOK'
      BY <2>1 DEF Start
    <3>2. BatchInBounds'
      BY <2>1 DEF Start
    <3>. QED  BY <3>1, <3>2
  <2>2. CASE StartFails(p)
    <3>1. TypeOK'
      BY <2>2 DEF StartFails
    <3>2. BatchInBounds'
      BY <2>2 DEF StartFails
    <3>. QED  BY <3>1, <3>2
  <2>3. CASE Crash(p)
    <3>1. TypeOK'
      BY <2>3 DEF Crash
    <3>2. BatchInBounds'
      BY <2>3 DEF Crash
    <3>. QED  BY <3>1, <3>2
  <2>4. CASE Request(p)
    <3>1. TypeOK'
      BY <2>4 DEF Request, Later
    <3>2. BatchInBounds'
      BY <2>4 DEF Request, Later
    <3>. QED  BY <3>1, <3>2
  <2>5. CASE Answer(p)
    <3>1. /\ FirstHeld(p) \in Nat \ {0}
          /\ LastSent(p) \in Nat
          /\ LastSent(p) <= Len(arrived)
      BY DEF FirstHeld, LastSent, Later, Earlier
    <3>2. CASE FirstHeld(p) <= LastSent(p)
      <4>. DEFINE f == FirstHeld(p)  l == LastSent(p)
      <4>1. /\ next' = [next EXCEPT ![p] = f]
            /\ last' = [last EXCEPT ![p] = l]
            /\ pc' = [pc EXCEPT ![p] = "batch"]
            /\ backoff' = [backoff EXCEPT ![p] = 1]
            /\ UNCHANGED <<telegram, store, offset, history>>
        BY <2>5, <3>2 DEF Answer
      <4>2. f \in 1..(l + 1) /\ f \in Nat /\ l \in Nat /\ l <= Len(arrived)
        BY <3>1, <3>2
      <4>. HIDE DEF f, l
      <4>3. TypeOK'
        BY <4>1, <4>2
      <4>4. BatchInBounds'
        BY <4>1, <4>2
      <4>. QED  BY <4>3, <4>4
    <3>3. CASE ~(FirstHeld(p) <= LastSent(p))
      <4>1. /\ pc' = [pc EXCEPT ![p] = "ready"]
            /\ backoff' = [backoff EXCEPT ![p] = 1]
            /\ UNCHANGED <<telegram, store, offset, next, last, history>>
        BY <2>5, <3>3 DEF Answer
      <4>2. TypeOK'
        BY <4>1
      <4>3. BatchInBounds'
        BY <4>1
      <4>. QED  BY <4>2, <4>3
    <3>. QED  BY <3>2, <3>3
  <2>6. CASE RateLimited(p)
    <3>1. TypeOK'
      BY <2>6 DEF RateLimited
    <3>2. BatchInBounds'
      BY <2>6 DEF RateLimited
    <3>. QED  BY <3>1, <3>2
  <2>7. CASE PollError(p)
    <3>1. TypeOK'
      BY <2>7 DEF PollError
    <3>2. BatchInBounds'
      BY <2>7 DEF PollError
    <3>. QED  BY <3>1, <3>2
  <2>8. CASE WakeAfterError(p)
    <3>1. TypeOK'
      BY <2>8 DEF WakeAfterError, Earlier
    <3>2. BatchInBounds'
      BY <2>8 DEF WakeAfterError, Earlier
    <3>. QED  BY <3>1, <3>2
  <2>9. CASE WakeAfterLimit(p)
    <3>1. TypeOK'
      BY <2>9 DEF WakeAfterLimit
    <3>2. BatchInBounds'
      BY <2>9 DEF WakeAfterLimit
    <3>. QED  BY <3>1, <3>2
  <2>10. CASE Skip(p)
    <3>1. next[p] \in 1..Len(arrived) /\ arrived[next[p]] \in Updates
      BY <2>10 DEF Skip, InBatch
    <3>2. tried' \subseteq 1..Len(arrived') /\ stored' \subseteq tried' /\ failed' \subseteq tried'
      BY <2>10, <3>1 DEF Skip, Advance
    <3>3. TypeOK'
      BY <2>10, <3>1, <3>2 DEF Skip, InBatch, Advance
    <3>4. BatchInBounds'
      BY <2>10, <3>1 DEF Skip, InBatch, Advance
    <3>. QED  BY <3>3, <3>4
  <2>11. CASE Record(p)
    <3>1. next[p] \in 1..Len(arrived) /\ arrived[next[p]] \in Updates
      BY <2>11 DEF Record, InBatch
    <3>2. tried' \subseteq 1..Len(arrived') /\ stored' \subseteq tried' /\ failed' \subseteq tried'
      BY <2>11, <3>1 DEF Record, Advance
    <3>3. TypeOK'
      BY <2>11, <3>1, <3>2 DEF Record, InBatch, Advance, Storable
    <3>4. BatchInBounds'
      BY <2>11, <3>1 DEF Record, InBatch, Advance, Storable
    <3>. QED  BY <3>3, <3>4
  <2>12. CASE RecordFails(p)
    <3>1. next[p] \in 1..Len(arrived) /\ arrived[next[p]] \in Updates
      BY <2>12 DEF RecordFails, InBatch
    <3>2. tried' \subseteq 1..Len(arrived') /\ stored' \subseteq tried' /\ failed' \subseteq tried'
      BY <2>12, <3>1 DEF RecordFails, Advance
    <3>3. TypeOK'
      BY <2>12, <3>1, <3>2 DEF RecordFails, InBatch, Advance
    <3>4. BatchInBounds'
      BY <2>12, <3>1 DEF RecordFails, InBatch, Advance
    <3>. QED  BY <3>3, <3>4
  <2>13. CASE Persist(p)
    <3>1. TypeOK'
      BY <2>13 DEF Persist, BatchDone, LeaveBatch
    <3>2. BatchInBounds'
      BY <2>13 DEF Persist, BatchDone, LeaveBatch
    <3>. QED  BY <3>1, <3>2
  <2>14. CASE PersistFails(p)
    <3>1. TypeOK'
      BY <2>14 DEF PersistFails, BatchDone, LeaveBatch
    <3>2. BatchInBounds'
      BY <2>14 DEF PersistFails, BatchDone, LeaveBatch
    <3>. QED  BY <3>1, <3>2
  <2>. QED  BY <1>2, <2>1, <2>2, <2>3, <2>4, <2>5, <2>6, <2>7, <2>8, <2>9, <2>10, <2>11, <2>12, <2>13, <2>14 DEF Step
<1>3. CASE UNCHANGED vars
  BY <1>3 DEF vars
<1>. QED  BY <1>1, <1>2, <1>3 DEF Next

(***************************************************************************)
(* What is settled stays settled: the queue only grows at its end and the  *)
(* history variables only grow.                                            *)
(***************************************************************************)
LEMMA QueueGrows ==
  ASSUME TypeOK, [Next]_vars
  PROVE  /\ Len(arrived) <= Len(arrived')
         /\ \A i \in 1..Len(arrived) : arrived'[i] = arrived[i]
<1>1. CASE Arrive
  <2>1. PICK u \in Updates : arrived' = Append(arrived, u)
    BY <1>1 DEF Arrive
  <2>. QED  BY <2>1 DEF TypeOK
<1>2. CASE ~Arrive
  <2>1. arrived' = arrived
    BY <1>2 DEF Next, Step, vars, telegram, Start, StartFails, Crash, Request, Answer,
       RateLimited, PollError, WakeAfterError, WakeAfterLimit, Skip, Record, RecordFails,
       Persist, PersistFails
  <2>. QED  BY <2>1 DEF TypeOK
<1>. QED  BY <1>1, <1>2

LEMMA HistoryGrows ==
  [Next]_vars => tried \subseteq tried' /\ stored \subseteq stored' /\ failed \subseteq failed'
BY DEF Next, Step, vars, history, Arrive, Start, StartFails, Crash, Request, Answer,
   RateLimited, PollError, WakeAfterError, WakeAfterLimit, Skip, Record, RecordFails,
   Persist, PersistFails, Advance

LEMMA SettledIsStable ==
  ASSUME TypeOK, [Next]_vars, NEW n \in Nat, SettledBelow(n)
  PROVE  SettledBelow(n)'
BY QueueGrows, HistoryGrows DEF SettledBelow, Settled, Storable

(***************************************************************************)
(* The inductive invariant.                                                *)
(***************************************************************************)
LEMMA InitIInv == Init => IInv
<1>. SUFFICES ASSUME Init PROVE IInv
  OBVIOUS
<1>1. TypeOK /\ BatchInBounds
  BY InitTypes
<1>2. 1..(0 - 1) = {} /\ 1..(1 - 1) = {}
  OBVIOUS
<1>. QED
  BY <1>1, <1>2 DEF Init, IInv, ForgottenIsSettled, ResumeIsSettled, HeldIsSettled, SettledBelow

\* The update a process is about to handle becomes settled when it is handled.
LEMMA HandledIsSettled ==
  ASSUME TypeOK, BatchInBounds, NEW p \in Procs,
         Skip(p) \/ Record(p) \/ RecordFails(p), SettledBelow(next[p])
  PROVE  SettledBelow(next[p])'
<1>1. next[p] \in 1..Len(arrived) /\ next[p] \in Nat
  BY DEF Skip, Record, RecordFails, InBatch, BatchInBounds, TypeOK
<1>2. arrived' = arrived /\ next'[p] = next[p] + 1 /\ tried' = tried \cup {next[p]}
  BY DEF Skip, Record, RecordFails, Advance, telegram, TypeOK
<1>3. stored \subseteq stored' /\ failed \subseteq failed'
  BY DEF Skip, Record, RecordFails
<1>4. Storable(next[p]) => next[p] \in stored' \cup failed'
  BY DEF Skip, Record, RecordFails
<1>5. \A i \in 1..next[p] : i \in 1..Len(arrived) /\ i \in tried'
                         /\ (Storable(i) => i \in stored' \cup failed')
  BY <1>1, <1>2, <1>3, <1>4 DEF SettledBelow, Settled
<1>6. \A i \in 1..next[p] : Settled(i)'
  BY <1>2, <1>5 DEF Settled, Storable
<1>. QED  BY <1>1, <1>2, <1>6 DEF SettledBelow

LEMMA NextIInv == IInv /\ [Next]_vars => IInv'
<1> SUFFICES ASSUME IInv, [Next]_vars PROVE IInv'
  OBVIOUS
<1>1. TypeOK /\ BatchInBounds /\ TypeOK' /\ BatchInBounds'
  BY NextTypes DEF IInv
<1>2. \A n \in Nat : SettledBelow(n) => SettledBelow(n)'
  BY <1>1, SettledIsStable
<1>3. ForgottenIsSettled /\ ResumeIsSettled /\ HeldIsSettled
  BY DEF IInv
<1>4. /\ confirmed \in Nat /\ kvOffset \in Nat
      /\ \A q \in Procs : offset[q] \in Nat /\ next[q] \in Nat /\ last[q] \in Nat
  BY <1>1 DEF TypeOK
<1>5. SettledBelow(confirmed)' /\ SettledBelow(kvOffset)'
  <2>1. CASE UNCHANGED <<confirmed, kvOffset>>
    BY <2>1, <1>2, <1>3, <1>4 DEF ForgottenIsSettled, ResumeIsSettled, SettledBelow
  <2>2. ASSUME NEW p \in Procs, Request(p)
        PROVE  SettledBelow(confirmed)' /\ SettledBelow(kvOffset)'
    <3>1. (confirmed' = confirmed \/ confirmed' = offset[p]) /\ kvOffset' = kvOffset
      BY <2>2 DEF Request, Later, store
    <3>2. SettledBelow(confirmed)' /\ SettledBelow(offset[p])
      BY <3>1, <1>2, <1>3, <1>4
      DEF ForgottenIsSettled, HeldIsSettled, SettledBelow
    <3>. QED  BY <3>1, <3>2, <1>2, <1>3, <1>4 DEF ResumeIsSettled, SettledBelow
  <2>3. ASSUME NEW p \in Procs, Persist(p)
        PROVE  SettledBelow(confirmed)' /\ SettledBelow(kvOffset)'
    <3>1. kvOffset' = next[p] /\ confirmed' = confirmed /\ SettledBelow(next[p])
      BY <2>3, <1>1, <1>3, <1>4
      DEF Persist, BatchDone, BatchInBounds, HeldIsSettled, telegram
    <3>. QED  BY <3>1, <1>2, <1>3, <1>4 DEF ForgottenIsSettled, SettledBelow
  <2>. QED
    BY <2>1, <2>2, <2>3 DEF Next, Step, vars, telegram, store, Arrive, Start, StartFails,
       Crash, Answer, RateLimited, PollError, WakeAfterError, WakeAfterLimit, Skip,
       Record, RecordFails, PersistFails
<1>6. ASSUME NEW q \in Procs, UNCHANGED <<offset[q], next[q], pc[q]>>
      PROVE  SettledBelow(offset[q])' /\ (pc'[q] = "batch" => SettledBelow(next[q])')
  BY <1>2, <1>3, <1>4, <1>6 DEF HeldIsSettled, SettledBelow
<1>7. ASSUME NEW p \in Procs, Step(p)
      PROVE  SettledBelow(offset[p])' /\ (pc'[p] = "batch" => SettledBelow(next[p])')
  <2>0. offset \in [Procs -> Nat] /\ next \in [Procs -> Nat] /\ pc \in [Procs -> Locations]
    BY <1>1 DEF TypeOK
  <2>1. CASE Start(p)
    <3>1. offset'[p] = kvOffset /\ pc'[p] = "ready"
      BY <2>0, <2>1 DEF Start
    <3>. QED  BY <3>1, <1>5, <2>1 DEF SettledBelow, Start, store
  <2>2. CASE Crash(p)
    <3>1. offset'[p] = 0 /\ pc'[p] = "down"
      BY <2>0, <2>2 DEF Crash
    <3>. QED  BY <3>1 DEF SettledBelow
  <2>3. CASE Answer(p)
    <3>1. offset'[p] = offset[p]
      BY <2>3 DEF Answer
    <3>2. pc'[p] = "batch" => next'[p] = FirstHeld(p)
      BY <2>0, <2>3 DEF Answer
    <3>3. FirstHeld(p) \in Nat /\ SettledBelow(FirstHeld(p))
      BY <1>3, <1>4 DEF FirstHeld, Later, ForgottenIsSettled, HeldIsSettled
    <3>4. SettledBelow(offset[p])
      BY <1>3 DEF HeldIsSettled
    <3>5. \A i \in 1..(FirstHeld(p) - 1) : Settled(i)'
      BY <3>3, <1>2 DEF SettledBelow
    <3>6. \A i \in 1..(offset[p] - 1) : Settled(i)'
      BY <3>4, <1>2, <1>4 DEF SettledBelow
    <3>. QED  BY <3>1, <3>2, <3>5, <3>6 DEF SettledBelow
  <2>4. CASE Skip(p) \/ Record(p) \/ RecordFails(p)
    <3>1. offset'[p] = offset[p] /\ pc[p] = "batch"
      BY <2>4 DEF Skip, Record, RecordFails, InBatch
    <3>2. SettledBelow(offset[p]) /\ SettledBelow(next[p])
      BY <3>1, <1>3 DEF HeldIsSettled
    <3>3. SettledBelow(next[p])'
      BY <3>2, <2>4, <1>1, HandledIsSettled
    <3>. QED  BY <3>1, <3>2, <3>3, <1>2, <1>4 DEF SettledBelow
  <2>5. CASE Persist(p)
    <3>1. offset'[p] = next[p] /\ pc'[p] = "ready" /\ pc[p] = "batch"
      BY <2>0, <2>5, <1>1, <1>4 DEF Persist, BatchDone, BatchInBounds, LeaveBatch
    <3>. QED  BY <3>1, <1>2, <1>3, <1>4 DEF HeldIsSettled, SettledBelow
  <2>6. CASE PersistFails(p)
    <3>1. offset'[p] = offset[p] /\ pc'[p] = "ready"
      BY <2>0, <2>6 DEF PersistFails, LeaveBatch
    <3>. QED  BY <3>1, <1>2, <1>3, <1>4 DEF HeldIsSettled, SettledBelow
  <2>7. CASE \/ StartFails(p) \/ Request(p) \/ RateLimited(p) \/ PollError(p)
             \/ WakeAfterError(p) \/ WakeAfterLimit(p)
    <3>1. offset'[p] = offset[p] /\ pc'[p] # "batch"
      BY <2>0, <2>7 DEF StartFails, Request, RateLimited, PollError, WakeAfterError,
         WakeAfterLimit, locals
    <3>. QED  BY <3>1, <1>2, <1>3, <1>4 DEF HeldIsSettled, SettledBelow
  <2>. QED  BY <1>7, <2>1, <2>2, <2>3, <2>4, <2>5, <2>6, <2>7 DEF Step
<1>8. HeldIsSettled'
  <2>1. CASE Arrive \/ UNCHANGED vars
    BY <2>1, <1>6 DEF HeldIsSettled, Arrive, vars, locals
  <2>2. ASSUME NEW p \in Procs, Step(p), NEW q \in Procs, q # p
        PROVE  UNCHANGED <<offset[q], next[q], pc[q]>>
    BY <2>2, <1>1 DEF TypeOK, Step, Start, StartFails, Crash, Request, Answer, RateLimited,
       PollError, WakeAfterError, WakeAfterLimit, Skip, Record, RecordFails, Persist,
       PersistFails, LeaveBatch, Advance, locals
  <2>. QED  BY <2>1, <2>2, <1>6, <1>7 DEF HeldIsSettled, Next
<1>. QED  BY <1>1, <1>5, <1>8 DEF IInv, ForgottenIsSettled, ResumeIsSettled

(***************************************************************************)
(* Type correctness, and the two facts the loop exists for: Telegram never *)
(* forgets an unhandled update, and no restart resumes past one.           *)
(***************************************************************************)
THEOREM Safety == Spec => []IInv
BY InitIInv, NextIInv, PTL DEF Spec

THEOREM TypeCorrect == Spec => []TypeOK
BY Safety, PTL DEF IInv

\* Whatever the number of processes, crashes and errors: every update below
\* what Telegram has forgotten was handled by some process.
THEOREM NeverForgottenUnhandled == Spec => []ForgottenIsSettled
BY Safety, PTL DEF IInv

\* And every update below the persisted offset was handled, so that a restart
\* misses nothing that was not handed to the store.
THEOREM RestartMissesNothing == Spec => []ResumeIsSettled
BY Safety, PTL DEF IInv

(***************************************************************************)
(* Refinement: every step of the loops is a step of Inbox or changes       *)
(* nothing that Inbox sees.                                                *)
(***************************************************************************)
LEMMA InitRefines == Init => Inbox!Init
BY DEF Init, Inbox!Init

LEMMA NextRefines == IInv /\ [Next]_vars => [Inbox!Next]_(Inbox!vars)
<1> SUFFICES ASSUME IInv, [Next]_vars PROVE [Inbox!Next]_(Inbox!vars)
  OBVIOUS
<1>1. TypeOK /\ BatchInBounds /\ HeldIsSettled
  BY DEF IInv
<1>. USE DEF Inbox!Next, Inbox!vars, telegram, history
<1>2. CASE Arrive
  <2>1. Len(arrived') = Len(arrived) + 1
    BY <1>1, <1>2 DEF Arrive, TypeOK
  <2>2. Inbox!Post
    BY <1>2, <2>1 DEF Arrive, Inbox!Post
  <2>. QED  BY <2>2
<1>3. ASSUME NEW p \in Procs, Step(p)
      PROVE  [Inbox!Next]_(Inbox!vars)
  <2>1. ASSUME InBatch(p)
        PROVE  next[p] \in 1..Len(arrived)
    BY <1>1, <2>1 DEF InBatch, TypeOK, BatchInBounds
  <2>2. CASE Skip(p)
    <3>1. Inbox!GiveUp(next[p])
      BY <2>2 DEF Skip, Advance, Inbox!GiveUp
    <3>. QED  BY <3>1, <2>1, <2>2 DEF Skip
  <2>3. CASE RecordFails(p)
    <3>1. Inbox!GiveUp(next[p])
      BY <2>3 DEF RecordFails, Advance, Inbox!GiveUp
    <3>. QED  BY <3>1, <2>1, <2>3 DEF RecordFails
  <2>4. CASE Record(p)
    <3>1. Inbox!Store(next[p])
      BY <2>4 DEF Record, Advance, Inbox!Store
    <3>. QED  BY <3>1, <2>1, <2>4 DEF Record
  <2>5. CASE Request(p)
    <3>1. CASE confirmed' = confirmed
      BY <2>5, <3>1 DEF Request
    <3>2. CASE confirmed' = offset[p] /\ offset[p] > confirmed
      <4>1. /\ offset[p] - 1 \in 1..Len(arrived)
            /\ 1..(offset[p] - 1) \subseteq tried
        BY <1>1, <3>2 DEF HeldIsSettled, SettledBelow, Settled, TypeOK
      <4>2. Inbox!Forget(offset[p] - 1)
        BY <1>1, <2>5, <3>2, <4>1 DEF Request, Inbox!Forget, TypeOK
      <4>. QED  BY <4>1, <4>2
    <3>. QED  BY <1>1, <2>5, <3>1, <3>2 DEF Request, Later, TypeOK
  <2>6. CASE \/ Start(p) \/ StartFails(p) \/ Crash(p) \/ Answer(p) \/ RateLimited(p)
             \/ PollError(p) \/ WakeAfterError(p) \/ WakeAfterLimit(p)
             \/ Persist(p) \/ PersistFails(p)
    BY <2>6 DEF Start, StartFails, Crash, Answer, RateLimited, PollError, WakeAfterError,
       WakeAfterLimit, Persist, PersistFails
  <2>. QED  BY <1>3, <2>2, <2>3, <2>4, <2>5, <2>6 DEF Step
<1>4. CASE UNCHANGED vars
  BY <1>4 DEF vars
<1>. QED  BY <1>2, <1>3, <1>4 DEF Next

\* The loops, however many share the database, implement the at-least-once inbox.
THEOREM Refinement == Spec => ImplementsInbox
BY Safety, InitRefines, NextRefines, PTL DEF Spec, ImplementsInbox, Inbox!Spec

-----------------------------------------------------------------------------
(* One updater alone on its database: rows never fall back below the         *)
(* persisted offset.  The assumption that there is one process is necessary: *)
(* with two, LatestRevisionKept fails.                                       *)

OneProcess == \A p, q \in Procs : p = q

LEMMA InitSolo == Init => SoloInv
<1>. SUFFICES ASSUME Init PROVE SoloInv
  OBVIOUS
<1>1. 1..(0 - 1) = {}
  OBVIOUS
<1>. QED  BY <1>1 DEF Init, SoloInv, LatestBelow, Later

\* Writing update n into the row of its message makes n the latest revision
\* of every row it concerns, and leaves the other rows alone.
LEMMA RecordKeepsLatest ==
  ASSUME TypeOK, BatchInBounds, NEW p \in Procs, Record(p),
         LatestBelow(next[p]), NEW n \in Nat, n <= next[p] + 1
  PROVE  LatestBelow(n)'
<1>1. /\ next[p] \in 1..Len(arrived)
      /\ arrived[next[p]] \in Msgs
      /\ arrived' = arrived /\ failed' = failed
      /\ rows' = [rows EXCEPT ![arrived[next[p]]] = next[p]]
  BY MsgsAssumption DEF Record, InBatch, BatchInBounds, TypeOK, Storable, telegram
<1>2. SUFFICES ASSUME NEW i \in 1..(n - 1), Storable(i), i \notin failed
               PROVE  rows'[arrived[i]] >= i
  BY <1>1 DEF Storable, LatestBelow
<1>3. arrived[i] \in Msgs /\ i <= next[p] /\ i \in Nat
  BY <1>1, <1>2, MsgsAssumption DEF Storable, TypeOK
<1>4. CASE arrived[i] = arrived[next[p]]
  BY <1>1, <1>3, <1>4 DEF TypeOK
<1>5. CASE arrived[i] # arrived[next[p]]
  <2>1. rows'[arrived[i]] = rows[arrived[i]]
    BY <1>1, <1>3, <1>5 DEF TypeOK
  <2>2. i # next[p]
    BY <1>5
  <2>3. i \in 1..(next[p] - 1)
    BY <1>1, <1>3, <2>2
  <2>. QED  BY <1>2, <2>1, <2>3 DEF LatestBelow
<1>. QED  BY <1>4, <1>5

\* Without a write to the rows, what is settled and latest stays the latest.
LEMMA LatestIsStable ==
  ASSUME TypeOK, [Next]_vars, rows' = rows,
         NEW n \in Nat, SettledBelow(n), LatestBelow(n)
  PROVE  LatestBelow(n)'
BY QueueGrows, HistoryGrows DEF LatestBelow, SettledBelow, Settled, Storable

LEMMA NextSolo ==
  ASSUME OneProcess, IInv, SoloInv, [Next]_vars
  PROVE  /\ SoloInv'
         /\ kvOffset' >= kvOffset
         /\ \A m \in Msgs : rows'[m] # rows[m] => rows'[m] >= kvOffset
<1>1. TypeOK /\ BatchInBounds /\ HeldIsSettled /\ SettledBelow(kvOffset)
  BY DEF IInv, ResumeIsSettled
<1>2. /\ kvOffset \in Nat /\ confirmed \in Nat \ {0} /\ rows \in [Msgs -> Nat]
      /\ pc \in [Procs -> Locations] /\ offset \in [Procs -> Nat]
      /\ next \in [Procs -> Nat] /\ last \in [Procs -> Nat]
  BY <1>1 DEF TypeOK
<1>3. ASSUME UNCHANGED rows
      PROVE  \A n \in Nat : SettledBelow(n) /\ LatestBelow(n) => LatestBelow(n)'
  BY <1>1, <1>3, LatestIsStable
<1>4. CASE Arrive \/ UNCHANGED vars
  <2>1. UNCHANGED <<confirmed, rows, kvOffset, pc, offset, next>>
    BY <1>4 DEF Arrive, vars, telegram, store, locals
  <2>2. LatestBelow(kvOffset)'
    BY <1>1, <1>2, <1>3, <2>1 DEF SoloInv, LatestBelow
  <2>3. \A p \in Procs : pc[p] = "batch" => LatestBelow(next[p])'
    BY <1>1, <1>2, <1>3, <2>1 DEF SoloInv, HeldIsSettled, LatestBelow
  <2>. QED  BY <1>2, <2>1, <2>2, <2>3 DEF SoloInv
<1>5. ASSUME NEW p \in Procs, Step(p)
      PROVE  /\ SoloInv'
             /\ kvOffset' >= kvOffset
             /\ \A m \in Msgs : rows'[m] # rows[m] => rows'[m] >= kvOffset
  <2>0. Procs = {p}
    BY DEF OneProcess
  <2>1. CASE Record(p)
    <3>1. /\ next[p] >= kvOffset /\ LatestBelow(next[p]) /\ offset[p] = kvOffset
          /\ confirmed <= Later(kvOffset, 1)
      BY <2>1 DEF Record, InBatch, SoloInv
    <3>2. /\ UNCHANGED <<confirmed, kvOffset, pc, offset>> /\ pc[p] = "batch"
          /\ next'[p] = next[p] + 1
          /\ arrived[next[p]] \in Msgs
          /\ rows' = [rows EXCEPT ![arrived[next[p]]] = next[p]]
      BY <1>2, <2>1, MsgsAssumption DEF Record, InBatch, Advance, Storable, telegram
    <3>3. \A n \in Nat : n <= next[p] + 1 => LatestBelow(n)'
      BY <1>1, <2>1, <3>1, RecordKeepsLatest
    <3>4. LatestBelow(kvOffset)' /\ LatestBelow(next[p])'
      BY <1>2, <3>1, <3>2, <3>3 DEF LatestBelow
    <3>5. SoloInv'
      BY <1>2, <2>0, <3>1, <3>2, <3>4 DEF SoloInv
    <3>. QED  BY <1>2, <3>1, <3>2, <3>5
  <2>2. CASE ~Record(p)
    <3>1. rows' = rows
      BY <1>5, <2>2 DEF Step, Start, StartFails, Crash, Request, Answer, RateLimited,
         PollError, WakeAfterError, WakeAfterLimit, Skip, RecordFails, Persist,
         PersistFails, store
    <3>2. \A n \in Nat : SettledBelow(n) /\ LatestBelow(n) => LatestBelow(n)'
      BY <1>3, <3>1
    <3>3. CASE Persist(p)
      <4>1. /\ next[p] >= kvOffset /\ LatestBelow(next[p]) /\ SettledBelow(next[p])
            /\ last[p] + 1 = next[p]
        BY <1>1, <1>2, <3>3 DEF Persist, BatchDone, SoloInv, BatchInBounds, HeldIsSettled
      <4>2. /\ kvOffset' = next[p] /\ offset'[p] = next[p] /\ pc'[p] = "ready"
            /\ confirmed' = confirmed
        BY <1>2, <3>3, <4>1 DEF Persist, LeaveBatch, telegram
      <4>3. LatestBelow(kvOffset)'
        BY <1>2, <3>2, <4>1, <4>2 DEF LatestBelow
      <4>4. confirmed' <= Later(kvOffset', 1)
        BY <1>2, <4>1, <4>2 DEF SoloInv, Later
      <4>. QED  BY <1>2, <2>0, <3>1, <4>1, <4>2, <4>3, <4>4 DEF SoloInv
    <3>4. CASE ~Persist(p)
      <4>1. kvOffset' = kvOffset
        BY <1>5, <2>2, <3>4 DEF Step, Start, StartFails, Crash, Request, Answer,
           RateLimited, PollError, WakeAfterError, WakeAfterLimit, Skip, RecordFails,
           PersistFails, store
      <4>2. LatestBelow(kvOffset)'
        BY <1>1, <1>2, <3>2, <4>1 DEF SoloInv, LatestBelow
      <4>3. confirmed' <= Later(kvOffset', 1)
        <5>1. CASE Request(p)
          BY <1>2, <4>1, <5>1 DEF Request, SoloInv, Later
        <5>2. CASE ~Request(p)
          BY <1>5, <2>2, <3>4, <4>1, <5>2 DEF SoloInv, Step, Start, StartFails, Crash,
             Answer, RateLimited, PollError, WakeAfterError, WakeAfterLimit, Skip,
             RecordFails, PersistFails, telegram
        <5>. QED  BY <5>1, <5>2
      <4>4. /\ pc'[p] \in {"down", "ended"} => offset'[p] = 0
            /\ pc'[p] \notin {"down", "ended"} => offset'[p] = kvOffset
        BY <1>2, <1>5, <2>2, <3>4 DEF SoloInv, Step, Start, StartFails, Crash, Request,
           Answer, RateLimited, PollError, WakeAfterError, WakeAfterLimit, Skip,
           RecordFails, PersistFails, LeaveBatch, InBatch, BatchDone, Advance, locals
      <4>5. pc'[p] = "batch" => next'[p] >= kvOffset /\ LatestBelow(next[p])'
        <5>1. CASE Answer(p)
          <6>1. offset[p] = kvOffset /\ confirmed <= Later(kvOffset, 1)
            BY <5>1 DEF Answer, SoloInv
          <6>2. FirstHeld(p) = kvOffset \/ (FirstHeld(p) = 1 /\ kvOffset = 0)
            BY <1>2, <6>1 DEF FirstHeld, Later
          <6>3. pc'[p] = "batch" => next'[p] = FirstHeld(p)
            BY <1>2, <5>1 DEF Answer
          <6>4. 1..(1 - 1) = {}
            OBVIOUS
          <6>. QED  BY <1>2, <4>1, <4>2, <6>2, <6>3, <6>4 DEF LatestBelow
        <5>2. CASE Skip(p) \/ RecordFails(p)
          <6>1. /\ pc[p] = "batch" /\ next'[p] = next[p] + 1 /\ arrived' = arrived
                /\ ~Storable(next[p]) \/ next[p] \in failed'
            BY <1>2, <5>2 DEF Skip, RecordFails, InBatch, Advance, telegram
          <6>2. /\ next[p] >= kvOffset
                /\ SettledBelow(next[p]) /\ LatestBelow(next[p])
            BY <1>1, <6>1 DEF SoloInv, HeldIsSettled
          <6>3. \A i \in 1..(next[p] - 1) :
                  Storable(i) /\ i \notin failed' => rows'[arrived[i]] >= i
            BY <1>2, <3>2, <6>1, <6>2 DEF LatestBelow, Storable
          <6>. QED  BY <1>2, <6>1, <6>2, <6>3 DEF LatestBelow, Storable
        <5>3. CASE ~Answer(p) /\ ~Skip(p) /\ ~RecordFails(p)
          <6>1. pc'[p] # "batch"
            BY <1>2, <1>5, <2>2, <3>4, <5>3 DEF Step, Start, StartFails, Crash, Request,
               RateLimited, PollError, WakeAfterError, WakeAfterLimit, PersistFails,
               LeaveBatch
          <6>. QED  BY <6>1
        <5>. QED  BY <5>1, <5>2, <5>3
      <4>. QED  BY <1>2, <2>0, <3>1, <4>1, <4>2, <4>3, <4>4, <4>5 DEF SoloInv
    <3>. QED  BY <3>3, <3>4
  <2>. QED  BY <2>1, <2>2
<1>. QED  BY <1>4, <1>5 DEF Next

\* With a single updater, the row of a message shows the latest revision below
\* the persisted offset whose write did not fail, through every crash, failed
\* offset write and replay.
THEOREM LatestKept ==
  ASSUME OneProcess
  PROVE  Spec => []LatestRevisionKept
<1>1. Init => SoloInv
  BY InitSolo
<1>2. IInv /\ SoloInv /\ [Next]_vars => SoloInv'
  BY NextSolo
<1>3. SoloInv => LatestRevisionKept
  BY DEF SoloInv, LatestRevisionKept
<1>. QED  BY <1>1, <1>2, <1>3, Safety, PTL DEF Spec

\* With a single updater, the persisted offset never moves back and no row is
\* rewritten from an update below it.
THEOREM ReplayBounded ==
  ASSUME OneProcess
  PROVE  Spec => ReplayOnlyFromResumePoint
<1>1. Init => SoloInv
  BY InitSolo
<1>2. IInv /\ SoloInv /\ [Next]_vars => SoloInv'
  BY NextSolo
<1>3. IInv /\ SoloInv /\ [Next]_vars =>
        [ /\ kvOffset' >= kvOffset
          /\ \A m \in Msgs : rows'[m] # rows[m] => rows'[m] >= kvOffset ]_vars
  BY NextSolo
<1>. QED  BY <1>1, <1>2, <1>3, Safety, PTL DEF Spec, ReplayOnlyFromResumePoint
=============================================================================
