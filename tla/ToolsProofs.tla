---------------------------- MODULE ToolsProofs ----------------------------
(***************************************************************************)
(* Proofs about Tools, for any number of calls, chats, messages and        *)
(* revisions: the history holds what Telegram accepted, and where a chat   *)
(* may be sent to, and its latest text unless a call failed or two calls   *)
(* mirrored one message at once.                                           *)
(***************************************************************************)
EXTENDS Tools, TLAPS

Message == [chat : Chats, by : {"user", "send", "forward"}, rev : 1..MaxRevisions, there : BOOLEAN]
CallType == [tool : Tool, step : Steps, chat : Chats \cup {None}, source : 0..MaxMessages,
             message : 0..MaxMessages, rev : 0..MaxRevisions]

\* Where a call is says what it knows: a chat it may send to from the start, in which a
\* message to delete is, and a message at a revision it has had once Telegram has
\* answered, the first of a forwarded one just after a forward.
CallSound(k) ==
  /\ call[k].step = "idle" => call[k] = Idle
  /\ call[k].step = "asking" => call[k].message = 0 /\ call[k].rev = 0
  /\ call[k].step # "idle" =>
       /\ call[k].chat \in Chats /\ SendAllowed(call[k].chat)
       /\ call[k].source \in Messages \cup {0}
       /\ call[k].tool = "send" <=> call[k].source = 0
  /\ call[k].step = "asking" /\ call[k].tool = "delete" =>
       posted[call[k].source].chat = call[k].chat
  /\ call[k].step \in {"answered", "touched"} =>
       /\ call[k].message \in Messages
       /\ IF call[k].tool = "delete" THEN call[k].rev = 0
          ELSE /\ call[k].rev \in 1..posted[call[k].message].rev
               /\ call[k].tool = "forward" <=>
                    posted[call[k].message].by = "forward" /\ call[k].rev = 1
  /\ call[k].step = "touched" => call[k].tool # "delete"

CallsSound == \A k \in Calls : CallSound(k)

\* What the bot has posted or deleted is where it may send.
PostedAllowed ==
  \A m \in Messages : Own(m) \/ ~ posted[m].there => SendAllowed(posted[m].chat)

\* A text is none, of a forward, or of a revision that the message has had.
Had(m, text) ==
  IF text = NoText THEN posted[m].by = "forward" ELSE text <= posted[m].rev

\* A row is of a message that was posted, at a revision it has had.
RowsPosted ==
  \A m \in Ids : rows[m] # 0 => m \in Messages /\ Had(m, rows[m])

\* A call has an answer for m that it has not put into the history yet.
Mirrors(k, m) == call[k].message = m /\ call[k].tool # "delete"

\* Of a message whose mirroring was neither lost nor overtaken, one call at most
\* has an answer, which is the latest; with none, the row is the latest or gone.
InOrder(m) ==
  /\ \A j, k \in Calls : Mirrors(j, m) /\ Mirrors(k, m) => j = k
  /\ \A k \in Calls : Mirrors(k, m) => call[k].rev = posted[m].rev
  /\ (\A k \in Calls : ~ Mirrors(k, m)) => rows[m] \in {0, Latest(m)}

OrderKept == \A m \in Messages \ unordered : InOrder(m)

IInv ==
  /\ TypeOK
  /\ CallsSound
  /\ PostedAllowed
  /\ RowsPosted
  /\ ReportedIsStored
  /\ OrderKept

-----------------------------------------------------------------------------
(* What a step leaves alone *)

LEMMA PostedTypes ==
  ASSUME TypeOK
  PROVE  /\ Len(posted) \in Nat /\ Len(posted) <= MaxMessages
         /\ Messages = 1..Len(posted) /\ Messages \subseteq Ids /\ 0 \notin Messages
         /\ \A m \in Messages : posted[m] \in Message
<1>1. posted \in Seq(Message) /\ Len(posted) <= MaxMessages
  BY DEF TypeOK, Message
<1>. QED  BY <1>1, BoundsAssumption DEF Messages, Ids

LEMMA CallTypes ==
  ASSUME TypeOK, NEW k \in Calls
  PROVE  call \in [Calls -> CallType] /\ call[k] \in CallType
BY DEF TypeOK, CallType

\* Telegram forgets no message, moves none to another chat, and takes no revision back.
Grows ==
  \A m \in Messages :
    /\ m \in Messages'
    /\ posted'[m].chat = posted[m].chat /\ posted'[m].by = posted[m].by
    /\ posted'[m].rev \in Nat /\ posted[m].rev <= posted'[m].rev

LEMMA StandsStill ==
  ASSUME TypeOK, posted' = posted
  PROVE  Grows
<1>1. \A m \in Messages : posted[m].rev \in Nat
  BY PostedTypes, BoundsAssumption DEF Message
<1>. QED  BY <1>1 DEF Grows, Messages

\* A call that takes no part in the step.
LEMMA BystanderSound ==
  ASSUME TypeOK, Grows, NEW j \in Calls, CallSound(j), call'[j] = call[j]
  PROVE  CallSound(j)'
<1>1. /\ call[j].step = "idle" => call'[j] = Idle
      /\ call[j].step = "asking" => call[j].message = 0 /\ call[j].rev = 0
      /\ call[j].step # "idle" =>
           /\ call[j].chat \in Chats /\ SendAllowed(call[j].chat)
           /\ call[j].source \in Messages' \cup {0}
           /\ call[j].tool = "send" <=> call[j].source = 0
      /\ call[j].step = "touched" => call[j].tool # "delete"
  BY DEF CallSound, Grows
<1>2. ASSUME call[j].step = "asking", call[j].tool = "delete"
      PROVE  posted'[call[j].source].chat = call[j].chat
  <2>1. /\ call[j].source \in Messages
        /\ posted[call[j].source].chat = call[j].chat
    BY <1>2 DEF CallSound
  <2>. QED  BY <2>1 DEF Grows
<1>3. ASSUME call[j].step \in {"answered", "touched"}
      PROVE  /\ call[j].message \in Messages'
             /\ IF call[j].tool = "delete" THEN call[j].rev = 0
                ELSE /\ call[j].rev \in 1..posted'[call[j].message].rev
                     /\ call[j].tool = "forward" <=>
                          posted'[call[j].message].by = "forward" /\ call[j].rev = 1
  <2>1. /\ call[j].message \in Messages
        /\ call[j].tool = "delete" => call[j].rev = 0
        /\ call[j].tool # "delete" =>
             /\ call[j].rev \in 1..posted[call[j].message].rev
             /\ call[j].tool = "forward" <=>
                  posted[call[j].message].by = "forward" /\ call[j].rev = 1
    BY <1>3 DEF CallSound
  <2>2. posted[call[j].message].rev \in Nat
    BY <2>1, PostedTypes, BoundsAssumption DEF Message
  <2>. QED  BY <2>1, <2>2 DEF Grows
<1>. QED  BY <1>1, <1>2, <1>3 DEF CallSound, SendAllowed

\* Rows that are only taken away, while Telegram's messages stay.
LEMMA RowsFewer ==
  ASSUME TypeOK, RowsPosted, Grows, \A m \in Ids : rows'[m] \in {rows[m], 0}
  PROVE  RowsPosted'
<1>. SUFFICES ASSUME NEW m \in Ids, rows'[m] # 0
              PROVE  m \in Messages' /\ Had(m, rows[m])'
  BY DEF RowsPosted, Ids
<1>1. rows'[m] = rows[m] /\ m \in Messages /\ Had(m, rows[m])
  BY DEF RowsPosted
<1>2. rows[m] \in Nat \cup {NoText} /\ posted[m].rev \in Nat
  BY <1>1, PostedTypes, BoundsAssumption DEF TypeOK, Message
<1>. QED  BY <1>1, <1>2, TextAssumption DEF Grows, Had

\* A message that the step is not about.
LEMMA OthersInOrder ==
  ASSUME OrderKept, unordered \subseteq unordered', NEW m \in Messages \ unordered',
         posted'[m].rev = posted[m].rev, posted'[m].by = posted[m].by, rows'[m] \in {rows[m], 0},
         \A j \in Calls : /\ Mirrors(j, m)' <=> Mirrors(j, m)
                          /\ Mirrors(j, m) => call'[j].rev = call[j].rev
  PROVE  InOrder(m)'
<1>1. InOrder(m)
  BY DEF OrderKept
<1>. QED  BY <1>1 DEF InOrder, Latest

\* A step of one call alone that is not mirroring, before and after.
LEMMA QuietStep ==
  ASSUME IInv, NEW k \in Calls, UNCHANGED <<posted, rows, reported, unordered>>,
         lastSeen' \in [Chats -> 0..MaxMessages],
         call' \in [Calls -> CallType], \A j \in Calls \ {k} : call'[j] = call[j],
         CallSound(k)',
         \A m \in Messages : ~ Mirrors(k, m) /\ ~ Mirrors(k, m)'
  PROVE  IInv'
<1>1. TypeOK'
  BY DEF IInv, TypeOK, CallType
<1>2. Grows
  BY StandsStill DEF IInv
<1>3. CallsSound'
  BY <1>2, BystanderSound DEF IInv, CallsSound
<1>4. RowsPosted' /\ PostedAllowed' /\ ReportedIsStored'
  BY DEF IInv, RowsPosted, Had, PostedAllowed, Own, ReportedIsStored, Messages, SendAllowed
<1>5. OrderKept'
  <2>. SUFFICES ASSUME NEW m \in Messages \ unordered
                PROVE  InOrder(m)'
    BY DEF OrderKept, Messages
  <2>1. \A j \in Calls : /\ Mirrors(j, m)' <=> Mirrors(j, m)
                         /\ Mirrors(j, m) => call'[j].rev = call[j].rev
    BY DEF Mirrors
  <2>. QED  BY <2>1, OthersInOrder DEF IInv
<1>. QED  BY <1>1, <1>3, <1>4, <1>5 DEF IInv

-----------------------------------------------------------------------------
(* The steps *)

LEMMA ToolsInit == Init => IInv
<1>. SUFFICES ASSUME Init PROVE IInv
  OBVIOUS
<1>1. Messages = {}
  BY DEF Init, Messages
<1>2. TypeOK
  BY BoundsAssumption DEF Init, TypeOK, Idle, Ids, Tool, Steps
<1>3. CallsSound
  BY DEF Init, CallsSound, CallSound, Idle
<1>4. RowsPosted /\ PostedAllowed /\ ReportedIsStored /\ OrderKept
  BY <1>1 DEF Init, RowsPosted, PostedAllowed, ReportedIsStored, OrderKept
<1>. QED  BY <1>2, <1>3, <1>4 DEF IInv

LEMMA BeginStep ==
  ASSUME IInv, NEW k \in Calls, NEW tool \in Tool \ {"none"}, NEW c \in Chats,
         NEW m \in Messages \cup {0}, Begin(k, tool, c, m)
  PROVE  IInv'
<1>1. PICK new : new = [tool |-> tool, step |-> "asking", chat |-> c, source |-> m,
                        message |-> 0, rev |-> 0]
  OBVIOUS
<1>2. /\ call' = [call EXCEPT ![k] = new] /\ UNCHANGED <<posted, rows, lastSeen, reported, unordered>>
      /\ call[k].step = "idle" /\ SendAllowed(c) /\ (tool = "send" <=> m = 0)
      /\ tool = "delete" => posted[m].chat = c
  BY <1>1 DEF Begin, world
<1>3. new \in CallType
  BY <1>1, PostedTypes, BoundsAssumption DEF IInv, CallType, Steps, Ids
<1>4. /\ call' \in [Calls -> CallType] /\ call'[k] = new
      /\ \A j \in Calls \ {k} : call'[j] = call[j]
  BY <1>2, <1>3, CallTypes DEF IInv
<1>5. CallSound(k)'
  BY <1>1, <1>2, <1>4 DEF CallSound, SendAllowed, Messages
<1>6. call[k] = Idle
  BY <1>2 DEF IInv, CallsSound, CallSound
<1>7. \A x \in Messages : ~ Mirrors(k, x) /\ ~ Mirrors(k, x)'
  BY <1>1, <1>4, <1>6, PostedTypes DEF Mirrors, Idle, IInv
<1>. QED  BY <1>2, <1>4, <1>5, <1>7, QuietStep DEF IInv, TypeOK

\* The message is the newest, and no call but k knows of it.
LEMMA AcceptNewStep ==
  ASSUME IInv, NEW k \in Calls, AcceptNew(k)
  PROVE  IInv'
<1>1. PICK n, new : n = Len(posted) + 1 /\ new = New(call[k].chat, call[k].tool)
  OBVIOUS
<1>2. /\ call[k].step = "asking" /\ call[k].tool \in {"send", "forward"}
      /\ n <= MaxMessages
      /\ posted' = Append(posted, new)
      /\ call' = [call EXCEPT ![k].step = "answered", ![k].message = n, ![k].rev = 1]
      /\ UNCHANGED <<rows, lastSeen, reported, unordered>>
  BY <1>1, PostedTypes, BoundsAssumption DEF AcceptNew, Answered, IInv
<1>3. /\ call[k].chat \in Chats /\ SendAllowed(call[k].chat)
      /\ call[k].source \in Messages \cup {0}
      /\ call[k].tool = "send" <=> call[k].source = 0
      /\ call[k].message = 0
  BY <1>2 DEF IInv, CallsSound, CallSound
<1>4. /\ new \in Message /\ new.rev = 1 /\ new.chat = call[k].chat
      /\ new.by = call[k].tool
  BY <1>1, <1>2, <1>3, BoundsAssumption DEF New, Message
<1>5. /\ posted' \in Seq(Message) /\ Len(posted') = n
      /\ Messages' = Messages \cup {n} /\ n \notin Messages /\ n \in Ids
      /\ posted'[n] = new /\ \A m \in Messages : posted'[m] = posted[m]
  <2>1. posted \in Seq(Message)
    BY DEF IInv, TypeOK, Message
  <2>. QED  BY <1>1, <1>2, <1>4, <2>1 DEF Messages, Ids
<1>6. Grows
  <2>1. \A m \in Messages : posted[m].rev \in Nat
    BY PostedTypes, BoundsAssumption DEF IInv, Message
  <2>. QED  BY <1>5, <2>1 DEF Grows
<1>7. /\ call' \in [Calls -> CallType]
      /\ \A j \in Calls \ {k} : call'[j] = call[j]
      /\ call'[k] = [call[k] EXCEPT !.step = "answered", !.message = n, !.rev = 1]
  <2>1. call \in [Calls -> CallType] /\ call[k] \in CallType
    BY CallTypes DEF IInv
  <2>2. n \in 0..MaxMessages /\ 1 \in 0..MaxRevisions /\ "answered" \in Steps
    BY <1>5, BoundsAssumption DEF Steps, Ids
  <2>3. [call[k] EXCEPT !.step = "answered", !.message = n, !.rev = 1] \in CallType
    BY <2>1, <2>2 DEF CallType
  <2>. QED  BY <1>2, <2>1, <2>3
<1>8. /\ call'[k].step = "answered" /\ call'[k].message = n /\ call'[k].rev = 1
      /\ call'[k].tool = call[k].tool /\ call'[k].chat = call[k].chat
      /\ call'[k].source = call[k].source
  <2>1. call[k] \in CallType
    BY CallTypes DEF IInv
  <2>. QED  BY <1>7, <2>1 DEF CallType
<1>9. TypeOK'
  BY <1>2, <1>5, <1>7, BoundsAssumption DEF IInv, TypeOK, Message, CallType, Ids
<1>10. CallsSound'
  <2>1. CallSound(k)'
    BY <1>2, <1>3, <1>4, <1>5, <1>8 DEF CallSound, SendAllowed
  <2>. QED  BY <1>6, <1>7, <2>1, BystanderSound DEF IInv, CallsSound
<1>11. PostedAllowed'
  BY <1>3, <1>4, <1>5 DEF IInv, PostedAllowed, Own, SendAllowed
<1>12. RowsPosted' /\ ReportedIsStored'
  BY <1>2, <1>6, RowsFewer DEF IInv, ReportedIsStored
<1>13. OrderKept'
  <2>. SUFFICES ASSUME NEW m \in Messages' \ unordered
                PROVE  InOrder(m)'
    BY <1>2 DEF OrderKept
  <2>1. CASE m = n
    <3>1. \A j \in Calls \ {k} : ~ Mirrors(j, n)'
      <4>1. \A j \in Calls : call[j].message \in Messages \cup {0}
        BY CallTypes DEF IInv, CallsSound, CallSound, CallType, Steps, Idle
      <4>. QED  BY <1>5, <1>7, <4>1, PostedTypes DEF Mirrors, IInv, Ids
    <3>2. Mirrors(k, n)' /\ call'[k].rev = posted'[n].rev
      BY <1>2, <1>4, <1>5, <1>8 DEF Mirrors
    <3>. QED  BY <2>1, <3>1, <3>2 DEF InOrder
  <2>2. CASE m # n
    <3>1. m \in Messages /\ posted'[m] = posted[m]
      BY <1>5, <2>2
    <3>2. ~ Mirrors(k, m) /\ ~ Mirrors(k, m)'
      BY <1>3, <1>8, <2>2, <3>1, PostedTypes DEF Mirrors, IInv
    <3>3. \A j \in Calls : /\ Mirrors(j, m)' <=> Mirrors(j, m)
                           /\ Mirrors(j, m) => call'[j].rev = call[j].rev
      BY <1>7, <3>2 DEF Mirrors
    <3>. QED  BY <1>2, <3>1, <3>3, OthersInOrder DEF IInv
  <2>. QED  BY <2>1, <2>2
<1>. QED  BY <1>9, <1>10, <1>11, <1>12, <1>13 DEF IInv

\* With another call still mirroring the message it is in order no more; with none,
\* k has the latest revision.
LEMMA AcceptEditStep ==
  ASSUME IInv, NEW k \in Calls, AcceptEdit(k)
  PROVE  IInv'
<1>1. PICK n, r : n = call[k].source /\ r = posted[n].rev + 1
  OBVIOUS
<1>2. /\ call[k].step = "asking" /\ call[k].tool = "edit"
      /\ Own(n) /\ posted[n].rev < MaxRevisions
      /\ posted' = [posted EXCEPT ![n].rev = @ + 1]
      /\ call' = [call EXCEPT ![k].step = "answered", ![k].message = n, ![k].rev = r]
      /\ unordered' = IF Mirroring(k, n) THEN unordered \cup {n} ELSE unordered
      /\ UNCHANGED <<rows, lastSeen, reported>>
  BY <1>1 DEF AcceptEdit, Answered
<1>3. /\ call[k].chat \in Chats /\ SendAllowed(call[k].chat)
      /\ n \in Messages /\ n \in Ids /\ call[k].source = n
      /\ call[k].message = 0
  <2>1. /\ call[k].chat \in Chats /\ SendAllowed(call[k].chat)
        /\ call[k].source \in Messages \cup {0}
        /\ call[k].tool = "send" <=> call[k].source = 0
        /\ call[k].message = 0
    BY <1>2 DEF IInv, CallsSound, CallSound
  <2>. QED  BY <1>1, <1>2, <2>1, PostedTypes DEF IInv
<1>4. r \in 2..MaxRevisions /\ posted[n] \in Message
  BY <1>1, <1>2, <1>3, PostedTypes, BoundsAssumption DEF IInv, Message
<1>5. /\ posted' \in Seq(Message) /\ Len(posted') = Len(posted) /\ Messages' = Messages
      /\ \A m \in Messages \ {n} : posted'[m] = posted[m]
      /\ posted'[n] = [posted[n] EXCEPT !.rev = r]
  <2>1. posted \in Seq(Message) /\ n \in 1..Len(posted)
    BY <1>3, PostedTypes DEF IInv, TypeOK, Message
  <2>2. [posted[n] EXCEPT !.rev = r] \in Message
    BY <1>4 DEF Message
  <2>3. posted' = [posted EXCEPT ![n] = [posted[n] EXCEPT !.rev = r]]
    BY <1>1, <1>2
  <2>. QED  BY <2>1, <2>2, <2>3 DEF Messages
<1>6. /\ posted'[n].rev = r /\ posted'[n].chat = posted[n].chat
      /\ posted'[n].by = posted[n].by /\ posted'[n].there = posted[n].there
  BY <1>4, <1>5 DEF Message
<1>7. Grows
  <2>1. \A m \in Messages : posted[m].rev \in Nat
    BY PostedTypes, BoundsAssumption DEF IInv, Message
  <2>2. posted[n].rev <= r /\ r \in Nat
    BY <1>1, <1>3, <2>1
  <2>3. \A m \in Messages \ {n} : posted'[m].rev \in Nat /\ posted[m].rev <= posted'[m].rev
    BY <1>5, <2>1
  <2>. QED  BY <1>5, <1>6, <2>2, <2>3 DEF Grows
<1>8. /\ call' \in [Calls -> CallType]
      /\ \A j \in Calls \ {k} : call'[j] = call[j]
      /\ call'[k] = [call[k] EXCEPT !.step = "answered", !.message = n, !.rev = r]
  <2>1. call \in [Calls -> CallType] /\ call[k] \in CallType
    BY CallTypes DEF IInv
  <2>2. n \in 0..MaxMessages /\ r \in 0..MaxRevisions /\ "answered" \in Steps
    BY <1>3, <1>4, BoundsAssumption DEF Steps, Ids
  <2>3. [call[k] EXCEPT !.step = "answered", !.message = n, !.rev = r] \in CallType
    BY <2>1, <2>2 DEF CallType
  <2>. QED  BY <1>2, <2>1, <2>3
<1>9. /\ call'[k].step = "answered" /\ call'[k].message = n /\ call'[k].rev = r
      /\ call'[k].tool = call[k].tool /\ call'[k].chat = call[k].chat
      /\ call'[k].source = call[k].source
  <2>1. call[k] \in CallType
    BY CallTypes DEF IInv
  <2>. QED  BY <1>8, <2>1 DEF CallType
<1>10. TypeOK'
  BY <1>2, <1>3, <1>5, <1>8 DEF IInv, TypeOK, Message, CallType
<1>11. CallsSound'
  <2>1. CallSound(k)'
    BY <1>2, <1>3, <1>4, <1>5, <1>6, <1>9, PostedTypes DEF CallSound, SendAllowed, IInv
  <2>. QED  BY <1>7, <1>8, <2>1, BystanderSound DEF IInv, CallsSound
<1>12. PostedAllowed'
  BY <1>5, <1>6 DEF IInv, PostedAllowed, Own, SendAllowed
<1>13. RowsPosted' /\ ReportedIsStored'
  BY <1>2, <1>7, RowsFewer DEF IInv, ReportedIsStored
<1>14. OrderKept'
  <2>. SUFFICES ASSUME NEW m \in Messages \ unordered'
                PROVE  InOrder(m)'
    BY <1>5 DEF OrderKept
  <2>1. CASE m = n
    <3>1. \A j \in Calls \ {k} : ~ Mirrors(j, n)'
      <4>1. ~ Mirroring(k, n)
        BY <1>2, <2>1
      <4>. QED  BY <1>8, <4>1 DEF Mirroring, Mirrors
    <3>2. Mirrors(k, n)' /\ call'[k].rev = posted'[n].rev
      BY <1>2, <1>6, <1>9 DEF Mirrors
    <3>. QED  BY <2>1, <3>1, <3>2 DEF InOrder
  <2>2. CASE m # n
    <3>1. posted'[m] = posted[m]
      BY <1>5, <2>2
    <3>2. ~ Mirrors(k, m) /\ ~ Mirrors(k, m)'
      BY <1>3, <1>9, <2>2, PostedTypes DEF Mirrors, IInv
    <3>3. \A j \in Calls : /\ Mirrors(j, m)' <=> Mirrors(j, m)
                           /\ Mirrors(j, m) => call'[j].rev = call[j].rev
      BY <1>8, <3>2 DEF Mirrors
    <3>. QED  BY <1>2, <3>1, <3>3, OthersInOrder DEF IInv
  <2>. QED  BY <2>1, <2>2
<1>. QED  BY <1>10, <1>11, <1>12, <1>13, <1>14 DEF IInv

LEMMA AcceptDeleteStep ==
  ASSUME IInv, NEW k \in Calls, AcceptDelete(k)
  PROVE  IInv'
<1>1. PICK n : n = call[k].source
  OBVIOUS
<1>2. /\ call[k].step = "asking" /\ call[k].tool = "delete"
      /\ posted' = [posted EXCEPT ![n].there = FALSE]
      /\ call' = [call EXCEPT ![k].step = "answered", ![k].message = n, ![k].rev = 0]
      /\ UNCHANGED <<rows, lastSeen, reported, unordered>>
  BY <1>1 DEF AcceptDelete, Answered
<1>3. /\ call[k].chat \in Chats /\ SendAllowed(call[k].chat)
      /\ n \in Messages /\ n \in Ids /\ call[k].source = n
      /\ call[k].message = 0 /\ posted[n].chat = call[k].chat
  <2>1. /\ call[k].chat \in Chats /\ SendAllowed(call[k].chat)
        /\ call[k].source \in Messages \cup {0}
        /\ call[k].tool = "send" <=> call[k].source = 0
        /\ call[k].message = 0 /\ posted[call[k].source].chat = call[k].chat
    BY <1>2 DEF IInv, CallsSound, CallSound
  <2>. QED  BY <1>1, <1>2, <2>1, PostedTypes DEF IInv
<1>4. posted[n] \in Message
  BY <1>3, PostedTypes DEF IInv
<1>5. /\ posted' \in Seq(Message) /\ Len(posted') = Len(posted) /\ Messages' = Messages
      /\ \A m \in Messages \ {n} : posted'[m] = posted[m]
      /\ posted'[n] = [posted[n] EXCEPT !.there = FALSE]
  <2>1. posted \in Seq(Message) /\ n \in 1..Len(posted)
    BY <1>3, PostedTypes DEF IInv, TypeOK, Message
  <2>2. PICK new : new = [posted[n] EXCEPT !.there = FALSE]
    OBVIOUS
  <2>3. new \in Message
    BY <1>4, <2>2 DEF Message
  <2>4. posted' = [posted EXCEPT ![n] = new]
    BY <1>2, <2>2
  <2>5. /\ posted' \in Seq(Message) /\ Len(posted') = Len(posted) /\ Messages' = Messages
        /\ \A m \in Messages \ {n} : posted'[m] = posted[m]
        /\ posted'[n] = new
    BY <2>1, <2>3, <2>4 DEF Messages
  <2>. QED  BY <2>2, <2>5
<1>6. \A m \in Messages : /\ posted'[m].rev = posted[m].rev /\ posted'[m].chat = posted[m].chat
                          /\ posted'[m].by = posted[m].by
  BY <1>4, <1>5 DEF Message
<1>7. Grows
  <2>1. \A m \in Messages : posted[m].rev \in Nat
    BY PostedTypes, BoundsAssumption DEF IInv, Message
  <2>. QED  BY <1>5, <1>6, <2>1 DEF Grows
<1>8. /\ call' \in [Calls -> CallType]
      /\ \A j \in Calls \ {k} : call'[j] = call[j]
      /\ call'[k] = [call[k] EXCEPT !.step = "answered", !.message = n, !.rev = 0]
  <2>1. call \in [Calls -> CallType] /\ call[k] \in CallType
    BY CallTypes DEF IInv
  <2>2. n \in 0..MaxMessages /\ 0 \in 0..MaxRevisions /\ "answered" \in Steps
    BY <1>3, BoundsAssumption DEF Steps, Ids
  <2>3. [call[k] EXCEPT !.step = "answered", !.message = n, !.rev = 0] \in CallType
    BY <2>1, <2>2 DEF CallType
  <2>. QED  BY <1>2, <2>1, <2>3
<1>9. /\ call'[k].step = "answered" /\ call'[k].message = n /\ call'[k].rev = 0
      /\ call'[k].tool = "delete" /\ call'[k].chat = call[k].chat
      /\ call'[k].source = call[k].source
  <2>1. call[k] \in CallType
    BY CallTypes DEF IInv
  <2>. QED  BY <1>2, <1>8, <2>1 DEF CallType
<1>10. TypeOK'
  BY <1>2, <1>5, <1>8 DEF IInv, TypeOK, Message, CallType
<1>11. CallsSound'
  <2>1. CallSound(k)'
    BY <1>3, <1>5, <1>9, PostedTypes DEF CallSound, SendAllowed, IInv
  <2>. QED  BY <1>7, <1>8, <2>1, BystanderSound DEF IInv, CallsSound
<1>12. PostedAllowed'
  BY <1>3, <1>5, <1>6 DEF IInv, PostedAllowed, Own, SendAllowed
<1>13. RowsPosted' /\ ReportedIsStored'
  BY <1>2, <1>7, RowsFewer DEF IInv, ReportedIsStored
<1>14. OrderKept'
  <2>. SUFFICES ASSUME NEW m \in Messages \ unordered
                PROVE  InOrder(m)'
    BY <1>2, <1>5 DEF OrderKept
  <2>1. ~ Mirrors(k, m) /\ ~ Mirrors(k, m)'
    BY <1>2, <1>9 DEF Mirrors
  <2>2. \A j \in Calls : /\ Mirrors(j, m)' <=> Mirrors(j, m)
                         /\ Mirrors(j, m) => call'[j].rev = call[j].rev
    BY <1>8, <2>1 DEF Mirrors
  <2>. QED  BY <1>2, <1>6, <2>2, OthersInOrder DEF IInv
<1>. QED  BY <1>10, <1>11, <1>12, <1>13, <1>14 DEF IInv

LEMMA IdleIsACall == Idle \in CallType
BY BoundsAssumption DEF Idle, CallType, Tool, Steps

\* A call that was mirroring puts its message out of order.
LEMMA FailStep ==
  ASSUME IInv, NEW k \in Calls, Fail(k)
  PROVE  IInv'
<1>1. /\ call[k].step # "idle" /\ call' = [call EXCEPT ![k] = Idle]
      /\ unordered' = IF call[k].rev # 0 THEN unordered \cup {call[k].message} ELSE unordered
      /\ UNCHANGED <<posted, rows, lastSeen, reported>>
  BY DEF Fail, world
<1>2. /\ call' \in [Calls -> CallType] /\ call'[k] = Idle
      /\ \A j \in Calls \ {k} : call'[j] = call[j]
  BY <1>1, IdleIsACall, CallTypes DEF IInv
<1>3. CallSound(k)'
  BY <1>2 DEF CallSound, Idle
<1>4. \A m \in Messages : ~ Mirrors(k, m)'
  BY <1>2, PostedTypes DEF Mirrors, Idle, IInv
<1>5. call[k] \in CallType
  BY CallTypes DEF IInv
<1>6. CASE call[k].rev = 0
  <2>1. \A m \in Messages : ~ Mirrors(k, m)
    <3>1. CASE call[k].step = "asking"
      BY <3>1, PostedTypes DEF IInv, CallsSound, CallSound, Mirrors
    <3>2. CASE call[k].step \in {"answered", "touched"}
      BY <3>2, <1>6 DEF IInv, CallsSound, CallSound, Mirrors
    <3>. QED  BY <1>1, <1>5, <3>1, <3>2 DEF CallType, Steps
  <2>. QED  BY <1>1, <1>2, <1>3, <1>4, <1>6, <2>1, QuietStep DEF IInv, TypeOK
<1>7. CASE call[k].rev # 0
  <2>1. call[k].message \in Messages /\ unordered' = unordered \cup {call[k].message}
    BY <1>1, <1>5, <1>7 DEF IInv, CallsSound, CallSound, CallType, Steps
  <2>2. TypeOK'
    BY <1>1, <1>2, <2>1, PostedTypes DEF IInv, TypeOK, CallType
  <2>3. Grows
    BY <1>1, StandsStill DEF IInv
  <2>4. CallsSound'
    BY <1>2, <1>3, <2>3, BystanderSound DEF IInv, CallsSound
  <2>5. RowsPosted' /\ PostedAllowed' /\ ReportedIsStored'
    BY <1>1 DEF IInv, RowsPosted, Had, PostedAllowed, Own, ReportedIsStored, Messages, SendAllowed
  <2>6. OrderKept'
    <3>. SUFFICES ASSUME NEW m \in Messages \ unordered'
                  PROVE  InOrder(m)'
      BY <1>1 DEF OrderKept, Messages
    <3>1. ~ Mirrors(k, m)
      BY <2>1 DEF Mirrors
    <3>2. \A j \in Calls : /\ Mirrors(j, m)' <=> Mirrors(j, m)
                           /\ Mirrors(j, m) => call'[j].rev = call[j].rev
      BY <1>2, <1>4, <3>1 DEF Mirrors
    <3>. QED  BY <1>1, <2>1, <3>2, OthersInOrder DEF IInv
  <2>. QED  BY <2>2, <2>4, <2>5, <2>6 DEF IInv
<1>. QED  BY <1>6, <1>7

LEMMA DoneDeleteStep ==
  ASSUME IInv, NEW k \in Calls, DoneDelete(k)
  PROVE  IInv'
<1>1. /\ call[k].tool = "delete" /\ call' = [call EXCEPT ![k] = Idle]
      /\ UNCHANGED <<posted, rows, lastSeen, reported, unordered>>
  BY DEF DoneDelete, world
<1>2. /\ call' \in [Calls -> CallType] /\ call'[k] = Idle
      /\ \A j \in Calls \ {k} : call'[j] = call[j]
  BY <1>1, IdleIsACall, CallTypes DEF IInv
<1>3. CallSound(k)'
  BY <1>2 DEF CallSound, Idle
<1>4. \A m \in Messages : ~ Mirrors(k, m) /\ ~ Mirrors(k, m)'
  BY <1>1, <1>2, PostedTypes DEF Mirrors, Idle, IInv
<1>. QED  BY <1>1, <1>2, <1>3, <1>4, QuietStep DEF IInv, TypeOK

LEMMA TouchStep ==
  ASSUME IInv, NEW k \in Calls, Touch(k)
  PROVE  IInv'
<1>1. PICK c : c = call[k].chat
  OBVIOUS
<1>2. /\ call[k].step = "answered" /\ call[k].tool # "delete"
      /\ call' = [call EXCEPT ![k].step = "touched"]
      /\ lastSeen' = [lastSeen EXCEPT ![c] = IF @ = 0 THEN 0 ELSE call[k].message]
      /\ UNCHANGED <<posted, rows, reported, unordered>>
  BY <1>1 DEF Touch
<1>3. call \in [Calls -> CallType] /\ call[k] \in CallType
  BY CallTypes DEF IInv
<1>4. /\ call' \in [Calls -> CallType]
      /\ \A j \in Calls \ {k} : call'[j] = call[j]
      /\ call'[k].step = "touched"
      /\ call'[k].tool = call[k].tool /\ call'[k].chat = call[k].chat
      /\ call'[k].source = call[k].source /\ call'[k].message = call[k].message
      /\ call'[k].rev = call[k].rev
  <2>1. [call[k] EXCEPT !.step = "touched"] \in CallType
    BY <1>3 DEF CallType, Steps
  <2>2. call' \in [Calls -> CallType] /\ \A j \in Calls \ {k} : call'[j] = call[j]
    BY <1>2, <1>3, <2>1
  <2>3. call'[k] = [call[k] EXCEPT !.step = "touched"]
    BY <1>2, <1>3
  <2>. QED  BY <1>3, <2>2, <2>3 DEF CallType
<1>5. lastSeen' \in [Chats -> 0..MaxMessages]
  BY <1>2, <1>3, BoundsAssumption DEF IInv, TypeOK, CallType
<1>6. TypeOK'
  BY <1>2, <1>4, <1>5 DEF IInv, TypeOK, CallType
<1>7. CallsSound'
  <2>1. CallSound(k)'
    BY <1>2, <1>4 DEF IInv, CallsSound, CallSound, SendAllowed, Messages
  <2>2. Grows
    BY <1>2, StandsStill DEF IInv
  <2>. QED  BY <1>4, <2>1, <2>2, BystanderSound DEF IInv, CallsSound
<1>8. RowsPosted' /\ PostedAllowed' /\ ReportedIsStored'
  BY <1>2 DEF IInv, RowsPosted, Had, PostedAllowed, Own, ReportedIsStored, Messages, SendAllowed
<1>9. OrderKept'
  <2>. SUFFICES ASSUME NEW m \in Messages \ unordered
                PROVE  InOrder(m)'
    BY <1>2 DEF OrderKept, Messages
  <2>1. \A j \in Calls : /\ Mirrors(j, m)' <=> Mirrors(j, m)
                         /\ Mirrors(j, m) => call'[j].rev = call[j].rev
    BY <1>4 DEF Mirrors
  <2>. QED  BY <1>2, <2>1, OthersInOrder DEF IInv
<1>. QED  BY <1>6, <1>7, <1>8, <1>9 DEF IInv

\* What is inserted is the latest text, if the message is in order.
LEMMA InsertStep ==
  ASSUME IInv, NEW k \in Calls, Insert(k)
  PROVE  IInv'
<1>1. PICK n : n = call[k].message
  OBVIOUS
<1>2. /\ call[k].step = "touched"
      /\ rows' = [rows EXCEPT ![n] = Mirrored(k)]
      /\ reported' = reported \cup {n}
      /\ call' = [call EXCEPT ![k] = Idle]
      /\ UNCHANGED <<posted, lastSeen, unordered>>
  BY <1>1 DEF Insert
<1>3. /\ call' \in [Calls -> CallType] /\ call'[k] = Idle
      /\ \A j \in Calls \ {k} : call'[j] = call[j]
      /\ call[k] \in CallType
  BY <1>2, IdleIsACall, CallTypes DEF IInv
<1>4. CallSound(k)'
  BY <1>3 DEF CallSound, Idle
<1>5. /\ n \in Messages /\ n \in Ids /\ call[k].tool # "delete"
      /\ call[k].rev \in 1..posted[n].rev /\ posted[n].rev \in Nat
      /\ call[k].tool = "forward" <=> posted[n].by = "forward" /\ call[k].rev = 1
  <2>1. /\ n \in Messages /\ call[k].tool # "delete" /\ call[k].rev \in 1..posted[n].rev
        /\ call[k].tool = "forward" <=> posted[n].by = "forward" /\ call[k].rev = 1
    BY <1>1, <1>2 DEF IInv, CallsSound, CallSound
  <2>. QED  BY <2>1, PostedTypes, BoundsAssumption DEF IInv, Message
<1>6. /\ rows' \in [Ids -> 0..MaxRevisions \cup {NoText}] /\ rows'[n] = Mirrored(k)
      /\ \A m \in Ids \ {n} : rows'[m] = rows[m]
  <2>1. /\ rows \in [Ids -> 0..MaxRevisions \cup {NoText}]
        /\ Mirrored(k) \in 0..MaxRevisions \cup {NoText}
    BY <1>3 DEF IInv, TypeOK, CallType, Mirrored
  <2>. QED  BY <1>2, <1>5, <2>1
<1>7. TypeOK'
  BY <1>2, <1>3, <1>5, <1>6 DEF IInv, TypeOK, CallType
<1>8. CallsSound'
  <2>1. Grows
    BY <1>2, StandsStill DEF IInv
  <2>. QED  BY <1>3, <1>4, <2>1, BystanderSound DEF IInv, CallsSound
<1>9. PostedAllowed'
  BY <1>2 DEF IInv, PostedAllowed, Own, Messages, SendAllowed
<1>10. RowsPosted'
  <2>. SUFFICES ASSUME NEW m \in Ids, rows'[m] # 0
                PROVE  m \in Messages /\ Had(m, rows'[m])
    BY <1>2 DEF RowsPosted, Had, Messages, Ids
  <2>1. CASE m = n
    BY <2>1, <1>5, <1>6, TextAssumption DEF Mirrored, Had
  <2>2. CASE m # n
    BY <2>2, <1>6 DEF IInv, RowsPosted
  <2>. QED  BY <2>1, <2>2
<1>11. ReportedIsStored'
  <2>1. rows'[n] # 0
    BY <1>5, <1>6, TextAssumption DEF Mirrored
  <2>2. reported \subseteq Ids
    BY DEF IInv, TypeOK
  <2>. QED  BY <1>2, <1>6, <2>1, <2>2 DEF IInv, ReportedIsStored
<1>12. OrderKept'
  <2>. SUFFICES ASSUME NEW m \in Messages \ unordered
                PROVE  InOrder(m)'
    BY <1>2 DEF OrderKept, Messages
  <2>1. m \in Ids /\ 0 \notin Messages
    BY PostedTypes DEF IInv
  <2>2. CASE m = n
    <3>1. Mirrors(k, n) /\ InOrder(n)
      BY <1>1, <1>5, <2>2 DEF IInv, OrderKept, Mirrors
    <3>2. rows'[n] = Latest(n)
      <4>1. call[k].rev = posted[n].rev
        BY <3>1 DEF InOrder
      <4>. QED  BY <1>5, <1>6, <4>1 DEF Mirrored, Latest
    <3>3. \A j \in Calls : ~ Mirrors(j, n)'
      BY <1>3, <1>5, <2>1, <3>1 DEF InOrder, Mirrors, Idle
    <3>. QED  BY <1>2, <2>2, <3>2, <3>3 DEF InOrder, Latest
  <2>3. CASE m # n
    <3>1. \A j \in Calls : /\ Mirrors(j, m)' <=> Mirrors(j, m)
                           /\ Mirrors(j, m) => call'[j].rev = call[j].rev
      BY <1>1, <1>3, <2>1, <2>3 DEF Mirrors, Idle
    <3>2. rows'[m] = rows[m]
      BY <1>6, <2>1, <2>3
    <3>. QED  BY <1>2, <3>1, <3>2, OthersInOrder DEF IInv
  <2>. QED  BY <2>2, <2>3
<1>. QED  BY <1>7, <1>8, <1>9, <1>10, <1>11, <1>12 DEF IInv

LEMMA UserPostsStep ==
  ASSUME IInv, NEW c \in Chats, UserPosts(c)
  PROVE  IInv'
<1>1. PICK n, new : n = Len(posted) + 1 /\ new = New(c, "user")
  OBVIOUS
<1>2. /\ n <= MaxMessages /\ posted' = Append(posted, new)
      /\ UNCHANGED <<rows, lastSeen, call, reported, unordered>>
  BY <1>1, PostedTypes, BoundsAssumption DEF UserPosts, IInv
<1>3. new \in Message /\ new.by = "user" /\ new.there
  BY <1>1, BoundsAssumption DEF New, Message
<1>4. /\ posted' \in Seq(Message) /\ Len(posted') = n
      /\ Messages' = Messages \cup {n} /\ n \notin Messages /\ n \in Ids
      /\ posted'[n] = new /\ \A m \in Messages : posted'[m] = posted[m]
  <2>1. posted \in Seq(Message)
    BY DEF IInv, TypeOK, Message
  <2>. QED  BY <1>1, <1>2, <1>3, <2>1 DEF Messages, Ids
<1>5. Grows
  <2>1. \A m \in Messages : posted[m].rev \in Nat
    BY PostedTypes, BoundsAssumption DEF IInv, Message
  <2>. QED  BY <1>4, <2>1 DEF Grows
<1>6. TypeOK'
  BY <1>2, <1>4 DEF IInv, TypeOK, Message
<1>7. CallsSound'
  BY <1>2, <1>5, BystanderSound DEF IInv, CallsSound
<1>8. PostedAllowed'
  BY <1>3, <1>4 DEF IInv, PostedAllowed, Own, SendAllowed
<1>9. RowsPosted' /\ ReportedIsStored'
  BY <1>2, <1>5, RowsFewer DEF IInv, ReportedIsStored
<1>10. OrderKept'
  <2>. SUFFICES ASSUME NEW m \in Messages' \ unordered
                PROVE  InOrder(m)'
    BY <1>2 DEF OrderKept
  <2>1. CASE m = n
    <3>1. \A j \in Calls : call[j].message \in Messages \cup {0}
      BY CallTypes DEF IInv, CallsSound, CallSound, CallType, Steps, Idle
    <3>2. \A j \in Calls : ~ Mirrors(j, n)'
      BY <1>2, <1>4, <3>1 DEF Mirrors, Ids
    <3>3. rows'[n] = 0
      BY <1>2, <1>4 DEF IInv, RowsPosted
    <3>. QED  BY <2>1, <3>2, <3>3 DEF InOrder
  <2>2. CASE m # n
    <3>1. m \in Messages /\ posted'[m] = posted[m]
      BY <1>4, <2>2
    <3>2. \A j \in Calls : /\ Mirrors(j, m)' <=> Mirrors(j, m)
                           /\ Mirrors(j, m) => call'[j].rev = call[j].rev
      BY <1>2 DEF Mirrors
    <3>. QED  BY <1>2, <3>1, <3>2, OthersInOrder DEF IInv
  <2>. QED  BY <2>1, <2>2
<1>. QED  BY <1>6, <1>7, <1>8, <1>9, <1>10 DEF IInv

\* An updater writes what Telegram has.
LEMMA RecordInboundStep ==
  ASSUME IInv, NEW n \in Messages, RecordInbound(n)
  PROVE  IInv'
<1>1. /\ ~ Own(n) /\ rows[n] = 0 /\ rows' = [rows EXCEPT ![n] = posted[n].rev]
      /\ lastSeen' = [lastSeen EXCEPT ![posted[n].chat] = n]
      /\ UNCHANGED <<posted, call, reported, unordered>>
  BY DEF RecordInbound
<1>2. n \in Ids /\ posted[n] \in Message /\ posted[n].rev \in 1..MaxRevisions
  BY PostedTypes DEF IInv, Message
<1>3. /\ rows' \in [Ids -> 0..MaxRevisions \cup {NoText}] /\ rows'[n] = posted[n].rev
      /\ \A m \in Ids \ {n} : rows'[m] = rows[m]
  <2>1. rows \in [Ids -> 0..MaxRevisions \cup {NoText}] /\ posted[n].rev \in 0..MaxRevisions
    BY <1>2, BoundsAssumption DEF IInv, TypeOK
  <2>. QED  BY <1>1, <1>2, <2>1
<1>4. TypeOK'
  <2>1. lastSeen \in [Chats -> 0..MaxMessages] /\ n \in 0..MaxMessages
    BY <1>2, BoundsAssumption DEF IInv, TypeOK, Ids
  <2>2. lastSeen' \in [Chats -> 0..MaxMessages]
    BY <1>1, <2>1
  <2>. QED  BY <1>1, <1>3, <2>2 DEF IInv, TypeOK
<1>5. CallsSound'
  <2>1. Grows
    BY <1>1, StandsStill DEF IInv
  <2>. QED  BY <1>1, <2>1, BystanderSound DEF IInv, CallsSound
<1>6. PostedAllowed'
  BY <1>1 DEF IInv, PostedAllowed, Own, Messages, SendAllowed
<1>7. RowsPosted'
  <2>. SUFFICES ASSUME NEW m \in Ids, rows'[m] # 0
                PROVE  m \in Messages /\ Had(m, rows'[m])
    BY <1>1 DEF RowsPosted, Had, Messages, Ids
  <2>1. CASE m = n
    BY <2>1, <1>2, <1>3, BoundsAssumption, TextAssumption DEF Had
  <2>2. CASE m # n
    BY <2>2, <1>3 DEF IInv, RowsPosted
  <2>. QED  BY <2>1, <2>2
<1>8. ReportedIsStored'
  <2>1. reported \subseteq Ids
    BY DEF IInv, TypeOK
  <2>. QED  BY <1>1, <1>3, <2>1 DEF IInv, ReportedIsStored
<1>9. OrderKept'
  <2>. SUFFICES ASSUME NEW m \in Messages \ unordered
                PROVE  InOrder(m)'
    BY <1>1 DEF OrderKept, Messages
  <2>1. m \in Ids /\ InOrder(m)
    BY PostedTypes DEF IInv, OrderKept
  <2>2. rows'[m] \in {rows[m], Latest(m)}
    <3>1. posted[n].rev = Latest(n)
      BY <1>1 DEF Own, Latest
    <3>2. m = n => rows'[m] = Latest(m)
      BY <1>3, <3>1
    <3>3. m # n => rows'[m] = rows[m]
      BY <1>3, <2>1
    <3>. QED  BY <3>2, <3>3
  <2>. QED  BY <1>1, <2>1, <2>2 DEF InOrder, Latest, Mirrors
<1>. QED  BY <1>4, <1>5, <1>6, <1>7, <1>8, <1>9 DEF IInv

LEMMA RetentionStep ==
  ASSUME IInv, NEW n \in Messages, Retention(n)
  PROVE  IInv'
<1>1. /\ rows' = [rows EXCEPT ![n] = 0] /\ reported' = reported \ {n}
      /\ UNCHANGED <<posted, lastSeen, call, unordered>>
  BY DEF Retention
<1>2. /\ rows' \in [Ids -> 0..MaxRevisions \cup {NoText}]
      /\ \A m \in Ids : rows'[m] = IF m = n THEN 0 ELSE rows[m]
  <2>1. rows \in [Ids -> 0..MaxRevisions \cup {NoText}] /\ 0 \in 0..MaxRevisions
    BY BoundsAssumption DEF IInv, TypeOK
  <2>. QED  BY <1>1, <2>1
<1>3. TypeOK'
  BY <1>1, <1>2 DEF IInv, TypeOK
<1>4. Grows
  BY <1>1, StandsStill DEF IInv
<1>5. CallsSound'
  BY <1>1, <1>4, BystanderSound DEF IInv, CallsSound
<1>6. PostedAllowed'
  BY <1>1 DEF IInv, PostedAllowed, Own, Messages, SendAllowed
<1>7. RowsPosted'
  BY <1>2, <1>4, RowsFewer DEF IInv
<1>8. ReportedIsStored'
  BY <1>1, <1>2 DEF IInv, ReportedIsStored, TypeOK
<1>9. OrderKept'
  <2>. SUFFICES ASSUME NEW m \in Messages \ unordered
                PROVE  InOrder(m)'
    BY <1>1 DEF OrderKept, Messages
  <2>1. m \in Ids /\ rows'[m] \in {rows[m], 0}
    BY <1>2, PostedTypes DEF IInv
  <2>. QED  BY <1>1, <2>1, OthersInOrder DEF IInv, Mirrors
<1>. QED  BY <1>3, <1>5, <1>6, <1>7, <1>8, <1>9 DEF IInv

LEMMA ToolsStep ==
  ASSUME IInv, [Next]_vars
  PROVE  IInv'
<1>1. ASSUME NEW k \in Calls, Step(k)
      PROVE  IInv'
  BY <1>1, BeginStep, AcceptNewStep, AcceptEditStep, AcceptDeleteStep, FailStep,
     DoneDeleteStep, TouchStep, InsertStep DEF Step
<1>2. ASSUME NEW c \in Chats, UserPosts(c)
      PROVE  IInv'
  BY <1>2, UserPostsStep
<1>3. ASSUME NEW m \in Messages, RecordInbound(m) \/ Retention(m)
      PROVE  IInv'
  BY <1>3, RecordInboundStep, RetentionStep
<1>4. CASE UNCHANGED vars
  BY <1>4 DEF vars, world, IInv, TypeOK, CallsSound, CallSound, PostedAllowed, RowsPosted,
              Own, Had, Latest, ReportedIsStored, OrderKept, InOrder, Mirrors, Messages, SendAllowed, Ids
<1>. QED  BY <1>1, <1>2, <1>3, <1>4 DEF Next

-----------------------------------------------------------------------------
(* The theorems *)

\* Types, with the bounds on messages and revisions.
THEOREM ToolsTypes == Spec => []TypeOK
<1>1. IInv => TypeOK
  BY DEF IInv
<1>. QED  BY ToolsInit, ToolsStep, <1>1, PTL DEF Spec

\* Every row is of a posted message at a revision it has had, or of a forward and without
\* text, and what the bot posts and deletes is in chats it may send to.
THEOREM HistoryInventsNothing == Spec => []NothingInvented
<1>1. IInv => NothingInvented
  BY DEF IInv, NothingInvented, RowsPosted, Had, PostedAllowed
<1>. QED  BY ToolsInit, ToolsStep, <1>1, PTL DEF Spec

\* What a tool has reported done is in the history until retention takes it.
THEOREM ReportsAreStored == Spec => []ReportedIsStored
<1>1. IInv => ReportedIsStored
  BY DEF IInv
<1>. QED  BY ToolsInit, ToolsStep, <1>1, PTL DEF Spec

\* The row of a message with no call under way has Telegram's text, or none of a forward
\* as it was sent, unless a call on it failed or two were mirroring at once.
THEOREM SequentialEditsLeaveTheLatest == Spec => []LatestWhenOrderly
<1>1. IInv => LatestWhenOrderly
  <2>. SUFFICES ASSUME IInv, NEW m \in Messages, rows[m] # 0, m \notin unordered,
                       \A k \in Calls : call[k].message # m
                PROVE  rows[m] = Latest(m)
    BY DEF LatestWhenOrderly
  <2>1. InOrder(m) /\ \A k \in Calls : ~ Mirrors(k, m)
    BY DEF IInv, OrderKept, Mirrors
  <2>. QED  BY <2>1 DEF InOrder
<1>. QED  BY ToolsInit, ToolsStep, <1>1, PTL DEF Spec
=============================================================================
