------------------------------- MODULE Tools -------------------------------
(***************************************************************************)
(* The tools of the MCP server that change something in Telegram:          *)
(* tg_send_message, _photo and _document (all alike here), tg_edit_message,*)
(* tg_forward_message and tg_delete_message.  Calls come from Claude and   *)
(* from hooks, to any number of servers on one history, and run side by    *)
(* side: each checks its target, asks Telegram and, except for delete,     *)
(* mirrors the answer into the history in two transactions.  Meanwhile     *)
(* updaters record what users post, and retention deletes rows.            *)
(*                                                                         *)
(* A message is its position in `posted'; its date is its position too.    *)
(* A text is its revision: 1 when it is sent, then what Telegram makes of  *)
(* the edits, in the order in which they reach it.  A forward is mirrored  *)
(* without text.                                                           *)
(***************************************************************************)
EXTENDS Naturals, Sequences

CONSTANTS
  Calls,          \* calls that may be under way at once
  Chats,
  SendTargets,    \* [access] allowed_send_targets, resolved; empty: any chat
  None,           \* no such chat
  NoText,         \* the text column is NULL
  MaxMessages,    \* bound on the messages posted
  MaxRevisions    \* bound on the revisions of a message

ASSUME TargetsAssumption == SendTargets \subseteq Chats /\ None \notin Chats
ASSUME BoundsAssumption == MaxMessages \in Nat /\ MaxRevisions \in Nat \ {0}
ASSUME TextAssumption == NoText \notin Nat

VARIABLES
  posted,     \* what Telegram has: chat, who posted it, revision, and whether it is there
  rows,       \* rows[m]: revision in the messages table or NoText, 0 for no row
  lastSeen,   \* lastSeen[c]: of the chats table, 0 for no row
  call,       \* call[k]: tool, target chat, message, and how far it is
  reported,   \* history: messages with a row whose sending or editing was reported done
  unordered   \* history: messages whose mirroring failed, or was overtaken by another

world == <<posted, rows, lastSeen>>
vars == <<world, call, reported, unordered>>

Ids == 1..MaxMessages
Messages == DOMAIN posted

Steps == {"idle", "asking", "answered", "touched"}
Tool == {"none", "send", "edit", "forward", "delete"}

\* `source' is the message to edit, forward or delete; `message' and `rev' are those
\* of the answer.
Idle == [tool |-> "none", step |-> "idle", chat |-> None, source |-> 0, message |-> 0, rev |-> 0]

Init ==
  /\ posted = <<>>
  /\ rows = [m \in Ids |-> 0]
  /\ lastSeen = [c \in Chats |-> 0]
  /\ call = [k \in Calls |-> Idle]
  /\ reported = {}
  /\ unordered = {}

\* `by' is the tool that posted a message of the bot's, or "user".
New(c, by) == [chat |-> c, by |-> by, rev |-> 1, there |-> TRUE]

Own(m) == posted[m].by # "user"

-----------------------------------------------------------------------------
(* A tool call *)

\* check_send_allowed
SendAllowed(c) == SendTargets = {} \/ c \in SendTargets

\* A call names a chat and, save for a send, a message; of an edit and a delete it is
\* one of that chat.  A target that is not allowed is an early return.
Begin(k, tool, c, m) ==
  /\ call[k].step = "idle"
  /\ tool = "send" <=> m = 0
  /\ tool \in {"edit", "delete"} => posted[m].chat = c
  /\ SendAllowed(c)
  /\ call' = [call EXCEPT ![k] =
       [tool |-> tool, step |-> "asking", chat |-> c, source |-> m, message |-> 0, rev |-> 0]]
  /\ UNCHANGED <<world, reported, unordered>>

\* Another call that has its answer for m is still mirroring it.
Mirroring(k, m) ==
  \E j \in Calls \ {k} : call[j].message = m /\ call[j].tool # "delete"

Answered(k, m, rev) ==
  call' = [call EXCEPT ![k].step = "answered", ![k].message = m, ![k].rev = rev]

\* Telegram accepts a message of the bot's, new or forwarded.
AcceptNew(k) ==
  /\ call[k].step = "asking"
  /\ Len(posted) < MaxMessages
  /\ \/ call[k].tool = "send"
     \/ call[k].tool = "forward" /\ posted[call[k].source].there
  /\ posted' = Append(posted, New(call[k].chat, call[k].tool))
  /\ Answered(k, Len(posted) + 1, 1)
  /\ UNCHANGED <<rows, lastSeen, reported, unordered>>

\* Telegram edits the bot's own messages only.
AcceptEdit(k) ==
  LET m == call[k].source
  IN /\ call[k].step = "asking" /\ call[k].tool = "edit"
     /\ Own(m) /\ posted[m].there
     /\ posted[m].rev < MaxRevisions
     /\ posted' = [posted EXCEPT ![m].rev = @ + 1]
     /\ Answered(k, m, posted[m].rev + 1)
     /\ unordered' = IF Mirroring(k, m) THEN unordered \cup {m} ELSE unordered
     /\ UNCHANGED <<rows, lastSeen, reported>>

AcceptDelete(k) ==
  LET m == call[k].source
  IN /\ call[k].step = "asking" /\ call[k].tool = "delete"
     /\ posted[m].there
     /\ posted' = [posted EXCEPT ![m].there = FALSE]
     /\ Answered(k, m, 0)
     /\ UNCHANGED <<rows, lastSeen, reported, unordered>>

\* Ends without the row it should have written: Telegram refuses, the answer is
\* lost, a transaction fails, the client goes away, the server dies.
Fail(k) ==
  /\ call[k].step # "idle"
  /\ call' = [call EXCEPT ![k] = Idle]
  /\ unordered' = IF call[k].rev # 0 THEN unordered \cup {call[k].message} ELSE unordered
  /\ UNCHANGED <<world, reported>>

\* A delete is done; the history keeps its row.
DoneDelete(k) ==
  /\ call[k].step = "answered" /\ call[k].tool = "delete"
  /\ call' = [call EXCEPT ![k] = Idle]
  /\ UNCHANGED <<world, reported, unordered>>

-----------------------------------------------------------------------------
(* mirror_outbound *)

\* Mutant: an edit is mirrored without waiting for Telegram's answer.
TouchUnasked(k) ==
  LET c == call[k].chat
      m == call[k].source
  IN /\ call[k].step = "asking" /\ call[k].tool = "edit"
     /\ call' = [call EXCEPT ![k].step = "touched", ![k].message = m, ![k].rev = posted[m].rev + 1]
     /\ lastSeen' = [lastSeen EXCEPT ![c] = IF @ = 0 THEN 0 ELSE m]
     /\ UNCHANGED <<posted, rows, reported, unordered>>

\* touch_chat_last_seen, with the date of the message: an UPDATE.
Touch(k) ==
  LET c == call[k].chat
  IN /\ call[k].step = "answered" /\ call[k].tool # "delete"
     /\ call' = [call EXCEPT ![k].step = "touched"]
     /\ lastSeen' = [lastSeen EXCEPT ![c] = IF @ = 0 THEN 0 ELSE call[k].message]
     /\ UNCHANGED <<posted, rows, reported, unordered>>

\* The text each tool hands to mirror_outbound: its own input, or none.
Mirrored(k) == IF call[k].tool = "forward" THEN NoText ELSE call[k].rev

\* Mutant: the row of a message that has one is left alone.
InsertOnce(k) ==
  LET m == call[k].message
  IN /\ call[k].step = "touched"
     /\ rows' = [rows EXCEPT ![m] = IF @ = 0 THEN Mirrored(k) ELSE @]
     /\ reported' = reported \cup {m}
     /\ call' = [call EXCEPT ![k] = Idle]
     /\ UNCHANGED <<posted, lastSeen, unordered>>

\* Mutants: the row is that of the message the call named; a chat without a row
\* gets no messages.
InsertSource(k) ==
  LET m == call[k].source
  IN /\ call[k].step = "touched"
     /\ rows' = [rows EXCEPT ![m] = Mirrored(k)]
     /\ reported' = reported \cup {m}
     /\ call' = [call EXCEPT ![k] = Idle]
     /\ UNCHANGED <<posted, lastSeen, unordered>>

InsertIfKnown(k) ==
  LET m == call[k].message
  IN /\ call[k].step = "touched"
     /\ rows' = IF lastSeen[call[k].chat] = 0 THEN rows ELSE [rows EXCEPT ![m] = Mirrored(k)]
     /\ reported' = reported \cup {m}
     /\ call' = [call EXCEPT ![k] = Idle]
     /\ UNCHANGED <<posted, lastSeen, unordered>>

\* insert_message overwrites, and the tool answers.
Insert(k) ==
  LET m == call[k].message
  IN /\ call[k].step = "touched"
     /\ rows' = [rows EXCEPT ![m] = Mirrored(k)]
     /\ reported' = reported \cup {m}
     /\ call' = [call EXCEPT ![k] = Idle]
     /\ UNCHANGED <<posted, lastSeen, unordered>>

-----------------------------------------------------------------------------
(* The others *)

UserPosts(c) ==
  /\ Len(posted) < MaxMessages
  /\ posted' = Append(posted, New(c, "user"))
  /\ UNCHANGED <<rows, lastSeen, call, reported, unordered>>

\* An updater: the row and the chat's, in one transaction.
RecordInbound(m) ==
  /\ ~ Own(m) /\ rows[m] = 0
  /\ rows' = [rows EXCEPT ![m] = posted[m].rev]
  /\ lastSeen' = [lastSeen EXCEPT ![posted[m].chat] = m]
  /\ UNCHANGED <<posted, call, reported, unordered>>

\* Which rows go, module History says; here it may be any, one by one.
Retention(m) ==
  /\ rows[m] # 0
  /\ rows' = [rows EXCEPT ![m] = 0]
  /\ reported' = reported \ {m}
  /\ UNCHANGED <<posted, lastSeen, call, unordered>>

-----------------------------------------------------------------------------
Step(k) ==
  \/ \E tool \in Tool \ {"none"}, c \in Chats, m \in Messages \cup {0} : Begin(k, tool, c, m)
  \/ AcceptNew(k) \/ AcceptEdit(k) \/ AcceptDelete(k)
  \/ Fail(k) \/ DoneDelete(k) \/ Touch(k) \/ Insert(k)

Next ==
  \/ \E k \in Calls : Step(k)
  \/ \E c \in Chats : UserPosts(c)
  \/ \E m \in Messages : RecordInbound(m) \/ Retention(m)

Spec == Init /\ [][Next]_vars

-----------------------------------------------------------------------------
(* Properties *)

TypeOK ==
  /\ posted \in Seq([chat : Chats, by : {"user", "send", "forward"}, rev : 1..MaxRevisions, there : BOOLEAN])
  /\ Len(posted) <= MaxMessages
  /\ rows \in [Ids -> 0..MaxRevisions \cup {NoText}]
  /\ lastSeen \in [Chats -> 0..MaxMessages]
  /\ call \in [Calls -> [tool : Tool, step : Steps, chat : Chats \cup {None},
                         source : 0..MaxMessages, message : 0..MaxMessages,
                         rev : 0..MaxRevisions]]
  /\ reported \subseteq Ids
  /\ unordered \subseteq Ids

\* The history has no text that Telegram never accepted: every row is of a message
\* that was posted, at a revision it has had, or is without text and of a forward.
\* And what the bot has posted, whichever of the two chats of a forward a call began
\* with, and what it has deleted, is in a chat it may send to.
NothingInvented ==
  /\ \A m \in Ids : rows[m] # 0 =>
       /\ m \in Messages
       /\ IF rows[m] = NoText THEN posted[m].by = "forward" ELSE rows[m] <= posted[m].rev
  /\ \A m \in Messages : Own(m) \/ ~ posted[m].there => SendAllowed(posted[m].chat)

\* When a tool has answered that a message is sent or edited, its row is there to be
\* seen later, until retention takes it.
ReportedIsStored == \A m \in reported : rows[m] # 0

\* What the calls leave of a message when nothing goes wrong: its text, and of a
\* forward none until it is edited.
Latest(m) ==
  IF posted[m].by = "forward" /\ posted[m].rev = 1 THEN NoText ELSE posted[m].rev

\* A row shows an older text than Telegram only while a call mirrors the message, or
\* because a call failed after Telegram had accepted it, or because two calls on
\* the message were mirroring at once, or because it was forwarded: sequential edits
\* leave the latest text.
LatestWhenOrderly ==
  \A m \in Messages :
    rows[m] # 0 /\ m \notin unordered /\ (\A k \in Calls : call[k].message # m)
      => rows[m] = Latest(m)

=============================================================================
