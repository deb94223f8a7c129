-------------------------------- MODULE Hook --------------------------------
(***************************************************************************)
(* tg-hook: each session runs the hook when Claude ends a turn (Stop) or   *)
(* is about to ask (AskUserQuestion).  The hook sends a question to the    *)
(* one Telegram chat, waits for the user's reply to turn up in the         *)
(* history, and hands it to Claude; a timeout, the user at the keyboard,   *)
(* Ctrl+C and any failure end the wait without a reply.                    *)
(*                                                                         *)
(* A message is its id, its position in `chat'.  Inbound messages get into *)
(* the history when an updater records them (module Updater), in no fixed  *)
(* order since each session has a server of its own; outbound ones when    *)
(* the server mirrors them.  What a message says is left out.              *)
(***************************************************************************)
EXTENDS Naturals, Sequences, FiniteSets

CONSTANTS
  Sessions,
  MaxMessages,          \* bound on the messages of the chat
  MaxChunks,            \* bound on the chunks of a response (split_message)
  PollLimit,            \* rows a poll asks for (50 in the code)
  ReleaseOnLocalInput   \* --release-on-local-input

ASSUME BoundsAssumption ==
  /\ MaxMessages \in Nat
  /\ MaxChunks \in Nat
  /\ PollLimit \in Nat \ {0}
ASSUME OptionAssumption == ReleaseOnLocalInput \in BOOLEAN

VARIABLES
  chat,       \* direction of each message, in message_id order
  visible,    \* ids in the history
  pc,         \* where the hook of each session is
  linked,     \* its pipe to the server is open
  baseline,   \* Baseline::sent_message_id
  chunks,     \* chunks of the response still to be sent
  expired,    \* the timeout has elapsed
  replies,    \* ids of the replies the last poll returned
  asked,      \* history: id Telegram gave to the question
  held,       \* history: rows newer than the question at that last poll
  got         \* history: sets of ids handed to Claude so far

world == <<chat, visible>>
hook == <<pc, linked, baseline, chunks, expired, replies>>
ghosts == <<asked, held, got>>
vars == <<world, hook, ghosts>>

Locations == {"out", "starting", "sending", "sent", "chunks", "waiting", "acking", "replying"}

Ids == 1..Len(chat)
Inbound(S) == {i \in S : chat[i] = "in"}
Above(n) == {i \in visible : i > n}

\* SELECT ... ORDER BY message_id DESC LIMIT n.
Newest(S, n) == {i \in S : Cardinality({j \in S : j >= i}) <= n}

Init ==
  /\ chat = <<>>
  /\ visible = {}
  /\ pc = [h \in Sessions |-> "out"]
  /\ linked = [h \in Sessions |-> FALSE]
  /\ baseline = [h \in Sessions |-> 0]
  /\ chunks = [h \in Sessions |-> 0]
  /\ expired = [h \in Sessions |-> FALSE]
  /\ replies = [h \in Sessions |-> {}]
  /\ asked = [h \in Sessions |-> 0]
  /\ held = [h \in Sessions |-> {}]
  /\ got = [h \in Sessions |-> <<>>]

-----------------------------------------------------------------------------
(* The chat, the history and the server *)

UserSends ==
  /\ Len(chat) < MaxMessages
  /\ chat' = Append(chat, "in")
  /\ UNCHANGED <<visible, hook, ghosts>>

RecordInbound(i) ==
  /\ visible' = visible \cup {i}
  /\ UNCHANGED <<chat, hook, ghosts>>

\* The server dies, or drops the connection; the hook does not reconnect.
PipeBreaks(h) ==
  /\ linked[h]
  /\ linked' = [linked EXCEPT ![h] = FALSE]
  /\ UNCHANGED <<world, pc, baseline, chunks, expired, replies, ghosts>>

\* tg_send_message for h: Telegram gives the message the next id.
Post(h) ==
  /\ linked[h]
  /\ Len(chat) < MaxMessages
  /\ chat' = Append(chat, "out")

\* A send whose outcome the hook ignores: it works, it reaches the chat but not
\* the history (mirror_outbound fails, or the 5 s are over), or it fails.
SendAndForget(h) ==
  \/ Post(h) /\ visible' \in {visible, visible \cup {Len(chat) + 1}}
  \/ UNCHANGED world

-----------------------------------------------------------------------------
(* Asking *)

Begin(h) ==
  /\ pc[h] = "out"
  /\ pc' = [pc EXCEPT ![h] = "starting"]
  /\ UNCHANGED <<world, linked, baseline, chunks, expired, replies, ghosts>>

\* The hook process is gone, with all it knows.
Leave(h) ==
  /\ pc' = [pc EXCEPT ![h] = "out"]
  /\ linked' = [linked EXCEPT ![h] = FALSE]
  /\ baseline' = [baseline EXCEPT ![h] = 0]
  /\ chunks' = [chunks EXCEPT ![h] = 0]
  /\ expired' = [expired EXCEPT ![h] = FALSE]
  /\ replies' = [replies EXCEPT ![h] = {}]

\* Bad stdin, the user at the keyboard, no server to be found, no connection.
NotAsked(h) ==
  /\ pc[h] = "starting"
  /\ Leave(h)
  /\ UNCHANGED <<world, ghosts>>

Connect(h) ==
  /\ pc[h] = "starting"
  /\ pc' = [pc EXCEPT ![h] = "sending"]
  /\ linked' = [linked EXCEPT ![h] = TRUE]
  /\ UNCHANGED <<world, baseline, chunks, expired, replies, ghosts>>

\* The question, or the wakeup message, reaches Telegram ...
Ask(h) ==
  /\ pc[h] = "sending"
  /\ Post(h)
  /\ pc' = [pc EXCEPT ![h] = "sent"]
  /\ asked' = [asked EXCEPT ![h] = Len(chat) + 1]
  /\ UNCHANGED <<visible, linked, baseline, chunks, expired, replies, held, got>>

\* Mutant: the id that comes back is not kept.
AskedUnbased(h, n) ==
  /\ pc[h] = "sent"
  /\ linked[h]
  /\ visible' = visible \cup {asked[h]}
  /\ baseline' = [baseline EXCEPT ![h] = 0]
  /\ chunks' = [chunks EXCEPT ![h] = n]
  /\ pc' = [pc EXCEPT ![h] = IF n = 0 THEN "waiting" ELSE "chunks"]
  /\ UNCHANGED <<chat, linked, expired, replies, ghosts>>

\* ... is mirrored, and its id comes back; the response follows in n chunks.
Asked(h, n) ==
  /\ pc[h] = "sent"
  /\ linked[h]
  /\ visible' = visible \cup {asked[h]}
  /\ baseline' = [baseline EXCEPT ![h] = asked[h]]
  /\ chunks' = [chunks EXCEPT ![h] = n]
  /\ pc' = [pc EXCEPT ![h] = IF n = 0 THEN "waiting" ELSE "chunks"]
  /\ UNCHANGED <<chat, linked, expired, replies, ghosts>>

\* The mirror of the question is the server's work: it may still happen when the
\* hook is gone.
MirrorPerhaps(h) ==
  visible' \in {visible, IF pc[h] = "sent" THEN visible \cup {asked[h]} ELSE visible}

\* The send, the mirror or the pipe fails: the hook gives up, whether or not the
\* question is in the chat and in the history.
AskFails(h) ==
  /\ pc[h] \in {"sending", "sent"}
  /\ MirrorPerhaps(h)
  /\ Leave(h)
  /\ UNCHANGED <<chat, ghosts>>

\* Mutants: one chunk too many, and a baseline that follows the chunks.
SendChunkTooMany(h) ==
  /\ pc[h] = "chunks"
  /\ SendAndForget(h)
  /\ chunks' = [chunks EXCEPT ![h] = @ - 1]
  /\ pc' = [pc EXCEPT ![h] = IF chunks[h] = 0 THEN "waiting" ELSE "chunks"]
  /\ UNCHANGED <<linked, baseline, expired, replies, ghosts>>

SendChunkRebased(h) ==
  /\ pc[h] = "chunks"
  /\ SendAndForget(h)
  /\ baseline' = [baseline EXCEPT ![h] = Len(chat')]
  /\ chunks' = [chunks EXCEPT ![h] = @ - 1]
  /\ pc' = [pc EXCEPT ![h] = IF chunks[h] = 1 THEN "waiting" ELSE "chunks"]
  /\ UNCHANGED <<linked, expired, replies, ghosts>>

SendChunk(h) ==
  /\ pc[h] = "chunks"
  /\ SendAndForget(h)
  /\ chunks' = [chunks EXCEPT ![h] = @ - 1]
  /\ pc' = [pc EXCEPT ![h] = IF chunks[h] = 1 THEN "waiting" ELSE "chunks"]
  /\ UNCHANGED <<linked, baseline, expired, replies, ghosts>>

-----------------------------------------------------------------------------
(* Waiting: the arms of the select, in their order *)

Elapse(h) ==
  /\ pc[h] = "waiting" /\ ~expired[h]
  /\ expired' = [expired EXCEPT ![h] = TRUE]
  /\ UNCHANGED <<world, pc, linked, baseline, chunks, replies, ghosts>>

\* Ctrl+C at any place; the operating system may kill the process as well.
Interrupt(h) ==
  /\ pc[h] # "out"
  /\ MirrorPerhaps(h)
  /\ Leave(h)
  /\ UNCHANGED <<chat, ghosts>>

\* Mutant: the wait starts over.
TimeoutWaitsOn(h) ==
  /\ pc[h] = "waiting" /\ expired[h]
  /\ expired' = [expired EXCEPT ![h] = FALSE]
  /\ UNCHANGED <<world, pc, linked, baseline, chunks, replies, ghosts>>

\* Stop hands the retry message to Claude, AskUserQuestion lets the dialog run.
Timeout(h) ==
  /\ pc[h] = "waiting" /\ expired[h]
  /\ Leave(h)
  /\ UNCHANGED <<world, ghosts>>

TakeOver(h) ==
  /\ ReleaseOnLocalInput
  /\ pc[h] = "waiting" /\ ~expired[h]
  /\ SendAndForget(h)
  /\ Leave(h)
  /\ UNCHANGED ghosts

\* Mutant: rows of either direction are replies.
PollBothWays(h) ==
  /\ pc[h] = "waiting" /\ ~expired[h]
  /\ linked[h]
  /\ replies' = [replies EXCEPT ![h] = Newest(Above(baseline[h]), PollLimit)]
  /\ replies'[h] # {}
  /\ held' = [held EXCEPT ![h] = Above(asked[h])]
  /\ pc' = [pc EXCEPT ![h] = "acking"]
  /\ UNCHANGED <<world, linked, baseline, chunks, expired, asked, got>>

\* parse_replies: what a poll finds, of both directions' newest rows.
Found(h) == Inbound(Newest(Above(baseline[h]), PollLimit))

\* poll_once returns replies.  A poll that finds none or fails changes nothing.
Poll(h) ==
  /\ pc[h] = "waiting" /\ ~expired[h]
  /\ linked[h]
  /\ replies' = [replies EXCEPT ![h] = Found(h)]
  /\ replies'[h] # {}
  /\ held' = [held EXCEPT ![h] = Above(asked[h])]
  /\ pc' = [pc EXCEPT ![h] = "acking"]
  /\ UNCHANGED <<world, linked, baseline, chunks, expired, asked, got>>

Acknowledge(h) ==
  /\ pc[h] = "acking"
  /\ SendAndForget(h)
  /\ pc' = [pc EXCEPT ![h] = "replying"]
  /\ UNCHANGED <<linked, baseline, chunks, expired, replies, ghosts>>

\* emit_block or emit_tool_block: the replies are Claude's.
Block(h) ==
  /\ pc[h] = "replying"
  /\ got' = [got EXCEPT ![h] = Append(@, replies[h])]
  /\ Leave(h)
  /\ UNCHANGED <<world, asked, held>>

-----------------------------------------------------------------------------
Proceed(h) ==
  \/ NotAsked(h) \/ Connect(h)
  \/ Ask(h) \/ (\E n \in 0..MaxChunks : Asked(h, n)) \/ AskFails(h)
  \/ SendChunk(h)
  \/ Timeout(h) \/ TakeOver(h) \/ Poll(h)
  \/ Acknowledge(h) \/ Block(h)

Next ==
  \/ UserSends
  \/ \E i \in Inbound(Ids) \ visible : RecordInbound(i)
  \/ \E h \in Sessions :
       Begin(h) \/ PipeBreaks(h) \/ Elapse(h) \/ Interrupt(h) \/ Proceed(h)

Spec == Init /\ [][Next]_vars

(***************************************************************************)
(* Fairness: the hook is one sequential program and keeps running; each    *)
(* call it waits for ends in an answer or an error (the server answers, or *)
(* its end of the pipe is closed); time passes.  Nothing is assumed of the *)
(* user, the updater, Claude or the survival of the server.                *)
(***************************************************************************)
LiveSpec == Spec /\ \A h \in Sessions : WF_vars(Proceed(h)) /\ WF_vars(Elapse(h))

-----------------------------------------------------------------------------
(* Properties *)

TypeOK ==
  /\ chat \in Seq({"in", "out"})
  /\ visible \subseteq Ids
  /\ pc \in [Sessions -> Locations]
  /\ linked \in [Sessions -> BOOLEAN]
  /\ baseline \in [Sessions -> Ids \cup {0}]
  /\ chunks \in [Sessions -> 0..MaxChunks]
  /\ expired \in [Sessions -> BOOLEAN]
  /\ replies \in [Sessions -> SUBSET Ids]
  /\ asked \in [Sessions -> Ids \cup {0}]
  /\ held \in [Sessions -> SUBSET Ids]
  /\ got \in [Sessions -> Seq(SUBSET Nat)]

\* What a hook takes for the answer was said by the user after the question had
\* reached the chat, also when an older message is recorded only during the
\* wait, and it is never one of the bot's messages in that chat.
AnswersFollowQuestion ==
  \A h \in Sessions : replies[h] \subseteq {i \in Inbound(Ids) : i > asked[h]}

\* No reply is left out for having come early (among the chunks, or before the
\* id of the question was back): while no more rows than one poll returns are
\* newer than the question, a poll finds every reply the history holds, so that
\* one that finds nothing has overlooked none.
NoEarlyReplyIgnored ==
  \A h \in Sessions :
    /\ pc[h] = "waiting" /\ Cardinality(Above(asked[h])) <= PollLimit =>
         Found(h) = Inbound(Above(asked[h]))
    /\ pc[h] \in {"acking", "replying"} /\ Cardinality(held[h]) <= PollLimit =>
         replies[h] = Inbound(held[h])

\* What Claude has got, as the abstract module tells it.
Feed == INSTANCE Feed WITH said <- Inbound(Ids)

\* Inductive strengthening: a hook past its question has it in the chat and as
\* its baseline; what its session got before is older than the question; replies
\* are in hand only until they are handed over.
InPlace ==
  \A h \in Sessions :
    /\ pc[h] \in {"sent", "chunks", "waiting", "acking", "replying"} => asked[h] \in Ids
    /\ pc[h] \in {"chunks", "waiting", "acking", "replying"} => baseline[h] = asked[h]
    /\ pc[h] = "chunks" => chunks[h] # 0

GotIsOlder ==
  \A h \in Sessions :
    /\ Feed!Given(got[h]) \subseteq Inbound(Ids)
    /\ pc[h] \in {"sent", "chunks", "waiting", "acking", "replying"} =>
         \A j \in Feed!Given(got[h]) : j < asked[h]

RepliesInHand ==
  \A h \in Sessions : replies[h] # {} <=> pc[h] \in {"acking", "replying"}

RepliesAreAll ==
  \A h \in Sessions :
    pc[h] \in {"acking", "replying"} /\ Cardinality(held[h]) <= PollLimit =>
      replies[h] = Inbound(held[h])

HInv ==
  /\ TypeOK
  /\ InPlace
  /\ GotIsOlder
  /\ RepliesInHand
  /\ AnswersFollowQuestion
  /\ RepliesAreAll

\* The hook ends by itself: with no reply, key or signal, through a broken pipe
\* and failing polls, Claude gets its session back.
HookEnds == \A h \in Sessions : pc[h] # "out" ~> pc[h] = "out"

\* The replies a session gets, over all its waits, are each handed over once and
\* in order.
ImplementsFeed == Feed!Spec
=============================================================================
