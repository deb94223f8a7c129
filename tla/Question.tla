------------------------------ MODULE Question ------------------------------
(***************************************************************************)
(* AskUserQuestion in Telegram (question.rs, and run_ask around it): the   *)
(* options of all questions are numbered through, the user answers in one  *)
(* message or several, and the first poll that finds any of them makes the *)
(* answer of what it finds.                                                *)
(***************************************************************************)
EXTENDS Text, FiniteSets

CONSTANTS
  QuestionSets,   \* for each question, the number of its options
  Messages,       \* what the user may send: texts, or MediaOnly
  MediaOnly,      \* no text and no caption
  MaxMessages

ASSUME SetsAssumption ==
  \A qs \in QuestionSets : qs \in Seq(Nat \ {0}) /\ qs # <<>>
ASSUME MessagesAssumption ==
  MediaOnly \in Messages /\ Messages \ {MediaOnly} \subseteq Seq(Char)

VARIABLES
  questions,    \* the questions asked, none before
  sent,         \* the user's messages since, in Telegram's order
  history,      \* those that an updater has recorded, by their places in sent
  answer        \* what Claude is told, or how the hook left

questionVars == <<questions, sent, history, answer>>

Waiting == [kind |-> "none"]
InApp == [kind |-> "in-app"]

QuestionInit == questions = <<>> /\ sent = <<>> /\ history = {} /\ answer = Waiting
QuestionIdle == questions = <<>> /\ sent = <<>> /\ history = {} /\ answer = InApp

-----------------------------------------------------------------------------
(* question.rs *)

\* flat_options: question and option, in the order of the numbers.
FlatOptions ==
  FlattenSeq([qi \in DOMAIN questions |->
                [oi \in 1..questions[qi] |-> <<qi, oi>>]])

\* The number that render writes at an option: it counts on from question to question.
Shown(qi, oi) ==
  LET before[q \in 1..Len(questions)] ==
        IF q = 1 THEN 0 ELSE before[q - 1] + questions[q - 1]
  IN before[qi] + oi

\* The numbers of a reply, read from left to right: anything but a digit ends one.
Value(digits) ==
  LET value[n \in 0..Len(digits)] ==
        IF n = 0 THEN 0 ELSE 10 * value[n - 1] + digits[n]
  IN value[Len(digits)]
Read(state, c) ==
  IF c \in Digit THEN [state EXCEPT !.run = Append(@, c)]
  ELSE IF state.run = <<>> THEN state
  ELSE [numbers |-> Append(state.numbers, Value(state.run)), run |-> <<>>]
Scan(text) ==
  LET scan[n \in 0..Len(text)] ==
        IF n = 0 THEN [numbers |-> <<>>, run |-> <<>>] ELSE Read(scan[n - 1], text[n])
  IN scan[Len(text)]
Numbers(reply) == Scan(Append(reply, Blank)).numbers

Picks(reply) == Only(Numbers(reply), 1..Len(FlatOptions))

\* answer_from_reply
AnswerFromReply(reply) ==
  LET picked == [i \in DOMAIN Picks(reply) |-> FlatOptions[Picks(reply)[i]]] IN
  IF picked = <<>> THEN [kind |-> "text", text |-> Trim(reply)]
  ELSE [kind |-> "options",
        chosen |-> [qi \in DOMAIN questions |->
                      Only(picked, {qi} \X Nat)]]

-----------------------------------------------------------------------------
(* run_ask *)

\* Mutant: the texts follow one another with nothing between.
JoinedClosely(replies) ==
  FlattenSeq(Only(replies, Messages \ {MediaOnly}))

\* The texts of the replies, a line each.
Joined(replies) ==
  LET texts == Only(replies, Messages \ {MediaOnly})
  IN FlattenSeq([i \in DOMAIN texts |-> IF i = 1 THEN texts[i] ELSE <<Break>> \o texts[i]])

Ask(qs) ==
  /\ questions = <<>> /\ answer = Waiting
  /\ questions' = qs
  /\ UNCHANGED <<sent, history, answer>>

\* poll_once, oldest first, and the block.
Poll ==
  /\ questions # <<>> /\ answer = Waiting
  /\ history # {}
  /\ LET places == Only([i \in DOMAIN sent |-> i], history)
         replies == [i \in DOMAIN places |-> sent[places[i]]]
     IN answer' = AnswerFromReply(Joined(replies))
  /\ UNCHANGED <<questions, sent, history>>

\* Ctrl+C, timeout or local input: the dialog of the application asks.
Dialog ==
  /\ questions # <<>> /\ answer = Waiting
  /\ answer' = InApp
  /\ UNCHANGED <<questions, sent, history>>

-----------------------------------------------------------------------------
(* The user and the updaters *)

Send(m) ==
  /\ questions # <<>> /\ answer = Waiting
  /\ Len(sent) < MaxMessages
  /\ sent' = Append(sent, m)
  /\ UNCHANGED <<questions, history, answer>>

Record(i) ==
  /\ i \in DOMAIN sent \ history /\ answer = Waiting
  /\ history' = history \cup {i}
  /\ UNCHANGED <<questions, sent, answer>>

Asking ==
  \/ \E qs \in QuestionSets : Ask(qs)
  \/ \E m \in Messages : Send(m)
  \/ \E i \in DOMAIN sent : Record(i)
  \/ Poll
  \/ Dialog

-----------------------------------------------------------------------------
(* Properties *)

\* Where a number stands in a text, with no digit at either side of it.
Stands(n, text) ==
  {at \in (DOMAIN text) \X (DOMAIN text) :
     LET i == at[1] j == at[2]
     IN /\ i <= j /\ \A k \in i..j : text[k] \in Digit
        /\ i = 1 \/ text[i - 1] \notin Digit
        /\ j = Len(text) \/ text[j + 1] \notin Digit
        /\ Value(SubSeq(text, i, j)) = n}

\* What the poll has found that has a text.
Texts == {r \in history : sent[r] # MediaOnly}

\* How often the user has typed a number, in all of it.
Typed(n) == Cardinality(UNION {{r} \X Stands(n, sent[r]) : r \in Texts})

\* How often Claude is told of an option, under its question.
Told(qi, oi) ==
  IF answer.kind = "text" THEN 0
  ELSE Cardinality({k \in DOMAIN answer.chosen[qi] : answer.chosen[qi][k] = <<qi, oi>>})

\* Claude is told of an option as often as the user has typed the number shown with
\* it, under the question it belongs to, whatever messages the replies come in and
\* whichever a poll finds together; and if no number is typed that was shown, Claude
\* is told every word of every reply.
AnswerIsWhatWasTyped ==
  answer.kind \in {"options", "text"} =>
    /\ \A qi \in DOMAIN questions : \A oi \in 1..questions[qi] :
         Typed(Shown(qi, oi)) = Told(qi, oi)
    /\ answer.kind = "text" =>
         Words(answer.text) =
           FlattenSeq([r \in DOMAIN sent |-> IF r \in Texts THEN Words(sent[r]) ELSE <<>>])
=============================================================================
