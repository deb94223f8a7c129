------------------------------- MODULE Chunks -------------------------------
(***************************************************************************)
(* split_message of tg-hook's wake.rs: Claude's last response, cut into    *)
(* messages that Telegram takes.  The limit is one of bytes, the cut never *)
(* inside a character; it is at a newline if there is one to cut at.       *)
(***************************************************************************)
EXTENDS Text

CONSTANTS
  Responses,    \* responses, trimmed and not empty, as run_stop hands them on
  MaxBytes      \* TELEGRAM_MAX_MESSAGE_BYTES

\* Room for one character, or the loop would get nowhere.
ASSUME BytesAssumption == MaxBytes \in Nat /\ MaxBytes >= 2
ASSUME ResponsesAssumption ==
  \A r \in Responses : r \in Seq(Char) /\ r # <<>> /\ Trim(r) = r

VARIABLES
  response,     \* the text given
  rest,         \* remaining
  chunks        \* those made so far

chunkVars == <<response, rest, chunks>>

Bytes(s) == Len(s) + Len(Only(s, {Accented}))

ChunksInit == response \in Responses /\ rest = response /\ chunks = <<>>
ChunksIdle == response = <<>> /\ rest = <<>> /\ chunks = <<>>

\* The last character boundary at or before the limit.
Boundary(s) ==
  CHOOSE n \in 1..Len(s) :
    /\ Bytes(SubSeq(s, 1, n)) <= MaxBytes
    /\ n = Len(s) \/ Bytes(SubSeq(s, 1, n + 1)) > MaxBytes

\* At the last newline before the boundary, if the cut is then not at the start.
CutAt(s) ==
  LET breaks == {i \in 2..Boundary(s) : s[i] = Break}
  IN IF breaks = {} THEN Boundary(s)
     ELSE (CHOOSE i \in breaks : \A j \in breaks : j <= i) - 1

\* Mutant: the rest begins at the boundary, wherever the cut was.
CutLosing ==
  /\ Bytes(rest) > MaxBytes
  /\ chunks' = Append(chunks, TrimEnd(SubSeq(rest, 1, CutAt(rest))))
  /\ rest' = TrimStart(SubSeq(rest, Boundary(rest) + 1, Len(rest)))
  /\ UNCHANGED response

\* One turn of the loop.
Cut ==
  /\ Bytes(rest) > MaxBytes
  /\ chunks' = Append(chunks, TrimEnd(SubSeq(rest, 1, CutAt(rest))))
  /\ rest' = TrimStart(SubSeq(rest, CutAt(rest) + 1, Len(rest)))
  /\ UNCHANGED response

\* Mutant: a rest of just the limit is neither too long nor short enough.
LastChunkBelow ==
  /\ rest # <<>> /\ Bytes(rest) < MaxBytes
  /\ chunks' = Append(chunks, rest)
  /\ rest' = <<>>
  /\ UNCHANGED response

\* What is left, or a response that fits as it is.
LastChunk ==
  /\ rest # <<>> /\ Bytes(rest) <= MaxBytes
  /\ chunks' = Append(chunks, rest)
  /\ rest' = <<>>
  /\ UNCHANGED response

Split == Cut \/ LastChunk

-----------------------------------------------------------------------------
(* Properties *)

\* Every chunk is a message that Telegram takes, neither empty nor too long.
Sendable(c) == Words(c) # <<>> /\ Bytes(c) <= MaxBytes

\* At any time, the chunks made so far and the rest have every word of the response,
\* in its order and none twice: only space is lost, at the cuts.  Each chunk stands in
\* the response as it is, and Telegram takes it.
NothingLost ==
  /\ Words(FlattenSeq(chunks)) \o Words(rest) = Words(response)
  /\ \A i \in DOMAIN chunks :
       /\ Sendable(chunks[i])
       /\ \E k \in 0..Len(response) - Len(chunks[i]) :
            SubSeq(response, k + 1, k + Len(chunks[i])) = chunks[i]

\* The loop ends for every response, whatever it cuts at.
SplittingEnds == <>[](rest = <<>>)
=============================================================================
