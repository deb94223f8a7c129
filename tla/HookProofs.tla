---------------------------- MODULE HookProofs ----------------------------
(***************************************************************************)
(* Proofs about Hook, for any number of sessions, messages and chunks and  *)
(* any poll limit.  A step of one session leaves the others alone and at   *)
(* most appends to the chat, so the invariant is proved session by         *)
(* session: Others for the sessions that do not move, SessionStep for the  *)
(* one that does.                                                          *)
(***************************************************************************)
EXTENDS Hook, FiniteSetTheorems, TLAPS

\* The invariant of one session.
SessionInv(h) ==
  /\ pc[h] \in {"sent", "chunks", "waiting", "acking", "replying"} =>
       asked[h] \in Ids /\ \A j \in Feed!Given(got[h]) : j < asked[h]
  /\ pc[h] \in {"chunks", "waiting", "acking", "replying"} => baseline[h] = asked[h]
  /\ pc[h] = "chunks" => chunks[h] # 0
  /\ Feed!Given(got[h]) \subseteq Inbound(Ids)
  /\ replies[h] # {} <=> pc[h] \in {"acking", "replying"}
  /\ replies[h] \subseteq {i \in Inbound(Ids) : i > asked[h]}
  /\ pc[h] \in {"acking", "replying"} /\ Cardinality(held[h]) <= PollLimit =>
       replies[h] = Inbound(held[h])

LEMMA BySession == HInv <=> TypeOK /\ \A h \in Sessions : SessionInv(h)
BY DEF HInv, InPlace, GotIsOlder, RepliesInHand, AnswersFollowQuestion,
       RepliesAreAll, SessionInv

\* What a step may do to the chat.
Grows == chat' = chat \/ \E d \in {"in", "out"} : chat' = Append(chat, d)

LEMMA ChatGrows ==
  ASSUME TypeOK, Grows
  PROVE  /\ chat' \in Seq({"in", "out"})
         /\ Len(chat) \in Nat
         /\ Len(chat') \in {Len(chat), Len(chat) + 1}
         /\ \A i \in Ids : i \in Ids' /\ chat'[i] = chat[i]
         /\ \A S \in SUBSET Ids : Inbound(S)' = Inbound(S)
<1>1. CASE chat' = chat
  BY <1>1 DEF TypeOK, Ids, Inbound
<1>2. ASSUME NEW d \in {"in", "out"}, chat' = Append(chat, d)
      PROVE  /\ chat' \in Seq({"in", "out"})
             /\ Len(chat) \in Nat
             /\ Len(chat') = Len(chat) + 1
             /\ \A i \in Ids : i \in Ids' /\ chat'[i] = chat[i]
  BY <1>2 DEF TypeOK, Ids
<1>3. (\A i \in Ids : chat'[i] = chat[i]) => \A S \in SUBSET Ids : Inbound(S)' = Inbound(S)
  BY DEF Inbound
<1>. QED  BY <1>1, <1>2, <1>3 DEF Grows

\* The variables of a session, none of them the chat or the history.
Own(h) ==
  <<pc[h], linked[h], baseline[h], chunks[h], expired[h], replies[h],
    asked[h], held[h], got[h]>>

\* A session that does not move keeps its invariant while the chat grows.
LEMMA Others ==
  ASSUME TypeOK, Grows, NEW h \in Sessions, SessionInv(h), UNCHANGED Own(h)
  PROVE  SessionInv(h)'
<1>1. /\ \A i \in Ids : i \in Ids' /\ chat'[i] = chat[i]
      /\ \A S \in SUBSET Ids : Inbound(S)' = Inbound(S)
  BY ChatGrows
<1>2. Inbound(Ids) \subseteq Inbound(Ids)'
  BY <1>1 DEF Inbound
<1>3. held[h] \in SUBSET Ids
  BY DEF TypeOK
<1>4. Inbound(held[h])' = Inbound(held[h])
  BY <1>1, <1>3 DEF Own, Inbound
<1>. QED  BY <1>1, <1>2, <1>4 DEF SessionInv, Own

LEMMA Sends ==
  ASSUME TypeOK, NEW h \in Sessions, SendAndForget(h)
  PROVE  Grows /\ visible' \subseteq Ids'
<1>1. CASE Post(h) /\ visible' \in {visible, visible \cup {Len(chat) + 1}}
  <2>1. Grows
    BY <1>1 DEF Post, Grows
  <2>2. Len(chat') = Len(chat) + 1 /\ Len(chat) \in Nat
    BY <1>1 DEF Post, TypeOK
  <2>. QED  BY <1>1, <2>1, <2>2 DEF TypeOK, Ids
<1>2. CASE UNCHANGED world
  BY <1>2 DEF world, Grows, TypeOK, Ids
<1>. QED  BY <1>1, <1>2 DEF SendAndForget

\* A session whose hook is gone has nothing to keep but what it got.
LEMMA Left ==
  ASSUME TypeOK, Grows, NEW h \in Sessions, SessionInv(h), Leave(h),
         visible' \subseteq Ids', UNCHANGED <<asked, held>>,
         got' \in [Sessions -> Seq(SUBSET Nat)],
         Feed!Given(got'[h]) \subseteq Inbound(Ids),
         \A k \in Sessions \ {h} : got'[k] = got[k]
  PROVE  TypeOK' /\ SessionInv(h)' /\ \A k \in Sessions \ {h} : UNCHANGED Own(k)
<1>. USE DEF Leave
<1>1. chat' \in Seq({"in", "out"}) /\ Ids \subseteq Ids'
  BY ChatGrows
<1>2. Inbound(Ids) \subseteq Inbound(Ids)'
  BY ChatGrows DEF Inbound
<1>3. TypeOK'
  <2>1. /\ pc' \in [Sessions -> Locations]
        /\ linked' \in [Sessions -> BOOLEAN]
        /\ expired' \in [Sessions -> BOOLEAN]
    BY DEF TypeOK, Locations
  <2>2. chunks' \in [Sessions -> 0..MaxChunks]
    BY BoundsAssumption DEF TypeOK
  <2>3. /\ baseline' \in [Sessions -> Ids' \cup {0}]
        /\ asked' \in [Sessions -> Ids' \cup {0}]
    BY <1>1 DEF TypeOK
  <2>4. /\ replies' \in [Sessions -> SUBSET Ids']
        /\ held' \in [Sessions -> SUBSET Ids']
        /\ got' \in [Sessions -> Seq(SUBSET Nat)]
    BY <1>1 DEF TypeOK
  <2>. QED  BY <1>1, <2>1, <2>2, <2>3, <2>4 DEF TypeOK
<1>4. SessionInv(h)'
  BY <1>2 DEF TypeOK, SessionInv
<1>5. \A k \in Sessions \ {h} : UNCHANGED Own(k)
  BY DEF TypeOK, Own
<1>. QED  BY <1>3, <1>4, <1>5

LEMMA NewestAll ==
  ASSUME NEW S, IsFiniteSet(S), NEW n \in Nat, Cardinality(S) <= n
  PROVE  Newest(S, n) = S
<1>1. \A i \in S : Cardinality({j \in S : j >= i}) <= n
  <2>. TAKE i \in S
  <2>1. {j \in S : j >= i} \in SUBSET S
    OBVIOUS
  <2>2. /\ IsFiniteSet({j \in S : j >= i})
        /\ Cardinality({j \in S : j >= i}) <= Cardinality(S)
    BY <2>1, FS_Subset
  <2>3. Cardinality({j \in S : j >= i}) \in Nat /\ Cardinality(S) \in Nat
    BY <2>2, FS_CardinalityType
  <2>. QED  BY <2>2, <2>3
<1>. QED  BY <1>1 DEF Newest

LEMMA NewestSubset == ASSUME NEW S, NEW n PROVE Newest(S, n) \subseteq S
BY DEF Newest

-----------------------------------------------------------------------------
(***************************************************************************)
(* A step of session h.                                                    *)
(***************************************************************************)
Good(h) ==
  /\ Grows
  /\ TypeOK'
  /\ SessionInv(h)'
  /\ \A k \in Sessions \ {h} : UNCHANGED Own(k)

\* One delivery more adds its ids.
LEMMA GivenMore ==
  ASSUME NEW s \in Seq(SUBSET Nat), NEW S \in SUBSET Nat
  PROVE  Feed!Given(Append(s, S)) = Feed!Given(s) \cup S
<1>1. /\ DOMAIN s = 1..Len(s) /\ Len(s) \in Nat
      /\ DOMAIN Append(s, S) = 1..(Len(s) + 1)
      /\ \A k \in 1..Len(s) : Append(s, S)[k] = s[k]
      /\ Append(s, S)[Len(s) + 1] = S
  OBVIOUS
<1>2. 1..(Len(s) + 1) = (1..Len(s)) \cup {Len(s) + 1}
  BY <1>1
<1>. QED  BY <1>1, <1>2, Zenon DEF Feed!Given

LEMMA LeavingIsGood ==
  ASSUME TypeOK, NEW h \in Sessions, SessionInv(h),
         \/ NotAsked(h) \/ AskFails(h) \/ Interrupt(h)
         \/ Timeout(h) \/ TakeOver(h) \/ Block(h)
  PROVE  Good(h)
<1>1. Leave(h) /\ UNCHANGED <<asked, held>>
  BY DEF NotAsked, AskFails, Interrupt, Timeout, TakeOver, Block, ghosts
<1>2. Grows /\ visible' \subseteq Ids'
  <2>1. CASE NotAsked(h) \/ Timeout(h) \/ Block(h)
    BY <2>1 DEF NotAsked, Timeout, Block, world, Grows, TypeOK, Ids
  <2>2. CASE AskFails(h) \/ Interrupt(h)
    BY <2>2 DEF AskFails, Interrupt, MirrorPerhaps, Grows, TypeOK, Ids, SessionInv
  <2>3. CASE TakeOver(h)
    BY <2>3, Sends DEF TakeOver
  <2>. QED  BY <2>1, <2>2, <2>3
<1>3. /\ got' \in [Sessions -> Seq(SUBSET Nat)]
      /\ Feed!Given(got'[h]) \subseteq Inbound(Ids)
      /\ \A k \in Sessions \ {h} : got'[k] = got[k]
  <2>1. CASE Block(h)
    <3>1. replies[h] \subseteq Inbound(Ids) /\ Feed!Given(got[h]) \subseteq Inbound(Ids)
      BY DEF SessionInv
    <3>2. /\ got[h] \in Seq(SUBSET Nat) /\ replies[h] \in SUBSET Nat
          /\ got' = [got EXCEPT ![h] = Append(got[h], replies[h])]
      BY <2>1 DEF Block, TypeOK, Ids
    <3>3. Append(got[h], replies[h]) \in Seq(SUBSET Nat)
      BY <3>2
    <3>4. Feed!Given(Append(got[h], replies[h])) = Feed!Given(got[h]) \cup replies[h]
      BY <3>2, GivenMore
    <3>. QED  BY <3>1, <3>2, <3>3, <3>4 DEF TypeOK
  <2>2. CASE got' = got
    BY <2>2 DEF TypeOK, SessionInv
  <2>. QED  BY <2>1, <2>2 DEF NotAsked, AskFails, Interrupt, Timeout, TakeOver, ghosts
<1>. QED  BY <1>1, <1>2, <1>3, Left DEF Good

LEMMA StartingIsGood ==
  ASSUME TypeOK, NEW h \in Sessions, SessionInv(h),
         Begin(h) \/ Connect(h) \/ PipeBreaks(h) \/ Elapse(h)
  PROVE  Good(h)
<1>. USE DEF Begin, Connect, PipeBreaks, Elapse, world, ghosts
<1>1. chat' = chat /\ visible' = visible
  OBVIOUS
<1>2. TypeOK'
  BY <1>1 DEF TypeOK, Locations, Ids
<1>3. SessionInv(h)'
  BY <1>1 DEF SessionInv, Ids, Inbound, TypeOK
<1>4. \A k \in Sessions \ {h} : UNCHANGED Own(k)
  BY DEF Own, TypeOK
<1>. QED  BY <1>1, <1>2, <1>3, <1>4 DEF Good, Grows

LEMMA AskIsGood ==
  ASSUME TypeOK, NEW h \in Sessions, SessionInv(h), Ask(h)
  PROVE  Good(h)
<1>. USE DEF Ask, Post
<1>1. Grows
  BY DEF Grows
<1>2. /\ chat' \in Seq({"in", "out"})
      /\ Ids \subseteq Ids'
      /\ Inbound(Ids) \subseteq Inbound(Ids)'
  BY <1>1, ChatGrows DEF Inbound
<1>3. Len(chat) \in Nat /\ Ids' = 1..(Len(chat) + 1) /\ Len(chat) + 1 \in Ids'
  BY DEF TypeOK, Ids
<1>4. TypeOK'
  <2>1. pc' \in [Sessions -> Locations] /\ asked' \in [Sessions -> Ids' \cup {0}]
    BY <1>2, <1>3 DEF TypeOK, Locations
  <2>. QED  BY <1>2, <2>1 DEF TypeOK
<1>5. asked'[h] = Len(chat) + 1 /\ pc'[h] = "sent"
  BY DEF TypeOK
<1>6. \A j \in Feed!Given(got[h]) : j < Len(chat) + 1
  BY <1>3 DEF SessionInv, Inbound, Ids
<1>7. SessionInv(h)'
  BY <1>2, <1>3, <1>5, <1>6 DEF SessionInv
<1>8. \A k \in Sessions \ {h} : UNCHANGED Own(k)
  BY DEF Own, TypeOK
<1>. QED  BY <1>1, <1>4, <1>7, <1>8 DEF Good

LEMMA AskedIsGood ==
  ASSUME TypeOK, NEW h \in Sessions, SessionInv(h),
         NEW n \in 0..MaxChunks, Asked(h, n)
  PROVE  Good(h)
<1>. USE DEF Asked, ghosts
<1>1. asked[h] \in Ids /\ chat' = chat
  BY DEF SessionInv
<1>2. TypeOK'
  BY <1>1 DEF TypeOK, Locations, Ids
<1>3. SessionInv(h)'
  BY <1>1 DEF SessionInv, TypeOK, Ids, Inbound
<1>4. \A k \in Sessions \ {h} : UNCHANGED Own(k)
  BY DEF Own, TypeOK
<1>. QED  BY <1>1, <1>2, <1>3, <1>4 DEF Good, Grows

LEMMA SendingIsGood ==
  ASSUME TypeOK, NEW h \in Sessions, SessionInv(h), SendChunk(h) \/ Acknowledge(h)
  PROVE  Good(h)
<1>. USE DEF SendChunk, Acknowledge, ghosts
<1>1. Grows /\ visible' \subseteq Ids'
  BY Sends
<1>2. /\ chat' \in Seq({"in", "out"})
      /\ Ids \subseteq Ids'
      /\ Inbound(Ids) \subseteq Inbound(Ids)'
      /\ \A S \in SUBSET Ids : Inbound(S)' = Inbound(S)
  BY <1>1, ChatGrows DEF Inbound
<1>3. TypeOK'
  <2>1. pc' \in [Sessions -> Locations]
    BY DEF TypeOK, Locations
  <2>2. chunks' \in [Sessions -> 0..MaxChunks]
    <3>1. chunks \in [Sessions -> 0..MaxChunks] /\ (pc[h] = "chunks" => chunks[h] # 0)
      BY DEF TypeOK, SessionInv
    <3>2. chunks' = chunks \/ (pc[h] = "chunks" /\ chunks' = [chunks EXCEPT ![h] = chunks[h] - 1])
      OBVIOUS
    <3>. HIDE DEF SendChunk, Acknowledge
    <3>3. chunks[h] \in 1..MaxChunks => chunks[h] - 1 \in 0..MaxChunks
      BY BoundsAssumption
    <3>4. pc[h] = "chunks" => chunks[h] \in 1..MaxChunks
      BY <3>1, BoundsAssumption
    <3>. QED  BY <3>1, <3>2, <3>3, <3>4
  <2>3. /\ linked' = linked /\ expired' = expired /\ replies' = replies
        /\ baseline' = baseline /\ asked' = asked /\ held' = held /\ got' = got
    OBVIOUS
  <2>. HIDE DEF SendChunk, Acknowledge
  <2>4. /\ baseline' \in [Sessions -> Ids' \cup {0}]
        /\ asked' \in [Sessions -> Ids' \cup {0}]
        /\ replies' \in [Sessions -> SUBSET Ids']
        /\ held' \in [Sessions -> SUBSET Ids']
    BY <1>2, <2>3 DEF TypeOK
  <2>. QED  BY <1>1, <1>2, <2>1, <2>2, <2>3, <2>4 DEF TypeOK
<1>4. Inbound(held[h])' = Inbound(held[h])
  <2>1. held' = held /\ held[h] \in SUBSET Ids
    BY DEF TypeOK
  <2>. QED  BY <1>2, <2>1 DEF Inbound
<1>5. SessionInv(h)'
  BY <1>2, <1>4, BoundsAssumption DEF SessionInv, TypeOK
<1>6. \A k \in Sessions \ {h} : UNCHANGED Own(k)
  BY DEF Own, TypeOK
<1>. QED  BY <1>1, <1>3, <1>5, <1>6 DEF Good

LEMMA InitialSegmentFinite ==
  ASSUME NEW n \in Nat
  PROVE  IsFiniteSet(1..n)
<1>1. 1 \in Int /\ n \in Int
  OBVIOUS
<1>. QED  BY <1>1, FS_Interval

LEMMA PollIsGood ==
  ASSUME TypeOK, NEW h \in Sessions, SessionInv(h), Poll(h)
  PROVE  Good(h)
<1>. USE DEF Poll, Found, world
<1>. DEFINE page == Newest(Above(baseline[h]), PollLimit)
            rest == Above(asked[h])
<1>1. chat' = chat /\ visible' = visible /\ asked' = asked /\ got' = got
  OBVIOUS
<1>2. rest \subseteq Ids /\ page \subseteq rest
  BY NewestSubset DEF TypeOK, SessionInv, Above
<1>3. replies'[h] = Inbound(page) /\ held'[h] = rest /\ pc'[h] = "acking"
  BY DEF TypeOK
<1>4. Cardinality(rest) <= PollLimit => page = rest
  <2>1. IsFiniteSet(rest)
    <3>1. Len(chat) \in Nat /\ rest \in SUBSET (1..Len(chat))
      BY <1>2 DEF TypeOK, Ids
    <3>2. IsFiniteSet(1..Len(chat))
      <4>. HIDE DEF Poll, Found, page, rest
      <4>. QED  BY <3>1, InitialSegmentFinite
    <3>. QED  BY <3>1, <3>2, FS_Subset
  <2>2. baseline[h] = asked[h]
    BY DEF SessionInv
  <2>. QED  BY <2>1, <2>2, NewestAll, BoundsAssumption
<1>. HIDE DEF page, rest
<1>5. Inbound(page) \subseteq Inbound(Ids)
  BY <1>2 DEF Inbound
<1>6. \A i \in page : i > asked[h]
  BY <1>2 DEF rest, Above
<1>7. TypeOK'
  <2>1. pc' \in [Sessions -> Locations]
    BY DEF TypeOK, Locations
  <2>2. replies' = [replies EXCEPT ![h] = Inbound(page)]
    BY DEF page
  <2>3. Inbound(page) \in SUBSET Ids
    BY <1>5 DEF Inbound
  <2>4. replies' \in [Sessions -> SUBSET Ids]
    BY <2>2, <2>3 DEF TypeOK
  <2>5. held' = [held EXCEPT ![h] = rest]
    BY DEF rest
  <2>6. held' \in [Sessions -> SUBSET Ids]
    BY <1>2, <2>5 DEF TypeOK
  <2>. QED  BY <1>1, <2>1, <2>4, <2>6 DEF TypeOK, Ids
<1>8. SessionInv(h)'
  <2>1. Inbound(Ids)' = Inbound(Ids) /\ Ids' = Ids
    BY <1>1 DEF Inbound, Ids
  <2>2. replies'[h] # {}
    OBVIOUS
  <2>3. replies'[h] \subseteq {i \in Inbound(Ids) : i > asked[h]}
    BY <1>3, <1>5, <1>6 DEF Inbound
  <2>4. Inbound(held[h])' = Inbound(rest)
    BY <1>1, <1>3 DEF Inbound
  <2>5. Cardinality(held'[h]) <= PollLimit => replies'[h] = Inbound(held[h])'
    BY <1>3, <1>4, <2>4
  <2>. QED  BY <1>1, <1>3, <2>1, <2>2, <2>3, <2>5 DEF SessionInv
<1>9. \A k \in Sessions \ {h} : UNCHANGED Own(k)
  BY DEF Own, TypeOK
<1>. QED  BY <1>1, <1>7, <1>8, <1>9 DEF Good, Grows

LEMMA SessionStep ==
  ASSUME TypeOK, NEW h \in Sessions, SessionInv(h),
         Begin(h) \/ PipeBreaks(h) \/ Elapse(h) \/ Interrupt(h) \/ Proceed(h)
  PROVE  Good(h)
<1>1. CASE \/ NotAsked(h) \/ AskFails(h) \/ Interrupt(h)
           \/ Timeout(h) \/ TakeOver(h) \/ Block(h)
  BY <1>1, LeavingIsGood
<1>2. CASE Begin(h) \/ Connect(h) \/ PipeBreaks(h) \/ Elapse(h)
  BY <1>2, StartingIsGood
<1>3. CASE Ask(h)
  BY <1>3, AskIsGood
<1>4. CASE \E n \in 0..MaxChunks : Asked(h, n)
  BY <1>4, AskedIsGood
<1>5. CASE SendChunk(h) \/ Acknowledge(h)
  BY <1>5, SendingIsGood
<1>6. CASE Poll(h)
  BY <1>6, PollIsGood
<1>. QED  BY <1>1, <1>2, <1>3, <1>4, <1>5, <1>6 DEF Proceed

-----------------------------------------------------------------------------
LEMMA InitHInv == Init => HInv
<1>. SUFFICES ASSUME Init PROVE TypeOK /\ \A h \in Sessions : SessionInv(h)
  BY BySession
<1>1. TypeOK
  BY BoundsAssumption DEF Init, TypeOK, Locations, Ids
<1>2. \A h \in Sessions : SessionInv(h)
  BY DEF Init, SessionInv, Feed!Given
<1>. QED  BY <1>1, <1>2

LEMMA NextHInv == HInv /\ [Next]_vars => HInv'
<1>0. HInv' <=> TypeOK' /\ \A h \in Sessions : SessionInv(h)'
  BY DEF HInv, InPlace, GotIsOlder, RepliesInHand, AnswersFollowQuestion,
         RepliesAreAll, SessionInv
<1>. SUFFICES ASSUME TypeOK, \A h \in Sessions : SessionInv(h), [Next]_vars
              PROVE  TypeOK' /\ \A h \in Sessions : SessionInv(h)'
  BY <1>0, BySession
<1>1. CASE UserSends
  <2>1. Grows
    BY <1>1 DEF UserSends, Grows
  <2>2. chat' \in Seq({"in", "out"}) /\ Ids \subseteq Ids'
    BY <2>1, ChatGrows
  <2>3. TypeOK'
    BY <1>1, <2>2 DEF UserSends, hook, ghosts, TypeOK
  <2>4. ASSUME NEW h \in Sessions PROVE SessionInv(h)'
    <3>1. UNCHANGED Own(h)
      BY <1>1 DEF UserSends, hook, ghosts, Own
    <3>. QED  BY <2>1, <3>1, Others
  <2>. QED  BY <2>3, <2>4
<1>2. ASSUME NEW i \in Inbound(Ids), RecordInbound(i)
      PROVE  TypeOK' /\ \A h \in Sessions : SessionInv(h)'
  <2>1. Grows
    BY <1>2 DEF RecordInbound, Grows
  <2>2. TypeOK'
    BY <1>2 DEF RecordInbound, hook, ghosts, TypeOK, Ids, Inbound
  <2>3. ASSUME NEW h \in Sessions PROVE SessionInv(h)'
    <3>1. UNCHANGED Own(h)
      BY <1>2 DEF RecordInbound, hook, ghosts, Own
    <3>. QED  BY <2>1, <3>1, Others
  <2>. QED  BY <2>2, <2>3
<1>3. ASSUME NEW h \in Sessions,
             Begin(h) \/ PipeBreaks(h) \/ Elapse(h) \/ Interrupt(h) \/ Proceed(h)
      PROVE  TypeOK' /\ \A k \in Sessions : SessionInv(k)'
  <2>1. Good(h)
    BY <1>3, SessionStep
  <2>2. ASSUME NEW k \in Sessions, k # h PROVE SessionInv(k)'
    <3>1. Grows /\ UNCHANGED Own(k)
      BY <2>1, <2>2 DEF Good
    <3>. QED  BY <3>1, Others
  <2>. QED  BY <2>1, <2>2 DEF Good
<1>4. CASE UNCHANGED vars
  <2>1. Grows
    BY <1>4 DEF vars, world, Grows
  <2>2. TypeOK'
    BY <1>4 DEF vars, world, hook, ghosts, TypeOK, Ids
  <2>3. ASSUME NEW h \in Sessions PROVE SessionInv(h)'
    <3>1. UNCHANGED Own(h)
      BY <1>4 DEF vars, world, hook, ghosts, Own
    <3>. QED  BY <2>1, <3>1, Others
  <2>. QED  BY <2>2, <2>3
<1>. QED  BY <1>1, <1>2, <1>3, <1>4 DEF Next

\* The inductive invariant holds in every reachable state.
THEOREM Safety == Spec => []HInv
<1>. QED  BY InitHInv, NextHInv, PTL DEF Spec

\* Every variable keeps its type.
THEOREM TypeCorrect == Spec => []TypeOK
<1>1. HInv => TypeOK
  BY DEF HInv
<1>. QED  BY <1>1, Safety, PTL

\* What a hook takes for the answer is a message of the user that follows the
\* question, for any number of sessions in the chat and any order of recording.
THEOREM AnswersAreAnswers == Spec => []AnswersFollowQuestion
<1>1. HInv => AnswersFollowQuestion
  BY DEF HInv
<1>. QED  BY <1>1, Safety, PTL

\* Up to PollLimit rows, a poll finds every recorded reply to the question: it
\* finds nothing only when there is none.
THEOREM EarlyRepliesCount == Spec => []NoEarlyReplyIgnored
<1>1. HInv => NoEarlyReplyIgnored
  <2>. SUFFICES ASSUME HInv, NEW h \in Sessions, pc[h] = "waiting",
                       Cardinality(Above(asked[h])) <= PollLimit
                PROVE  Found(h) = Inbound(Above(asked[h]))
    BY DEF NoEarlyReplyIgnored, HInv, RepliesAreAll
  <2>1. TypeOK /\ SessionInv(h)
    BY BySession
  <2>2. IsFiniteSet(Above(asked[h]))
    <3>1. Len(chat) \in Nat /\ IsFiniteSet(Ids)
      BY <2>1, InitialSegmentFinite DEF TypeOK, Ids
    <3>2. Above(asked[h]) \subseteq Ids
      BY <2>1 DEF TypeOK, Above
    <3>. QED  BY <3>1, <3>2, FS_Subset
  <2>3. baseline[h] = asked[h]
    BY <2>1 DEF SessionInv
  <2>. QED  BY <2>2, <2>3, NewestAll, BoundsAssumption DEF Found
<1>. QED  BY <1>1, Safety, PTL

-----------------------------------------------------------------------------
(***************************************************************************)
(* Refinement: Block is a delivery, a new message of the user is Say, and  *)
(* everything else is a stutter.                                           *)
(***************************************************************************)
LEMMA InitRefines == Init => Feed!Init
BY DEF Init, Feed!Init, Ids, Inbound

LEMMA GrowingIsSaying ==
  ASSUME TypeOK, Grows, got' = got
  PROVE  [Feed!Next]_(Feed!vars)
<1>1. /\ Len(chat) \in Nat
      /\ Len(chat') \in {Len(chat), Len(chat) + 1}
      /\ \A i \in Ids : i \in Ids' /\ chat'[i] = chat[i]
  BY ChatGrows
<1>2. Inbound(Ids) \subseteq Inbound(Ids)'
  BY <1>1 DEF Inbound
<1>3. \A i \in Inbound(Ids)' \ Inbound(Ids) : i = Len(chat) + 1
  BY <1>1 DEF Inbound, Ids
<1>4. \A i \in Inbound(Ids)' \ Inbound(Ids), j \in Inbound(Ids) : j < i
  BY <1>1, <1>3 DEF Inbound, Ids
<1>5. Feed!Say
  BY <1>2, <1>4 DEF Feed!Say
<1>. QED  BY <1>5 DEF Feed!Next

LEMMA BlockIsDelivery ==
  ASSUME TypeOK, NEW h \in Sessions, SessionInv(h), Block(h)
  PROVE  [Feed!Next]_(Feed!vars)
<1>. DEFINE S == replies[h]
<1>1. Inbound(Ids)' = Inbound(Ids)
  BY DEF Block, world, Inbound, Ids
<1>2. S # {} /\ S \subseteq Inbound(Ids) /\ \A i \in S : i > asked[h]
  BY DEF Block, SessionInv
<1>3. \A j \in Feed!Given(got[h]) : j < asked[h]
  BY DEF Block, SessionInv
<1>4. \A i \in S, j \in Feed!Given(got[h]) : j < i
  <2>1. S \subseteq Nat /\ asked[h] \in Nat
    BY DEF TypeOK, Ids
  <2>2. Feed!Given(got[h]) \subseteq Nat
    BY DEF TypeOK, Feed!Given
  <2>. QED  BY <1>2, <1>3, <2>1, <2>2
<1>5. got' = [got EXCEPT ![h] = Append(got[h], S)]
  BY DEF Block
<1>6. Feed!Deliver(h, S)
  BY <1>1, <1>2, <1>4, <1>5 DEF Feed!Deliver
<1>. QED  BY <1>2, <1>6 DEF Feed!Next

LEMMA NextRefines == HInv /\ [Next]_vars => [Feed!Next]_(Feed!vars)
<1>. SUFFICES ASSUME TypeOK, \A h \in Sessions : SessionInv(h), [Next]_vars
              PROVE  [Feed!Next]_(Feed!vars)
  BY BySession
<1>1. CASE UserSends \/ (\E i \in Inbound(Ids) : RecordInbound(i)) \/ UNCHANGED vars
  <2>1. Grows /\ got' = got
    BY <1>1 DEF UserSends, RecordInbound, vars, world, ghosts, Grows
  <2>. QED  BY <2>1, GrowingIsSaying
<1>2. ASSUME NEW h \in Sessions,
             Begin(h) \/ PipeBreaks(h) \/ Elapse(h) \/ Interrupt(h) \/ Proceed(h)
      PROVE  [Feed!Next]_(Feed!vars)
  <2>1. Grows
    BY <1>2, SessionStep DEF Good
  <2>2. CASE Block(h)
    BY <2>2, BlockIsDelivery
  <2>3. CASE ~Block(h)
    <3>1. got' = got
      BY <1>2, <2>3
         DEF Begin, PipeBreaks, Elapse, Interrupt, Proceed, NotAsked, Connect, Ask,
             Asked, AskFails, SendChunk, Timeout, TakeOver, Poll, Acknowledge, ghosts
    <3>. QED  BY <2>1, <3>1, GrowingIsSaying
  <2>. QED  BY <2>2, <2>3
<1>. QED  BY <1>1, <1>2 DEF Next

\* Over all its waits a session gets each reply once, and in the order sent.
THEOREM Refinement == Spec => ImplementsFeed
<1>. QED  BY InitRefines, NextRefines, Safety, PTL DEF Spec, ImplementsFeed, Feed!Spec
=============================================================================
