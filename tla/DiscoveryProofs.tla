-------------------------- MODULE DiscoveryProofs --------------------------
(***************************************************************************)
(* Proofs about Discovery, for any number of pids, sessions, hooks and     *)
(* servers and any nesting of sessions.  The invariant is one of each      *)
(* hook: Undisturbed carries it over the steps of everyone else, HookStep  *)
(* over its own.                                                           *)
(***************************************************************************)
EXTENDS Discovery, FiniteSetTheorems, TLAPS

\* What servers write about themselves, and when there is none.
Bearings ==
  /\ \A t \in Tokens :
       /\ born[t].parent \in {born[t].session, Nobody}
       /\ born[t].sid \in {born[t].session, Nobody}
  /\ \A p \in Pids : holder[p] = 0 => phase[p] = "none"

\* The record in hand is kin, or the only one.
Fit(h, t) == born[t].session \in Kin(h) \/ found[h] = {t}

\* A server owed to the hook is listening while it runs, and while it is findable
\* it is ahead of the scan, in hand, or found.
Ahead(h, t) ==
  LET p == born[t].pid
  IN p \in todo[h] \/ t \in found[h] \/ (pc[h] = "judging" /\ hand[h] = [pid |-> p, file |-> Whole(t)])

Owing(h) ==
  \A t \in owed[h] :
    /\ born[t].parent = h
    /\ holder[born[t].pid] = t => phase[born[t].pid] = "listening"
    /\ Findable(t) => Ahead(h, t)

\* The file of a pid that stays unused is ahead of the scan, in hand, or gone.
Clearing(h) ==
  \A p \in gone[h] :
    /\ ~Alive(p)
    /\ \/ files[p] = NoFile
       \/ p \in todo[h]
       \/ pc[h] \in {"judging", "removing"} /\ hand[h].pid = p

Served(h) ==
  pc[h] \in {"picked", "unmatched"} /\ (\E t \in owed[h] : Findable(t))
    => pc[h] = "picked" /\ born[chosen[h]].session = h

HookInv(h) ==
  /\ pc[h] = "idle" => owed[h] = {} /\ gone[h] = {}
  /\ pc[h] \in {"picked", "unmatched", "connected"} => todo[h] = {}
  /\ pc[h] \in {"picked", "connected"} => Fit(h, chosen[h])
  /\ pc[h] = "connected" => peer[h] = chosen[h]
  /\ Owing(h)
  /\ Clearing(h)
  /\ Served(h)

DInv ==
  /\ TypeOK
  /\ Bearings
  /\ \A h \in Hooks : HookInv(h)

LEMMA InitDInv == Init => DInv
<1>. SUFFICES ASSUME Init PROVE DInv
  OBVIOUS
<1>. USE DEF Init
<1>1. TypeOK
  BY DEF TypeOK, Tokens, Phases, Locations, Files, NoFile, Empty, Servers
<1>2. Bearings
  BY DEF Bearings, Tokens
<1>3. \A h \in Hooks : HookInv(h)
  BY DEF HookInv, Owing, Clearing, Served
<1>. QED  BY <1>1, <1>2, <1>3 DEF DInv

-----------------------------------------------------------------------------
(* Steps of the others *)

\* What a hook sees of itself.
Own(h) == <<pc[h], todo[h], hand[h], found[h], chosen[h], peer[h], owed[h]>>

\* A step that keeps what is known of servers, makes no server findable to h and
\* gives no unused pid a file.
Calm(h) ==
  /\ UNCHANGED Own(h)
  /\ gone'[h] \subseteq gone[h]
  /\ \A t \in Tokens : t \in Tokens' /\ born'[t] = born[t]
  /\ \A t \in owed[h] :
       /\ (holder[born[t].pid] = t)' => phase'[born[t].pid] = "listening"
       /\ Findable(t)' => Findable(t)
  /\ \A p \in gone'[h] :
       /\ ~Alive(p)'
       /\ files[p] = NoFile => files'[p] = NoFile

LEMMA Undisturbed ==
  ASSUME TypeOK, NEW h \in Hooks, HookInv(h), Calm(h)
  PROVE  HookInv(h)'
<1>. USE DEF Calm, Own
<1>1. owed[h] \subseteq Tokens /\ chosen[h] \in Tokens \cup {0}
  BY DEF TypeOK
<1>2. pc[h] \in {"picked", "connected"} => chosen[h] \in Tokens
  BY DEF TypeOK
<1>3. (pc[h] \in {"picked", "connected"} => Fit(h, chosen[h]))'
  BY <1>2 DEF HookInv, Fit, Kin
<1>4. Owing(h)'
  <2>. SUFFICES ASSUME NEW t \in owed[h]
                PROVE  /\ born'[t].parent = h
                       /\ (holder[born[t].pid] = t => phase[born[t].pid] = "listening")'
                       /\ Findable(t)' => Ahead(h, t)'
    BY DEF Owing
  <2>1. t \in Tokens /\ born'[t] = born[t]
    BY <1>1
  <2>2. Ahead(h, t) => Ahead(h, t)'
    BY <2>1 DEF Ahead
  <2>. QED  BY <2>1, <2>2 DEF HookInv, Owing
<1>5. Clearing(h)'
  BY DEF HookInv, Clearing
<1>6. Served(h)'
  <2>. SUFFICES ASSUME pc[h] \in {"picked", "unmatched"}, NEW t \in owed[h], Findable(t)'
                PROVE  pc[h] = "picked" /\ born'[chosen[h]].session = h
    BY DEF Served
  <2>1. pc[h] = "picked" /\ born[chosen[h]].session = h
    BY DEF HookInv, Served
  <2>. QED  BY <1>2, <2>1
<1>7. (pc[h] = "idle" => owed[h] = {} /\ gone[h] = {})'
  BY DEF HookInv
<1>. QED  BY <1>3, <1>4, <1>5, <1>6, <1>7 DEF HookInv

\* A step of the process with pid p does no more than this.
At(p) ==
  /\ \A q \in Pids \ {p} :
       /\ holder'[q] = holder[q] /\ phase'[q] = phase[q] /\ files'[q] = files[q]
       /\ q \in others' <=> q \in others
  /\ \A t \in Tokens : t \in Tokens' /\ born'[t] = born[t]
  /\ UNCHANGED <<pc, scan, chosen, peer, owed>>
  /\ \A h \in Hooks : gone'[h] \subseteq gone[h]
  /\ \A t \in Tokens : holder'[p] = t /\ phase[p] = "listening" =>
       holder[p] = t /\ phase'[p] = "listening" /\ files'[p] = files[p]
  /\ \A t \in Tokens : holder'[p] = t => holder[p] = t
  /\ \A h \in Hooks : p \in gone'[h] /\ ~Alive(p) =>
       ~Alive(p)' /\ files'[p] = files[p]

LEMMA ServerAt == ASSUME TypeOK, NEW t \in Tokens PROVE born[t] \in Servers
BY DEF TypeOK, Tokens

LEMMA AtIsCalm ==
  ASSUME TypeOK, NEW h \in Hooks, HookInv(h), NEW p \in Pids, At(p)
  PROVE  Calm(h)
<1>. USE DEF At
<1>1. UNCHANGED Own(h)
  BY DEF Own, scan
<1>2. ASSUME NEW t \in owed[h]
      PROVE  /\ (holder[born[t].pid] = t)' => phase'[born[t].pid] = "listening"
             /\ Findable(t)' => Findable(t)
  <2>0. t \in Tokens
    BY DEF TypeOK
  <2>1. born'[t] = born[t] /\ born[t].pid \in Pids
    BY <2>0, ServerAt DEF Servers
  <2>2. holder[born[t].pid] = t => phase[born[t].pid] = "listening"
    BY DEF HookInv, Owing
  <2>3. CASE born[t].pid = p
    BY <2>0, <2>1, <2>2, <2>3 DEF Findable
  <2>4. CASE born[t].pid # p
    BY <2>0, <2>1, <2>2, <2>4 DEF Findable
  <2>. QED  BY <2>3, <2>4
<1>3. ASSUME NEW q \in gone'[h]
      PROVE  ~Alive(q)' /\ (files[q] = NoFile => files'[q] = NoFile)
  <2>1. q \in gone[h] /\ q \in Pids /\ ~Alive(q)
    BY DEF TypeOK, HookInv, Clearing
  <2>. QED  BY <2>1 DEF Alive
<1>. QED  BY <1>1, <1>2, <1>3 DEF Calm, Findable, Alive

LEMMA ProcessStep ==
  ASSUME TypeOK, Bearings, NEW p \in Pids, Process(p)
  PROVE  TypeOK' /\ Bearings' /\ At(p)
<1>. USE DEF At, scan, Alive
<1>0. /\ DOMAIN born = 1..Len(born) /\ Len(born) \in Nat
      /\ 0 \notin Tokens
  BY DEF TypeOK, Tokens
<1>1. ASSUME NEW s \in Sessions, NEW parent \in Parents(s), NEW sid \in Ids(s),
             StartServer(p, s, parent, sid)
      PROVE  TypeOK' /\ Bearings' /\ At(p)
  <2>. DEFINE new == [pid |-> p, session |-> s, parent |-> parent, sid |-> sid]
  <2>1. new \in Servers /\ parent \in {s, Nobody} /\ sid \in {s, Nobody}
    BY DEF Servers, Parents, Ids
  <2>2. /\ born' \in Seq(Servers)
        /\ Tokens' = Tokens \cup {Len(born) + 1}
        /\ Len(born) + 1 \notin Tokens
        /\ \A t \in Tokens : born'[t] = born[t]
        /\ born'[Len(born) + 1] = new
    BY <1>0, <1>1, <2>1 DEF StartServer, TypeOK, Tokens
  <2>3. TypeOK'
    <3>1. /\ holder' \in [Pids -> Tokens' \cup {0}]
          /\ phase' \in [Pids -> Phases]
          /\ gone' \in [Hooks -> SUBSET Pids]
      BY <1>1, <2>2 DEF StartServer, TypeOK, Phases, InUse
    <3>2. /\ files' \in [Pids -> Files']
          /\ hand' \in [Hooks -> [pid : Pids \cup {Nobody}, file : Files']]
      <4>1. Files \subseteq Files'
        BY <2>2 DEF Files, NoFile
      <4>. QED  BY <1>1, <4>1 DEF StartServer, TypeOK
    <3>3. /\ found' \in [Hooks -> SUBSET (Tokens')]
          /\ owed' \in [Hooks -> SUBSET (Tokens')]
          /\ chosen' \in [Hooks -> Tokens' \cup {0}]
          /\ peer' \in [Hooks -> Tokens' \cup {0}]
      BY <1>1, <2>2 DEF StartServer, TypeOK
    <3>. QED  BY <1>1, <2>2, <3>1, <3>2, <3>3 DEF StartServer, TypeOK
  <2>4. Bearings'
    <3>1. \A q \in Pids : holder'[q] = 0 => phase'[q] = "none"
      BY <1>0, <1>1 DEF Bearings, StartServer, TypeOK
    <3>. QED  BY <2>1, <2>2, <3>1 DEF Bearings
  <2>5. At(p)
    BY <1>0, <1>1, <2>2 DEF StartServer, TypeOK, InUse
  <2>. QED  BY <2>3, <2>4, <2>5
<1>2. CASE OtherStarts(p)
  BY <1>0, <1>2 DEF OtherStarts, InUse, TypeOK, Tokens, Bearings, Files
<1>3. CASE OtherEnds(p)
  BY <1>0, <1>3 DEF OtherEnds, ghosts, TypeOK, Tokens, Bearings, Files
<1>4. CASE Exit(p)
  <2>. USE <1>4 DEF Exit, Ends, ghosts
  <2>1. TypeOK' /\ Bearings'
    BY <1>0 DEF TypeOK, Tokens, Bearings, Phases, Files, NoFile
  <2>. QED  BY <1>0, <2>1 DEF TypeOK, Tokens, Bearings
<1>5. CASE Kill(p)
  <2>. USE <1>5 DEF Kill, Ends, ghosts
  <2>1. TypeOK' /\ Bearings'
    BY <1>0 DEF TypeOK, Tokens, Bearings, Phases, Files
  <2>. QED  BY <1>0, <2>1 DEF TypeOK, Tokens, Bearings
<1>6. CASE OpenFile(p)
  <2>. USE <1>6 DEF OpenFile, ghosts
  <2>1. TypeOK' /\ Bearings'
    BY <1>0 DEF TypeOK, Tokens, Bearings, Phases, Files
  <2>. QED  BY <1>0, <2>1 DEF TypeOK, Tokens, Bearings
<1>7. CASE FinishFile(p)
  <2>. USE <1>7 DEF FinishFile, ghosts
  <2>1. TypeOK' /\ Bearings'
    BY <1>0 DEF TypeOK, Tokens, Bearings, Phases, Files, NoFile, Whole
  <2>. QED  BY <1>0, <2>1 DEF TypeOK, Tokens, Bearings
<1>8. CASE WriteFails(p)
  <2>. USE <1>8 DEF WriteFails, ghosts
  <2>1. TypeOK' /\ Bearings'
    BY <1>0 DEF TypeOK, Tokens, Bearings, Phases, Files
  <2>. QED  BY <1>0, <2>1 DEF TypeOK, Tokens, Bearings
<1>9. CASE Claim(p)
  <2>. USE <1>9 DEF Claim, ghosts
  <2>1. TypeOK' /\ Bearings'
    BY <1>0 DEF TypeOK, Tokens, Bearings, Phases, Files
  <2>. QED  BY <1>0, <2>1 DEF TypeOK, Tokens, Bearings
<1>10. CASE ClaimFails(p)
  <2>. USE <1>10 DEF ClaimFails, ghosts
  <2>1. TypeOK' /\ Bearings'
    BY <1>0 DEF TypeOK, Tokens, Bearings, Phases, Files, NoFile
  <2>. QED  BY <1>0, <2>1 DEF TypeOK, Tokens, Bearings
<1>. QED  BY <1>1, <1>2, <1>3, <1>4, <1>5, <1>6, <1>7, <1>8, <1>9, <1>10 DEF Process

-----------------------------------------------------------------------------
(* What pick_record returns *)

LEMMA InitialSegmentFinite ==
  ASSUME NEW n \in Nat
  PROVE  IsFiniteSet(1..n)
<1>1. 1 \in Int /\ n \in Int
  OBVIOUS
<1>. QED  BY <1>1, FS_Interval

LEMMA PickIsFit ==
  ASSUME TypeOK, Bearings, NEW h \in Hooks, NEW known \in BOOLEAN,
         NEW t \in Candidates(h, known)
  PROVE  t \in found[h] /\ Fit(h, t)
<1>1. found[h] \in SUBSET Tokens /\ h \in Sessions
  BY SubsetsAssumption DEF TypeOK
<1>2. Chain[h] \in Seq(Sessions) /\ Chain[h] # <<>> /\ Chain[h][1] = h
  BY <1>1, ChainAssumption
<1>3. h \in Kin(h) /\ Kin(h) \subseteq Sessions
  BY <1>2 DEF Kin
<1>4. CASE t \in SameSession(h)
  BY <1>1, <1>3, <1>4, NobodyAssumption DEF SameSession, Fit, Bearings
<1>5. CASE t \in NearestKin(h)
  <2>1. PICK i : t \in ChildrenOf(h, i) /\ i \in DOMAIN Chain[h]
    BY <1>5 DEF NearestKin
  <2>2. t \in found[h] /\ born[t].parent \in Kin(h)
    BY <2>1 DEF ChildrenOf, Kin
  <2>. QED  BY <1>1, <1>3, <2>2, NobodyAssumption DEF Fit, Bearings
<1>6. CASE t \in LastResort(h)
  <2>1. Cardinality(found[h]) = 1 /\ t \in found[h]
    BY <1>6 DEF LastResort
  <2>2. IsFiniteSet(found[h])
    <3>1. Len(born) \in Nat /\ Tokens = 1..Len(born)
      BY DEF TypeOK, Tokens
    <3>2. IsFiniteSet(1..Len(born))
      BY <3>1, InitialSegmentFinite
    <3>. QED  BY <1>1, <3>1, <3>2, FS_Subset
  <2>3. \E x : found[h] = {x}
    BY <2>1, <2>2, FS_Singleton
  <2>. QED  BY <2>1, <2>3 DEF Fit
<1>. QED  BY <1>4, <1>5, <1>6 DEF Candidates

LEMMA PickIsOwn ==
  ASSUME TypeOK, Bearings, NEW h \in Hooks, NEW known \in BOOLEAN,
         NEW o \in found[h], born[o].parent = h
  PROVE  /\ Candidates(h, known) # {}
         /\ \A t \in Candidates(h, known) : born[t].session = h
<1>1. found[h] \in SUBSET Tokens /\ h \in Sessions /\ h # Nobody
  BY SubsetsAssumption, NobodyAssumption DEF TypeOK
<1>2. Chain[h] \in Seq(Sessions) /\ Chain[h] # <<>> /\ Chain[h][1] = h
  BY <1>1, ChainAssumption
<1>3. 1 \in DOMAIN Chain[h] /\ o \in ChildrenOf(h, 1)
  BY <1>2 DEF ChildrenOf
<1>4. ASSUME NEW i \in DOMAIN Chain[h], i # 1 PROVE 1 \in 1..(i - 1)
  BY <1>2, <1>4
<1>5. NearestKin(h) = ChildrenOf(h, 1) /\ NearestKin(h) # {}
  BY <1>2, <1>3, <1>4 DEF NearestKin
<1>6. \A t \in ChildrenOf(h, 1) : born[t].session = h
  BY <1>1, <1>2 DEF ChildrenOf, Bearings
<1>7. \A t \in SameSession(h) : born[t].session = h
  BY <1>1 DEF SameSession, Bearings
<1>. QED  BY <1>5, <1>6, <1>7 DEF Candidates

-----------------------------------------------------------------------------
(* Steps of a hook *)

\* A step of h's hook does no more than this.
Aside(h) ==
  /\ UNCHANGED servers
  /\ \A p \in Pids : files'[p] \in {files[p], NoFile}
  /\ \A k \in Hooks \ {h} : UNCHANGED Own(k) /\ gone'[k] = gone[k]

LEMMA AsideIsCalm ==
  ASSUME TypeOK, NEW h \in Hooks, Aside(h), NEW k \in Hooks \ {h}, HookInv(k)
  PROVE  Calm(k)
<1>. USE DEF Aside, servers
<1>1. ASSUME NEW t \in owed[k]
      PROVE  /\ (holder[born[t].pid] = t)' => phase'[born[t].pid] = "listening"
             /\ Findable(t)' => Findable(t)
  <2>1. t \in Tokens
    BY DEF TypeOK
  <2>2. born'[t] = born[t] /\ born[t].pid \in Pids
    BY <2>1, ServerAt DEF Servers
  <2>3. files'[born[t].pid] = Whole(t) => files[born[t].pid] = Whole(t)
    BY <2>2 DEF Whole, NoFile
  <2>4. holder[born[t].pid] = t => phase[born[t].pid] = "listening"
    BY DEF HookInv, Owing
  <2>. QED  BY <2>2, <2>3, <2>4 DEF Findable
<1>2. ASSUME NEW p \in gone'[k]
      PROVE  ~Alive(p)' /\ (files[p] = NoFile => files'[p] = NoFile)
  <2>1. p \in gone[k] /\ p \in Pids /\ ~Alive(p)
    BY DEF TypeOK, HookInv, Clearing
  <2>. QED  BY <2>1 DEF Alive
<1>. QED  BY <1>1, <1>2 DEF Calm, Tokens, Findable, Alive

\* What is owed to a hook that has read everything is in what it found.
LEMMA AllRead ==
  ASSUME NEW h \in Hooks, HookInv(h), pc[h] = "scanning", todo[h] = {},
         NEW t \in owed[h], Findable(t)
  PROVE  t \in found[h] /\ born[t].parent = h
BY DEF HookInv, Owing, Ahead

LEMMA HookStep ==
  ASSUME TypeOK, Bearings, NEW h \in Hooks, HookInv(h), Hook(h)
  PROVE  TypeOK' /\ HookInv(h)' /\ Aside(h)
<1>0. \A t \in Tokens : born[t].pid \in Pids /\ t # 0
  BY ServerAt DEF Servers, TypeOK, Tokens
<1>00. owed[h] \subseteq Tokens /\ gone[h] \subseteq Pids /\ found[h] \subseteq Tokens
  BY DEF TypeOK
<1>. USE DEF servers, ghosts, scan, Aside, Own
<1>1. CASE Begin(h)
  <2>. USE <1>1 DEF Begin
  <2>1. TypeOK'
    BY DEF TypeOK, Tokens, Locations, Files
  <2>2. Owing(h)'
    <3>. SUFFICES ASSUME NEW t \in owed'[h]
                  PROVE  /\ born[t].parent = h
                         /\ holder[born[t].pid] = t => phase[born[t].pid] = "listening"
                         /\ Findable(t)' => Ahead(h, t)'
      BY DEF Owing
    <3>1. t \in Tokens /\ born[t].pid \in Pids /\ t # 0
      BY <1>0, <1>00 DEF TypeOK
    <3>. QED  BY <3>1 DEF TypeOK, Findable, Ahead, Whole, NoFile
  <2>3. Clearing(h)'
    BY DEF TypeOK, Clearing, Alive
  <2>. QED  BY <2>1, <2>2, <2>3 DEF TypeOK, HookInv, Served
<1>2. ASSUME NEW p \in Pids, ReadEntry(h, p)
      PROVE  TypeOK' /\ HookInv(h)' /\ Aside(h)
  <2>. USE <1>2 DEF ReadEntry
  <2>1. TypeOK'
    <3>1. pc' \in [Hooks -> Locations] /\ todo' \in [Hooks -> SUBSET Pids]
      BY DEF TypeOK, Locations
    <3>2. hand' \in [Hooks -> [pid : Pids \cup {Nobody}, file : Files]]
      BY DEF TypeOK
    <3>3. \A k \in Hooks : pc'[k] \in {"judging", "removing"} => hand'[k].pid \in Pids
      BY DEF TypeOK
    <3>. QED  BY <3>1, <3>2, <3>3 DEF TypeOK, Tokens, Files
  <2>2. Owing(h)'
    <3>. SUFFICES ASSUME NEW t \in owed'[h]
                  PROVE  /\ born[t].parent = h
                         /\ holder[born[t].pid] = t => phase[born[t].pid] = "listening"
                         /\ Findable(t)' => Ahead(h, t)'
      BY DEF Owing
    <3>1. t \in Tokens /\ born[t].pid \in Pids /\ t # 0
      BY <1>0, <1>00 DEF TypeOK
    <3>2. todo'[h] = todo[h] \ {p} /\ t \in owed[h]
      BY DEF TypeOK
    <3>3. /\ born[t].parent = h
          /\ holder[born[t].pid] = t => phase[born[t].pid] = "listening"
          /\ Findable(t) => born[t].pid \in todo[h] \/ t \in found[h]
      BY <3>2 DEF HookInv, Owing, Ahead
    <3>4. Findable(t) /\ born[t].pid = p =>
            pc'[h] = "judging" /\ hand'[h] = [pid |-> p, file |-> Whole(t)]
      BY <3>1 DEF TypeOK, Findable, Whole, NoFile
    <3>. QED  BY <3>2, <3>3, <3>4 DEF Findable, Ahead
  <2>3. Clearing(h)'
    BY DEF TypeOK, HookInv, Clearing, Alive
  <2>. QED  BY <2>1, <2>2, <2>3 DEF TypeOK, HookInv, Served
<1>3. CASE Keep(h)
  <2>. USE <1>3 DEF Keep
  <2>1. TypeOK'
    <3>1. hand[h].file.token \in Tokens
      BY DEF TypeOK, Files, NoFile
    <3>. QED  BY <3>1 DEF TypeOK, Tokens, Locations, Empty, Files
  <2>2. Owing(h)'
    <3>. SUFFICES ASSUME NEW t \in owed'[h]
                  PROVE  /\ born[t].parent = h
                         /\ holder[born[t].pid] = t => phase[born[t].pid] = "listening"
                         /\ Findable(t)' => Ahead(h, t)'
      BY DEF Owing
    <3>1. t \in Tokens /\ born[t].pid \in Pids /\ t # 0
      BY <1>0, <1>00 DEF TypeOK
    <3>. QED  BY <3>1 DEF TypeOK, HookInv, Owing, Findable, Ahead, Whole
  <2>3. Clearing(h)'
    BY DEF TypeOK, HookInv, Clearing, Alive
  <2>. QED  BY <2>1, <2>2, <2>3 DEF TypeOK, HookInv, Served
<1>4. CASE Discard(h)
  <2>. USE <1>4 DEF Discard
  <2>1. TypeOK'
    BY DEF TypeOK, Tokens, Locations, Files
  <2>2. Owing(h)'
    <3>. SUFFICES ASSUME NEW t \in owed'[h]
                  PROVE  /\ born[t].parent = h
                         /\ holder[born[t].pid] = t => phase[born[t].pid] = "listening"
                         /\ Findable(t)' => Ahead(h, t)'
      BY DEF Owing
    <3>1. t \in Tokens /\ born[t].pid \in Pids /\ t # 0
      BY <1>0, <1>00 DEF TypeOK
    <3>. QED  BY <3>1 DEF TypeOK, HookInv, Owing, Findable, Ahead, Whole, Alive
  <2>3. Clearing(h)'
    BY DEF TypeOK, HookInv, Clearing, Alive
  <2>. QED  BY <2>1, <2>2, <2>3 DEF TypeOK, HookInv, Served
<1>5. CASE Remove(h)
  <2>. USE <1>5 DEF Remove
  <2>0. hand[h].pid \in Pids
    BY DEF TypeOK
  <2>1. TypeOK'
    BY <2>0 DEF TypeOK, Tokens, Locations, Empty, Files, NoFile
  <2>2. Owing(h)'
    BY <1>0, <1>00 DEF TypeOK, HookInv, Owing, Findable, Ahead, Whole, NoFile
  <2>3. Clearing(h)'
    BY <1>00 DEF TypeOK, HookInv, Clearing, Alive
  <2>. QED  BY <2>1, <2>2, <2>3 DEF TypeOK, HookInv, Served
<1>6. ASSUME NEW known \in BOOLEAN, NEW t \in Candidates(h, known), Pick(h),
             chosen' = [chosen EXCEPT ![h] = t]
      PROVE  TypeOK' /\ HookInv(h)' /\ Aside(h)
  <2>. USE <1>6 DEF Pick
  <2>1. t \in found[h] /\ Fit(h, t) /\ t \in Tokens
    BY <1>00, PickIsFit
  <2>2. TypeOK'
    BY <2>1 DEF TypeOK, Tokens, Locations, Files
  <2>3. Owing(h)' /\ Clearing(h)'
    BY <1>0, <1>00 DEF TypeOK, HookInv, Owing, Clearing, Findable, Ahead, Alive
  <2>4. Served(h)'
    <3>1. ASSUME NEW o \in owed[h], Findable(o) PROVE born[t].session = h
      BY <3>1, AllRead, PickIsOwn
    <3>. QED  BY <3>1, <2>1 DEF TypeOK, Served, Findable
  <2>5. Fit(h, t)'
    BY <2>1 DEF Fit, Kin
  <2>. QED  BY <2>1, <2>2, <2>3, <2>4, <2>5 DEF TypeOK, HookInv, Fit, Kin
<1>7. CASE NoMatch(h)
  <2>. USE <1>7 DEF NoMatch
  <2>1. TypeOK'
    BY DEF TypeOK, Tokens, Locations, Files
  <2>2. Owing(h)' /\ Clearing(h)'
    BY <1>0, <1>00 DEF TypeOK, HookInv, Owing, Clearing, Findable, Ahead, Alive
  <2>3. Served(h)'
    <3>1. ASSUME NEW o \in owed[h], Findable(o) PROVE FALSE
      BY <3>1, AllRead, PickIsOwn
    <3>. QED  BY <3>1 DEF Served, Findable
  <2>. QED  BY <2>1, <2>2, <2>3 DEF TypeOK, HookInv
<1>8. CASE Connect(h)
  <2>. USE <1>8 DEF Connect, Authenticates
  <2>0. chosen[h] \in Tokens
    BY <1>00 DEF TypeOK
  <2>1. TypeOK'
    BY <2>0 DEF TypeOK, Tokens, Locations, Files
  <2>2. Owing(h)' /\ Clearing(h)'
    BY <1>0, <1>00 DEF TypeOK, HookInv, Owing, Clearing, Findable, Ahead, Alive
  <2>3. (Fit(h, chosen[h]))'
    BY DEF HookInv, Fit, Kin
  <2>. QED  BY <2>1, <2>2, <2>3 DEF TypeOK, HookInv, Served
<1>9. CASE Leave(h)
  <2>. USE <1>9 DEF Leave
  <2>1. TypeOK'
    BY DEF TypeOK, Tokens, Locations, Empty, Files, NoFile
  <2>2. Owing(h)' /\ Clearing(h)'
    BY DEF TypeOK, Owing, Clearing
  <2>. QED  BY <2>1, <2>2 DEF TypeOK, HookInv, Served
<1>10. CASE Pick(h)
  <2>1. PICK known \in BOOLEAN : \E t \in Candidates(h, known) :
          chosen' = [chosen EXCEPT ![h] = t]
    BY <1>10 DEF Pick
  <2>. QED  BY <1>10, <2>1, <1>6
<1>. QED  BY <1>1, <1>2, <1>3, <1>4, <1>5, <1>7, <1>8, <1>9, <1>10 DEF Hook

-----------------------------------------------------------------------------
LEMMA NextDInv == DInv /\ [Next]_vars => DInv'
<1>. SUFFICES ASSUME DInv, [Next]_vars PROVE DInv'
  OBVIOUS
<1>1. TypeOK /\ Bearings /\ \A h \in Hooks : HookInv(h)
  BY DEF DInv
<1>2. ASSUME NEW p \in Pids, Process(p) PROVE DInv'
  <2>1. TypeOK' /\ Bearings' /\ At(p)
    BY <1>1, <1>2, ProcessStep
  <2>2. \A h \in Hooks : HookInv(h)'
    BY <1>1, <2>1, AtIsCalm, Undisturbed
  <2>. QED  BY <2>1, <2>2 DEF DInv
<1>3. ASSUME NEW h \in Hooks, Hook(h) PROVE DInv'
  <2>1. TypeOK' /\ HookInv(h)' /\ Aside(h)
    BY <1>1, <1>3, HookStep
  <2>2. Bearings'
    BY <1>1, <2>1 DEF Bearings, Aside, servers, Tokens
  <2>3. \A k \in Hooks \ {h} : HookInv(k)'
    BY <1>1, <2>1, AsideIsCalm, Undisturbed
  <2>. QED  BY <2>1, <2>2, <2>3 DEF DInv
<1>4. CASE UNCHANGED vars
  <2>. USE <1>4 DEF vars, servers, scan, ghosts
  <2>1. TypeOK' /\ Bearings'
    BY <1>1 DEF TypeOK, Bearings, Tokens, Files, Servers
  <2>2. ASSUME NEW h \in Hooks PROVE HookInv(h)'
    BY <1>1 DEF HookInv, Fit, Owing, Clearing, Served, Findable, Ahead, Alive, Kin
  <2>. QED  BY <2>1, <2>2 DEF DInv
<1>. QED  BY <1>2, <1>3, <1>4 DEF Next

\* What each hook knows holds in every reachable state.
THEOREM Safety == Spec => []DInv
<1>. QED  BY InitDInv, NextDInv, PTL DEF Spec

\* Every variable has its type: a found or chosen record is one some server wrote.
THEOREM TypeCorrect == Spec => []TypeOK
<1>1. DInv => TypeOK
  BY DEF DInv
<1>. QED  BY Safety, <1>1, PTL

\* A hook connects to a server of its session or of one around it, or the record
\* of that server is the only one it found, however pids are used again.
THEOREM NoStrangers == Spec => []StrangersOnlyAlone
<1>1. DInv => StrangersOnlyAlone
  BY DEF DInv, HookInv, Fit, StrangersOnlyAlone
<1>. QED  BY Safety, <1>1, PTL

\* A hook picks its own session's server when that has published a whole record
\* before the scan and still has it.
THEOREM OwnFound == Spec => []OwnServerFound
<1>1. DInv => OwnServerFound
  BY DEF DInv, HookInv, Served, OwnServerFound
<1>. QED  BY Safety, <1>1, PTL

\* A scan leaves no file of a process that was gone throughout.
THEOREM StaleRemoved == Spec => []StaleIsGone
<1>1. DInv => StaleIsGone
  BY DEF DInv, HookInv, Clearing, StaleIsGone
<1>. QED  BY Safety, <1>1, PTL
=============================================================================
