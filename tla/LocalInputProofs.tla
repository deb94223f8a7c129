-------------------------- MODULE LocalInputProofs --------------------------
(***************************************************************************)
(* Proofs about the hook's watcher of local input, for any pids, hops and  *)
(* processes: what the walk up the parents returns, and that only a window *)
(* of the hook's own application releases it.                              *)
(***************************************************************************)
EXTENDS LocalInput, FiniteSetTheorems, WellFoundedInduction, TLAPS

-----------------------------------------------------------------------------
(* Least elements and induction with a set, since the induction theorems of  *)
(* the library take an operator as a parameter.                              *)

LEMMA LeastExists ==
  ASSUME NEW S \in SUBSET Nat, S # {}, IsFiniteSet(S)
  PROVE  \E x \in S : \A i \in S : x <= i
<1>1. PICK T : T = {{y \in S : y <= x} : x \in S}
  OBVIOUS
<1>2. T \subseteq FiniteSubsetsOf(S) /\ T # {}
  <2>1. \A x \in S : IsFiniteSet({y \in S : y <= x})
    BY FS_Subset
  <2>. QED  BY <1>1, <2>1 DEF FiniteSubsetsOf
<1>3. PICK A \in T : \A B \in T : ~ (<<B, A>> \in StrictSubsetOrdering(S))
  BY <1>2, FS_StrictSubsetOrderingWellFounded, WFMin
<1>4. PICK x \in S : A = {y \in S : y <= x}
  BY <1>1, <1>3
<1>5. \A z \in S : x <= z
  <2>. SUFFICES ASSUME NEW z \in S, ~ (x <= z)
                PROVE  FALSE
    OBVIOUS
  <2>1. PICK B : B = {y \in S : y <= z}
    OBVIOUS
  <2>2. B \in T
    BY <1>1, <2>1
  <2>3. x \in A /\ x \notin B
    BY <1>4, <2>1
  <2>4. ASSUME NEW y \in B PROVE y \in A
    <3>1. y \in S /\ y <= z
      BY <2>1
    <3>2. y \in Nat /\ x \in Nat /\ z \in Nat
      BY <3>1
    <3>3. y <= x
      BY <3>1, <3>2
    <3>. QED  BY <3>1, <3>3, <1>4
  <2>5. A \in SUBSET S /\ B \in SUBSET S
    BY <1>4, <2>1
  <2>6. <<B, A>> \in StrictSubsetOrdering(S)
    BY <2>3, <2>4, <2>5 DEF StrictSubsetOrdering
  <2>. QED  BY <2>2, <2>6, <1>3
<1>. QED  BY <1>5

\* Min is the least element of a set of positions in a sequence.
LEMMA MinIsLeast ==
  ASSUME NEW n \in Nat, NEW S \in SUBSET (1..n), S # {}
  PROVE  Min(S) \in S /\ \A i \in S : Min(S) <= i
<1>1. IsFiniteSet(S)
  <2>1. IsFiniteSet(1..n)
    BY FS_Interval
  <2>. QED  BY <2>1, FS_Subset
<1>2. S \in SUBSET Nat
  OBVIOUS
<1>3. \E x \in S : \A i \in S : x <= i
  BY <1>1, <1>2, LeastExists
<1>. QED  BY <1>3 DEF Min

LEMMA Induction ==
  ASSUME NEW S \in SUBSET Nat, 0 \in S, \A n \in S : n + 1 \in S
  PROVE  \A n \in Nat : n \in S
<1>. SUFFICES ASSUME NEW m \in Nat, m \notin S
              PROVE  FALSE
  OBVIOUS
<1>1. PICK D : D = {k \in 0..m : k \notin S}
  OBVIOUS
<1>2. D \in SUBSET Nat /\ D # {} /\ IsFiniteSet(D)
  <2>1. IsFiniteSet(0..m)
    BY FS_Interval
  <2>2. D \in SUBSET (0..m) /\ m \in D
    BY <1>1
  <2>3. D \in SUBSET Nat /\ D # {}
    BY <2>2
  <2>4. IsFiniteSet(D)
    BY <2>1, <2>2, FS_Subset
  <2>. QED  BY <2>3, <2>4
<1>3. PICK x \in D : \A i \in D : x <= i
  BY <1>2, LeastExists
<1>4. x \in 0..m /\ x \notin S /\ x # 0
  BY <1>1, <1>3
<1>5. x - 1 \in 0..m /\ ~ (x <= x - 1)
  BY <1>4
<1>6. x - 1 \in S
  BY <1>1, <1>3, <1>5
<1>7. (x - 1) + 1 = x
  BY <1>4
<1>. QED  BY <1>4, <1>6, <1>7

-----------------------------------------------------------------------------
(* The walk up the parents                                                   *)

\* What ancestry_in keeps up from hop to hop.
IsChain(snap, p, chain) ==
  /\ chain \in Seq({p} \cup {snap[q].parent : q \in DOMAIN snap})
  /\ Len(chain) >= 1 /\ chain[1] = p
  /\ \A i \in 1..(Len(chain) - 1) :
       /\ chain[i] \in DOMAIN snap
       /\ chain[i + 1] = snap[chain[i]].parent /\ chain[i + 1] # NoPid

LEMMA HopKeepsChain ==
  ASSUME NEW snap, NEW p, NEW chain, IsChain(snap, p, chain)
  PROVE  /\ IsChain(snap, p, Hop(snap, chain))
         /\ \/ Hop(snap, chain) = chain
            \/ Len(Hop(snap, chain)) = Len(chain) + 1
<1>1. PICK U : U = {p} \cup {snap[q].parent : q \in DOMAIN snap}
  OBVIOUS
<1>2. chain \in Seq(U) /\ Len(chain) \in Nat \ {0} /\ chain[1] = p
  BY <1>1 DEF IsChain
<1>3. CASE Hop(snap, chain) = chain
  BY <1>3
<1>4. CASE Hop(snap, chain) # chain
  <2>1. PICK cur : cur = chain[Len(chain)]
    OBVIOUS
  <2>2. /\ cur \in DOMAIN snap /\ snap[cur].parent # NoPid
        /\ Hop(snap, chain) = Append(chain, snap[cur].parent)
    BY <1>4, <2>1 DEF Hop, Last
  <2>3. PICK longer : longer = Append(chain, snap[cur].parent)
    OBVIOUS
  <2>4. snap[cur].parent \in U
    BY <1>1, <2>2
  <2>5. /\ longer \in Seq(U) /\ Len(longer) = Len(chain) + 1
        /\ \A i \in 1..Len(chain) : longer[i] = chain[i]
        /\ longer[Len(chain) + 1] = snap[cur].parent
    BY <1>2, <2>3, <2>4
  <2>6. ASSUME NEW i \in 1..(Len(longer) - 1)
        PROVE  /\ longer[i] \in DOMAIN snap
               /\ longer[i + 1] = snap[longer[i]].parent /\ longer[i + 1] # NoPid
    <3>1. CASE i = Len(chain)
      BY <1>2, <2>1, <2>2, <2>5, <3>1
    <3>2. CASE i # Len(chain)
      <4>1. i \in 1..(Len(chain) - 1) /\ i + 1 \in 1..Len(chain) /\ i \in 1..Len(chain)
        BY <1>2, <2>5, <3>2
      <4>. QED  BY <2>5, <4>1 DEF IsChain
    <3>. QED  BY <3>1, <3>2
  <2>7. longer[1] = p /\ Len(longer) >= 1
    BY <1>2, <2>5
  <2>8. IsChain(snap, p, longer)
    BY <1>1, <2>5, <2>6, <2>7 DEF IsChain
  <2>. QED  BY <2>2, <2>3, <2>5, <2>8
<1>. QED  BY <1>3, <1>4

\* The function of the hops, which Ancestry defines by recursion, exists.
IsWalk(snap, p, m, f) ==
  f = [n \in 0..m |-> IF n = 0 THEN <<p>> ELSE Hop(snap, f[n - 1])]

LEMMA WalkExists ==
  ASSUME NEW snap, NEW p, NEW m \in Nat
  PROVE  \E f : IsWalk(snap, p, m, f)
<1>1. PICK S : S = {k \in Nat : \E f : IsWalk(snap, p, k, f)}
  OBVIOUS
<1>2. 0 \in S
  <2>1. PICK f : f = [n \in 0..0 |-> <<p>>]
    OBVIOUS
  <2>2. f = [n \in 0..0 |-> IF n = 0 THEN <<p>> ELSE Hop(snap, f[n - 1])]
    BY <2>1
  <2>3. IsWalk(snap, p, 0, f)
    BY <2>2 DEF IsWalk
  <2>. QED  BY <1>1, <2>3
<1>3. ASSUME NEW k \in S PROVE k + 1 \in S
  <2>1. PICK f : IsWalk(snap, p, k, f)
    BY <1>1
  <2>2. k \in Nat
    BY <1>1
  <2>3. PICK g : g = [n \in 0..(k + 1) |-> IF n = k + 1 THEN Hop(snap, f[k]) ELSE f[n]]
    OBVIOUS
  <2>4. ASSUME NEW n \in 0..(k + 1)
        PROVE  g[n] = IF n = 0 THEN <<p>> ELSE Hop(snap, g[n - 1])
    <3>1. CASE n = k + 1
      <4>1. n # 0 /\ n - 1 = k /\ k \in 0..(k + 1) /\ k # k + 1
        BY <2>2, <3>1
      <4>. QED  BY <2>3, <3>1, <4>1
    <3>2. CASE n # k + 1
      <4>1. n \in 0..k
        BY <2>2, <3>2
      <4>2. g[n] = f[n]
        BY <2>3, <3>2
      <4>3. CASE n = 0
        BY <2>1, <4>1, <4>2, <4>3 DEF IsWalk
      <4>4. CASE n # 0
        <5>1. n - 1 \in 0..(k + 1) /\ n - 1 # k + 1
          BY <2>2, <4>1, <4>4
        <5>2. g[n - 1] = f[n - 1]
          BY <2>3, <5>1
        <5>3. f[n] = Hop(snap, f[n - 1])
          BY <2>1, <4>1, <4>4 DEF IsWalk
        <5>. QED  BY <4>2, <4>4, <5>2, <5>3
      <4>. QED  BY <4>3, <4>4
    <3>. QED  BY <3>1, <3>2
  <2>5. g = [n \in 0..(k + 1) |-> IF n = 0 THEN <<p>> ELSE Hop(snap, g[n - 1])]
    BY <2>3, <2>4
  <2>6. IsWalk(snap, p, k + 1, g)
    BY <2>5 DEF IsWalk
  <2>. QED  BY <1>1, <2>2, <2>6
<1>4. S \in SUBSET Nat
  BY <1>1
<1>5. m \in S
  BY <1>2, <1>3, <1>4, Induction
<1>. QED  BY <1>1, <1>5

LEMMA AncestryIsWalk ==
  ASSUME NEW snap, NEW p
  PROVE  \E f : IsWalk(snap, p, MaxHops, f) /\ Ancestry(snap, p) = f[MaxHops]
<1>1. \E f : IsWalk(snap, p, MaxHops, f)
  BY WalkExists, HopsAssumption
<1>. QED  BY <1>1 DEF Ancestry, IsWalk

\* ancestry_in returns a chain, which ends where there is no hop to a new process.
LEMMA AncestryIsChain ==
  ASSUME NEW snap, NEW p
  PROVE  LET chain == Ancestry(snap, p) IN
         /\ IsChain(snap, p, chain)
         /\ Len(chain) <= MaxHops => Hop(snap, chain) = chain
<1>1. PICK f : IsWalk(snap, p, MaxHops, f) /\ Ancestry(snap, p) = f[MaxHops]
  BY AncestryIsWalk
<1>2. PICK S : S = {n \in Nat : n <= MaxHops =>
                      /\ IsChain(snap, p, f[n])
                      /\ Len(f[n]) <= n => Hop(snap, f[n]) = f[n]}
  OBVIOUS
<1>3. 0 \in S
  <2>1. f[0] = <<p>>
    BY <1>1, HopsAssumption DEF IsWalk
  <2>2. PICK U : U = {p} \cup {snap[q].parent : q \in DOMAIN snap}
    OBVIOUS
  <2>3. <<p>> \in Seq(U) /\ Len(<<p>>) = 1 /\ <<p>>[1] = p /\ 1..(1 - 1) = {}
    BY <2>2
  <2>4. IsChain(snap, p, f[0])
    BY <2>1, <2>2, <2>3 DEF IsChain
  <2>5. ~ (Len(f[0]) <= 0)
    BY <2>1, <2>3
  <2>. QED  BY <1>2, <2>4, <2>5
<1>4. ASSUME NEW n \in S PROVE n + 1 \in S
  <2>0. n \in Nat
    BY <1>2
  <2>. SUFFICES ASSUME n + 1 <= MaxHops
                PROVE  /\ IsChain(snap, p, f[n + 1])
                       /\ Len(f[n + 1]) <= n + 1 => Hop(snap, f[n + 1]) = f[n + 1]
    BY <1>2, <2>0
  <2>1. IsChain(snap, p, f[n]) /\ (Len(f[n]) <= n => Hop(snap, f[n]) = f[n])
    BY <1>2, <2>0, HopsAssumption
  <2>2. f[n + 1] = Hop(snap, f[n])
    <3>1. n + 1 \in 0..MaxHops /\ n + 1 # 0 /\ (n + 1) - 1 = n
      BY <2>0, HopsAssumption
    <3>. QED  BY <1>1, <3>1 DEF IsWalk
  <2>3. /\ IsChain(snap, p, f[n + 1])
        /\ f[n + 1] = f[n] \/ Len(f[n + 1]) = Len(f[n]) + 1
    BY <2>1, <2>2, HopKeepsChain
  <2>4. Len(f[n]) \in Nat
    BY <2>1 DEF IsChain
  <2>5. ASSUME Len(f[n + 1]) <= n + 1 PROVE Hop(snap, f[n + 1]) = f[n + 1]
    <3>1. CASE f[n + 1] = f[n]
      BY <2>2, <3>1
    <3>2. CASE Len(f[n + 1]) = Len(f[n]) + 1
      <4>1. Len(f[n]) <= n
        BY <2>0, <2>4, <2>5, <3>2
      <4>. QED  BY <2>1, <2>2, <4>1
    <3>. QED  BY <2>3, <3>1, <3>2
  <2>. QED  BY <2>3, <2>5
<1>5. S \in SUBSET Nat
  BY <1>2
<1>6. MaxHops \in S
  BY <1>3, <1>4, <1>5, Induction, HopsAssumption
<1>. QED  BY <1>1, <1>2, <1>6, HopsAssumption

-----------------------------------------------------------------------------
(* The inductive invariant                                                   *)

\* A line ends in the shell, is in the order of births, of which there were n, and
\* has only known pids.
LineOK(line, n, known) ==
  /\ line \in Lines /\ Len(line) >= 1
  /\ line[Len(line)] = Member(0, Shell, "generic")
  /\ \A i \in 1..Len(line) : line[i].birth <= n /\ line[i].pid \in known \cup {Shell}
  /\ \A i, j \in 1..Len(line) : i < j => line[j].birth < line[i].birth

\* An entry of the table or of a snapshot: its line begins with the process itself,
\* and goes on with the parent.
InfoOK(p, info, n, known) ==
  /\ LineOK(info.line, n, known)
  /\ info.line[1].pid = p /\ info.line[1].kind = info.kind
  /\ info.parent = IF Len(info.line) = 1 THEN NoPid ELSE info.line[2].pid

InfosOK ==
  /\ \A p \in Live : InfoOK(p, table[p], births, used)
  /\ \A p \in DOMAIN snapshot : InfoOK(p, snapshot[p], births, used)
  /\ focus # Nobody => LineOK(focus.line, births, used) /\ focus.line[1].pid = focus.pid

\* From one birth on two lines are the same; a pid that was never used again stands
\* for one birth.
SameBirth(a, b, i, j) ==
  /\ a[i] = b[j]
  /\ i = Len(a) <=> j = Len(b)
  /\ i # Len(a) => a[i + 1] = b[j + 1]

Agree(a, b, again) ==
  \A i \in DOMAIN a, j \in DOMAIN b :
    /\ a[i].birth = b[j].birth => SameBirth(a, b, i, j)
    /\ a[i].pid = b[j].pid /\ a[i].pid \notin again => a[i].birth = b[j].birth

KnownLines ==
  {table[p].line : p \in Live} \cup {snapshot[p].line : p \in DOMAIN snapshot}
    \cup (IF focus = Nobody THEN {} ELSE {focus.line})

OneStory == \A a, b \in KnownLines : Agree(a, b, reused)

\* The hook's ancestors are those of its line, as far as they are certain.
HookLine == table[hook].line

HostFollows ==
  hook # NoPid =>
    \A k \in DOMAIN host : (\A i \in 1..(k - 1) : host[i] \notin reused)
       => k < Len(HookLine) /\ host[k] = HookLine[k + 1].pid

HookIsProgram == hook # NoPid => table[hook].kind = "program"

IInv == TypeOK /\ InfosOK /\ OneStory /\ HostFollows /\ HookIsProgram

-----------------------------------------------------------------------------
(* Lines                                                                     *)

LEMMA LinesAreSequences ==
  ASSUME NEW line \in Lines
  PROVE  /\ Len(line) \in Nat /\ DOMAIN line = 1..Len(line)
         /\ \A i \in 1..Len(line) :
              /\ line[i].birth \in 0..MaxBirths
              /\ line[i].pid \in Pids \cup {Shell}
              /\ line[i].kind \in Kinds
<1>1. Len(line) \in Nat /\ DOMAIN line = 1..Len(line) /\ \A i \in 1..Len(line) : line[i] \in Members
  BY DEF Lines
<1>. QED  BY <1>1 DEF Members

\* The line of a child is the parent's with one more member.
Longer(new, base, x) ==
  /\ new \in Lines /\ Len(new) = Len(base) + 1 /\ new[1] = x
  /\ \A i \in 1..Len(base) : new[i + 1] = base[i]
  /\ \A i \in 2..Len(new) : i - 1 \in 1..Len(base) /\ new[i] = base[i - 1]

LEMMA LongerLine ==
  ASSUME NEW base \in Lines, NEW x, NEW new, new = <<x>> \o base,
         x \in Members
  PROVE  Longer(new, base, x)
<1>1. <<x>> \in Lines /\ Len(<<x>>) = 1
  BY DEF Lines
<1>2. new \in Lines /\ Len(new) = Len(base) + 1 /\ new[1] = x
  BY <1>1 DEF Lines
<1>3. ASSUME NEW i \in 1..Len(base) PROVE new[i + 1] = base[i]
  BY <1>1 DEF Lines
<1>4. ASSUME NEW i \in 2..Len(new) PROVE i - 1 \in 1..Len(base) /\ new[i] = base[i - 1]
  <2>1. i - 1 \in 1..Len(base) /\ (i - 1) + 1 = i
    BY <1>2 DEF Lines
  <2>2. new[(i - 1) + 1] = base[i - 1]
    BY <1>3, <2>1
  <2>. QED  BY <2>1, <2>2
<1>. QED  BY <1>2, <1>3, <1>4 DEF Longer

LEMMA AgreeIsSymmetric ==
  ASSUME NEW a \in Lines, NEW b \in Lines, NEW again, Agree(a, b, again)
  PROVE  Agree(b, a, again)
BY DEF Agree, SameBirth

LEMMA AgreeIsStable ==
  ASSUME NEW a, NEW b, NEW again, NEW more, again \subseteq more, Agree(a, b, again)
  PROVE  Agree(a, b, more)
BY DEF Agree

\* A longer line agrees with what the shorter one and the new member agree with.
LEMMA AgreeWithLonger ==
  ASSUME NEW base \in Lines, NEW b \in Lines, NEW again, NEW x,
         NEW new, Longer(new, base, x),
         Agree(base, b, again),
         \A j \in DOMAIN b :
           /\ x.birth = b[j].birth => SameBirth(new, b, 1, j)
           /\ x.pid = b[j].pid /\ x.pid \notin again => x.birth = b[j].birth
  PROVE  Agree(new, b, again)
<1>. SUFFICES ASSUME NEW i \in DOMAIN new, NEW j \in DOMAIN b
              PROVE  /\ new[i].birth = b[j].birth => SameBirth(new, b, i, j)
                     /\ new[i].pid = b[j].pid /\ new[i].pid \notin again
                          => new[i].birth = b[j].birth
  BY DEF Agree
<1>0. /\ Len(base) \in Nat /\ DOMAIN base = 1..Len(base) /\ new \in Lines
      /\ Len(b) \in Nat /\ DOMAIN b = 1..Len(b) /\ DOMAIN new = 1..Len(new)
      /\ Len(new) = Len(base) + 1 /\ new[1] = x
      /\ \A k \in 1..Len(base) : new[k + 1] = base[k]
      /\ \A k \in 2..Len(new) : k - 1 \in 1..Len(base) /\ new[k] = base[k - 1]
  BY LinesAreSequences DEF Longer
<1>1. CASE i = 1
  BY <1>0, <1>1
<1>2. CASE i # 1
  <2>1. i \in 2..Len(new)
    BY <1>0, <1>2
  <2>2. i - 1 \in DOMAIN base /\ new[i] = base[i - 1]
    BY <1>0, <2>1
  <2>3. /\ base[i - 1].birth = b[j].birth => SameBirth(base, b, i - 1, j)
        /\ base[i - 1].pid = b[j].pid /\ base[i - 1].pid \notin again
             => base[i - 1].birth = b[j].birth
    BY <2>2 DEF Agree
  <2>4. ASSUME SameBirth(base, b, i - 1, j) PROVE SameBirth(new, b, i, j)
    <3>1. (i - 1 = Len(base)) <=> (i = Len(new))
      BY <1>0, <2>1
    <3>2. ASSUME i # Len(new) PROVE new[i + 1] = base[(i - 1) + 1]
      <4>1. i \in 1..Len(base) /\ (i - 1) + 1 = i
        BY <1>0, <2>1, <3>2
      <4>. QED  BY <1>0, <4>1
    <3>. QED  BY <2>2, <2>4, <3>1, <3>2 DEF SameBirth
  <2>. QED  BY <2>2, <2>3, <2>4
<1>. QED  BY <1>1, <1>2

\* The line of a process just born agrees with all that is known, and with itself.
LEMMA AgreeWithBorn ==
  ASSUME NEW lines \in SUBSET Lines, NEW again,
         \A a, b \in lines : Agree(a, b, again),
         NEW base \in lines, NEW x, NEW new, Longer(new, base, x),
         \A b \in lines : \A j \in DOMAIN b :
           x.birth # b[j].birth /\ (x.pid = b[j].pid => x.pid \in again)
  PROVE  \A a, b \in lines \cup {new} : Agree(a, b, again)
<1>0. /\ base \in Lines /\ new \in Lines /\ new[1] = x
      /\ Len(base) \in Nat /\ DOMAIN base = 1..Len(base) /\ DOMAIN new = 1..Len(new)
      /\ \A k \in 2..Len(new) : k - 1 \in 1..Len(base) /\ new[k] = base[k - 1]
  BY LinesAreSequences DEF Longer
<1>1. ASSUME NEW b \in lines PROVE Agree(new, b, again)
  BY <1>0, <1>1, AgreeWithLonger
<1>2. ASSUME NEW b \in lines PROVE Agree(b, new, again)
  BY <1>0, <1>1, <1>2, AgreeIsSymmetric
<1>3. Agree(new, new, again)
  <2>1. Agree(base, new, again)
    BY <1>2
  <2>2. ASSUME NEW j \in DOMAIN new
        PROVE  /\ x.birth = new[j].birth => SameBirth(new, new, 1, j)
               /\ x.pid = new[j].pid /\ x.pid \notin again => x.birth = new[j].birth
    <3>1. CASE j = 1
      BY <1>0, <3>1 DEF SameBirth
    <3>2. CASE j # 1
      <4>1. j \in 2..Len(new)
        BY <1>0, <3>2
      <4>2. j - 1 \in DOMAIN base /\ new[j] = base[j - 1]
        BY <1>0, <4>1
      <4>. QED  BY <4>2
    <3>. QED  BY <3>1, <3>2
  <2>. QED  BY <1>0, <2>1, <2>2, AgreeWithLonger
<1>. QED  BY <1>1, <1>2, <1>3

LEMMA InfoIsStable ==
  ASSUME NEW q, NEW info, NEW n \in Nat, NEW m \in Nat, n <= m,
         NEW known, NEW more, known \subseteq more, InfoOK(q, info, n, known)
  PROVE  InfoOK(q, info, m, more)
<1>1. LineOK(info.line, n, known)
  BY DEF InfoOK
<1>2. ASSUME NEW i \in 1..Len(info.line) PROVE info.line[i].birth <= m
  <2>1. info.line[i].birth <= n /\ info.line[i].birth \in 0..MaxBirths
    BY <1>1, LinesAreSequences DEF LineOK
  <2>. QED  BY <2>1, HopsAssumption
<1>. QED  BY <1>1, <1>2 DEF InfoOK, LineOK

LEMMA LineIsStable ==
  ASSUME NEW line, NEW n \in Nat, NEW m \in Nat, n <= m,
         NEW known, NEW more, known \subseteq more, LineOK(line, n, known)
  PROVE  LineOK(line, m, more)
<1>1. ASSUME NEW i \in 1..Len(line) PROVE line[i].birth <= m
  <2>1. line[i].birth <= n /\ line[i].birth \in 0..MaxBirths
    BY LinesAreSequences DEF LineOK
  <2>. QED  BY <2>1, HopsAssumption
<1>. QED  BY <1>1 DEF LineOK

\* A chain goes up a line as long as what it passes is what the line says.
AllOK(snap, n, known) == \A q \in DOMAIN snap : InfoOK(q, snap[q], n, known)

Passes(snap, chain, line, k) ==
  \A i \in 1..k :
    i <= Len(line) /\ chain[i] = line[i].pid => SameBirth(snap[chain[i]].line, line, 1, i)

LEMMA ChainFollowsLine ==
  ASSUME NEW snap, NEW n, NEW known,
         AllOK(snap, n, known),
         NEW p, NEW chain, IsChain(snap, p, chain),
         NEW line \in Lines, Len(line) >= 1, line[1].pid = p,
         NEW k \in 1..Len(chain), Passes(snap, chain, line, k - 1)
  PROVE  \A i \in 1..k : i <= Len(line) /\ chain[i] = line[i].pid
<1>1. PICK S : S = {i \in Nat : i + 1 <= k =>
                       i + 1 <= Len(line) /\ chain[i + 1] = line[i + 1].pid}
  OBVIOUS
<1>2. Len(line) \in Nat /\ Len(chain) \in Nat
  BY LinesAreSequences DEF IsChain
<1>3. 0 \in S
  BY <1>1, <1>2 DEF IsChain
<1>4. ASSUME NEW i \in S PROVE i + 1 \in S
  <2>1. i \in Nat
    BY <1>1
  <2>. SUFFICES ASSUME (i + 1) + 1 <= k
                PROVE  /\ (i + 1) + 1 <= Len(line)
                       /\ chain[(i + 1) + 1] = line[(i + 1) + 1].pid
    BY <1>1, <2>1
  <2>2. PICK j : j = i + 1
    OBVIOUS
  <2>3. j \in Nat /\ j \in 1..(k - 1) /\ j \in 1..(Len(chain) - 1)
    BY <1>2, <2>1, <2>2
  <2>4. j <= Len(line) /\ chain[j] = line[j].pid
    BY <1>1, <2>1, <2>2, <2>3
  <2>5. /\ chain[j] \in DOMAIN snap
        /\ chain[j + 1] = snap[chain[j]].parent /\ chain[j + 1] # NoPid
    BY <2>3 DEF IsChain
  <2>6. PICK info : info = snap[chain[j]]
    OBVIOUS
  <2>7. InfoOK(chain[j], info, n, known) /\ info.parent # NoPid
    BY <2>5, <2>6 DEF AllOK
  <2>8. Len(info.line) # 1 /\ info.parent = info.line[2].pid
    BY <2>7 DEF InfoOK
  <2>9. SameBirth(info.line, line, 1, j)
    BY <2>3, <2>4, <2>6 DEF Passes
  <2>10. j # Len(line) /\ info.line[1 + 1] = line[j + 1]
    BY <2>8, <2>9 DEF SameBirth
  <2>11. j + 1 <= Len(line)
    BY <1>2, <2>3, <2>4, <2>10
  <2>12. chain[j + 1] = line[j + 1].pid
    BY <2>5, <2>6, <2>8, <2>10
  <2>. QED  BY <2>2, <2>11, <2>12
<1>5. S \in SUBSET Nat
  BY <1>1
<1>6. ASSUME NEW i \in 1..k PROVE i <= Len(line) /\ chain[i] = line[i].pid
  <2>1. i - 1 \in Nat /\ (i - 1) + 1 = i /\ i <= k
    OBVIOUS
  <2>2. i - 1 \in S
    BY <1>3, <1>4, <1>5, <2>1, Induction
  <2>. QED  BY <1>1, <2>1, <2>2
<1>. QED  BY <1>6

-----------------------------------------------------------------------------
(* Steps                                                                     *)

LEMMA InfosAreTyped ==
  ASSUME TypeOK
  PROVE  KnownLines \in SUBSET Lines
<1>1. \A p \in Live : table[p].line \in Lines
  BY DEF TypeOK, Info
<1>2. \A p \in DOMAIN snapshot : snapshot[p].line \in Lines
  BY DEF TypeOK, Info
<1>3. focus.line \in Lines
  BY DEF TypeOK
<1>. QED  BY <1>1, <1>2, <1>3 DEF KnownLines

LEMMA KnownAreOK ==
  ASSUME InfosOK
  PROVE  \A a \in KnownLines : LineOK(a, births, used)
BY DEF InfosOK, KnownLines, InfoOK

LEMMA StoryIsStable ==
  ASSUME OneStory, KnownLines' \subseteq KnownLines, reused \subseteq reused'
  PROVE  OneStory'
<1>. SUFFICES ASSUME NEW a \in KnownLines', NEW b \in KnownLines'
              PROVE  Agree(a, b, reused')
  BY DEF OneStory
<1>1. Agree(a, b, reused)
  BY DEF OneStory
<1>. QED  BY <1>1, AgreeIsStable

LEMMA InitStep == Init => IInv
<1>. SUFFICES ASSUME Init PROVE IInv
  OBVIOUS
<1>1. PICK line : line = <<Member(0, Shell, "generic")>>
  OBVIOUS
<1>2. /\ Live = {Shell} /\ table[Shell] = ShellInfo /\ ShellInfo.line = line
      /\ ShellInfo.parent = NoPid /\ ShellInfo.kind = "generic"
      /\ DOMAIN snapshot = {} /\ focus = Nobody /\ births = 0 /\ used = {}
      /\ reused = {} /\ hook = NoPid /\ host = <<>>
  BY <1>1 DEF Init, Live, ShellInfo
<1>3. /\ line \in Lines /\ Len(line) = 1 /\ line[1] = Member(0, Shell, "generic")
      /\ DOMAIN line = {1}
  BY <1>1, HopsAssumption DEF Lines, Members, Member, Kinds
<1>4. Nobody.pid = NoPid /\ Nobody.line = <<>> /\ <<>> \in Lines
  BY DEF Nobody, Lines
<1>5. ShellInfo \in Info
  BY <1>1, <1>3 DEF ShellInfo, Info, Kinds
<1>6. TypeOK
  BY <1>2, <1>4, <1>5, HopsAssumption DEF TypeOK
<1>7. InfosOK
  <2>1. LineOK(line, 0, {})
    BY <1>3 DEF LineOK, Member
  <2>2. InfoOK(Shell, ShellInfo, 0, {})
    BY <1>2, <1>3, <2>1 DEF InfoOK, Member
  <2>. QED  BY <1>2, <2>2 DEF InfosOK
<1>8. OneStory
  <2>1. KnownLines = {line}
    BY <1>2 DEF KnownLines
  <2>2. Agree(line, line, {})
    BY <1>3 DEF Agree, SameBirth
  <2>. QED  BY <1>2, <2>1, <2>2 DEF OneStory
<1>. QED  BY <1>2, <1>6, <1>7, <1>8 DEF IInv, HostFollows, HookIsProgram

LEMMA SpawnStep ==
  ASSUME IInv, NEW p \in Pids, NEW parent \in Pids \cup {Shell}, NEW kind \in Kinds,
         Spawn(p, parent, kind)
  PROVE  IInv'
<1>0. TypeOK /\ InfosOK /\ OneStory
  BY DEF IInv
<1>1. /\ p \notin Live /\ parent \in Live /\ births' = births + 1 /\ births < MaxBirths
      /\ Live' = Live \cup {p} /\ \A x \in Live : table'[x] = table[x]
      /\ used' = used \cup {p} /\ reused \subseteq reused'
      /\ reused' \subseteq used' /\ (p \in used => p \in reused')
      /\ UNCHANGED <<hook, host, snapshot, focus>>
  BY <1>0 DEF Spawn, Live, TypeOK
<1>2. PICK new, base, x : /\ new = table'[p].line /\ base = table[parent].line
                          /\ x = Member(births + 1, p, kind)
  OBVIOUS
<1>3. table'[p] = [parent |-> parent, kind |-> kind, line |-> <<x>> \o base]
  BY <1>1, <1>2 DEF Spawn, Live
<1>4. births \in Nat /\ births + 1 \in 0..MaxBirths
  BY <1>0, <1>1, HopsAssumption DEF TypeOK
<1>5. /\ x \in Members
      /\ x.birth = births + 1 /\ x.pid = p /\ x.kind = kind
  BY <1>2, <1>4 DEF Member, Members
<1>6. base \in Lines /\ base \in KnownLines /\ InfoOK(parent, table[parent], births, used)
  BY <1>0, <1>1, <1>2 DEF TypeOK, Info, KnownLines, InfosOK
<1>7. new = <<x>> \o base
  BY <1>2, <1>3
<1>longer. Longer(new, base, x)
  BY <1>5, <1>6, <1>7, LongerLine
<1>8. /\ new \in Lines /\ Len(new) = Len(base) + 1 /\ new[1] = x
      /\ \A i \in 1..Len(base) : new[i + 1] = base[i]
      /\ \A i \in 2..Len(new) : i - 1 \in 1..Len(base) /\ new[i] = base[i - 1]
  BY <1>longer DEF Longer
<1>9. LineOK(base, births, used) /\ base[1].pid = parent /\ Len(base) \in Nat \ {0}
  BY <1>2, <1>6, LinesAreSequences DEF InfoOK, LineOK
<1>10. ASSUME NEW i \in 1..Len(base)
       PROVE  base[i].birth < births + 1 /\ base[i].pid \in used \cup {Shell}
  <2>1. base[i].birth <= births /\ base[i].birth \in 0..MaxBirths
    BY <1>6, <1>9, LinesAreSequences DEF LineOK
  <2>. QED  BY <1>4, <1>9, <2>1, HopsAssumption DEF LineOK
<1>11. LineOK(new, births', used')
  <2>1. Len(new) >= 1 /\ new[Len(new)] = Member(0, Shell, "generic")
    <3>1. Len(base) \in 1..Len(base)
      BY <1>9
    <3>2. new[Len(base) + 1] = base[Len(base)]
      BY <1>8, <3>1
    <3>. QED  BY <1>8, <1>9, <3>2 DEF LineOK
  <2>2. ASSUME NEW i \in 1..Len(new)
        PROVE  new[i].birth <= births' /\ new[i].pid \in used' \cup {Shell}
    <3>1. CASE i = 1
      BY <1>1, <1>4, <1>5, <1>8, <3>1
    <3>2. CASE i # 1
      <4>1. i \in 2..Len(new)
        BY <1>8, <1>9, <3>2
      <4>2. i - 1 \in 1..Len(base) /\ new[i] = base[i - 1]
        BY <1>8, <4>1
      <4>3. base[i - 1].birth \in 0..MaxBirths
        BY <1>6, <4>2, LinesAreSequences
      <4>. QED  BY <1>1, <1>4, <1>10, <4>2, <4>3, HopsAssumption
    <3>. QED  BY <3>1, <3>2
  <2>3. ASSUME NEW i \in 1..Len(new), NEW j \in 1..Len(new), i < j
        PROVE  new[j].birth < new[i].birth
    <3>1. j \in 2..Len(new)
      BY <1>8, <1>9, <2>3
    <3>2. j - 1 \in 1..Len(base) /\ new[j] = base[j - 1]
      BY <1>8, <3>1
    <3>3. CASE i = 1
      BY <1>5, <1>8, <1>10, <3>2, <3>3
    <3>4. CASE i # 1
      <4>1. i \in 2..Len(new)
        BY <1>8, <1>9, <3>4
      <4>2. i - 1 \in 1..Len(base) /\ new[i] = base[i - 1]
        BY <1>8, <4>1
      <4>3. i - 1 < j - 1
        BY <1>8, <1>9, <2>3
      <4>. QED  BY <1>9, <3>2, <4>2, <4>3 DEF LineOK
    <3>. QED  BY <3>3, <3>4
  <2>. QED  BY <1>8, <2>1, <2>2, <2>3 DEF LineOK
<1>12. InfoOK(p, table'[p], births', used')
  <2>1. Len(new) # 1 /\ new[2].pid = parent
    <3>1. 1 \in 1..Len(base)
      BY <1>9
    <3>2. new[1 + 1] = base[1]
      BY <1>8, <3>1
    <3>. QED  BY <1>8, <1>9, <3>2
  <2>. QED  BY <1>3, <1>5, <1>7, <1>8, <1>11, <2>1 DEF InfoOK
<1>13. InfosOK'
  <2>1. births' \in Nat /\ births <= births' /\ used \subseteq used'
    BY <1>1, <1>4
  <2>2. ASSUME NEW q \in Live' PROVE InfoOK(q, table'[q], births', used')
    <3>1. CASE q = p
      BY <1>12, <3>1
    <3>2. CASE q # p
      <4>1. q \in Live /\ table'[q] = table[q]
        BY <1>1, <3>2
      <4>2. InfoOK(q, table[q], births, used)
        BY <1>0, <4>1 DEF InfosOK
      <4>. QED  BY <1>4, <2>1, <4>1, <4>2, InfoIsStable
    <3>. QED  BY <3>1, <3>2
  <2>3. ASSUME NEW q \in DOMAIN snapshot' PROVE InfoOK(q, snapshot'[q], births', used')
    <3>1. q \in DOMAIN snapshot /\ snapshot'[q] = snapshot[q]
      BY <1>1
    <3>2. InfoOK(q, snapshot[q], births, used)
      BY <1>0, <3>1 DEF InfosOK
    <3>. QED  BY <1>4, <2>1, <3>1, <3>2, InfoIsStable
  <2>4. focus # Nobody => LineOK(focus.line, births', used') /\ focus.line[1].pid = focus.pid
    BY <1>0, <1>4, <2>1, LineIsStable DEF InfosOK
  <2>. QED  BY <1>1, <2>2, <2>3, <2>4 DEF InfosOK
<1>14. OneStory'
  <2>1. KnownLines' \subseteq KnownLines \cup {new}
    BY <1>1, <1>2 DEF KnownLines
  <2>2. KnownLines \in SUBSET Lines
    BY <1>0, InfosAreTyped
  <2>3. \A a, b \in KnownLines : Agree(a, b, reused')
    BY <1>0, <1>1, AgreeIsStable DEF OneStory
  <2>4. ASSUME NEW b \in KnownLines, NEW j \in DOMAIN b
        PROVE  x.birth # b[j].birth /\ (x.pid = b[j].pid => x.pid \in reused')
    <3>1. LineOK(b, births, used) /\ j \in 1..Len(b)
      BY <1>0, <2>2, KnownAreOK, LinesAreSequences
    <3>2. b[j].birth <= births /\ b[j].pid \in used \cup {Shell} /\ b[j].birth \in 0..MaxBirths
      BY <2>2, <3>1, LinesAreSequences DEF LineOK
    <3>3. p # Shell
      BY PidsAssumption
    <3>. QED  BY <1>1, <1>4, <1>5, <1>8, <3>2, <3>3, HopsAssumption
  <2>5. \A a, b \in KnownLines \cup {new} : Agree(a, b, reused')
    BY <1>6, <1>longer, <2>2, <2>3, <2>4, AgreeWithBorn
  <2>. QED  BY <2>1, <2>5 DEF OneStory
<1>15. TypeOK'
  <2>1. table'[p] \in Info
    BY <1>3, <1>7, <1>8 DEF Info
  <2>2. \A q \in Live' : table'[q] \in Info
    BY <1>0, <1>1, <2>1 DEF TypeOK
  <2>. QED  BY <1>0, <1>1, <1>4, <2>2 DEF TypeOK
<1>16. HostFollows' /\ HookIsProgram'
  <2>1. hook # NoPid => hook \in Live /\ table'[hook] = table[hook]
    BY <1>0, <1>1 DEF TypeOK
  <2>. QED  BY <1>1, <2>1 DEF IInv, HostFollows, HookIsProgram, HookLine
<1>. QED  BY <1>13, <1>14, <1>15, <1>16 DEF IInv

LEMMA ExitStep ==
  ASSUME IInv, NEW p \in Pids, Exit(p)
  PROVE  IInv'
<1>0. TypeOK /\ InfosOK /\ OneStory
  BY DEF IInv
<1>1. /\ p \notin {Shell, hook}
      /\ Live' \subseteq Live /\ (\A x \in Live' : table'[x] = table[x])
      /\ Live \ {p} \subseteq Live'
      /\ UNCHANGED <<births, used, reused, hook, host, snapshot, focus>>
  BY DEF Exit, Live
<1>2. TypeOK'
  BY <1>0, <1>1 DEF TypeOK
<1>3. InfosOK'
  BY <1>0, <1>1 DEF InfosOK
<1>4. OneStory'
  <2>1. KnownLines' \subseteq KnownLines
    BY <1>1 DEF KnownLines
  <2>. QED  BY <1>0, <1>1, <2>1, StoryIsStable
<1>5. HostFollows' /\ HookIsProgram'
  <2>1. hook # NoPid => hook \in Live' /\ table'[hook] = table[hook]
    BY <1>0, <1>1 DEF TypeOK
  <2>. QED  BY <1>1, <2>1 DEF IInv, HostFollows, HookIsProgram, HookLine
<1>. QED  BY <1>2, <1>3, <1>4, <1>5 DEF IInv

\* The shell's pid is never given again, so that only the shell has it.
LEMMA ShellIsGeneric ==
  ASSUME IInv, Shell \in Live
  PROVE  table[Shell].kind = "generic"
<1>1. PICK line : line = table[Shell].line
  OBVIOUS
<1>2. /\ line \in KnownLines /\ LineOK(line, births, used) /\ line[1].pid = Shell
      /\ line[1].kind = table[Shell].kind
  BY <1>1 DEF IInv, InfosOK, InfoOK, KnownLines
<1>3. /\ line \in Lines /\ Len(line) \in Nat \ {0} /\ DOMAIN line = 1..Len(line)
      /\ line[Len(line)] = Member(0, Shell, "generic")
  BY <1>2, LinesAreSequences DEF LineOK
<1>4. Shell \notin reused
  BY PidsAssumption DEF IInv, TypeOK
<1>5. Agree(line, line, reused)
  BY <1>2 DEF IInv, OneStory
<1>6. 1 \in DOMAIN line /\ Len(line) \in DOMAIN line
  BY <1>3
<1>7. line[Len(line)].pid = Shell /\ line[Len(line)].kind = "generic"
  BY <1>3 DEF Member
<1>8. line[1].birth = line[Len(line)].birth
  BY <1>2, <1>4, <1>5, <1>6, <1>7 DEF Agree
<1>9. line[1] = line[Len(line)]
  BY <1>5, <1>6, <1>8 DEF Agree, SameBirth
<1>. QED  BY <1>2, <1>7, <1>9

\* What the ancestors of a chain are, in a table of known processes.
LEMMA ChainOfPids ==
  ASSUME NEW snap, \A q \in DOMAIN snap : snap[q] \in Info,
         NEW p \in Pids \cup {Shell}, NEW chain, IsChain(snap, p, chain)
  PROVE  chain \in Seq(Pids \cup {Shell})
<1>1. PICK U : U = {p} \cup {snap[q].parent : q \in DOMAIN snap}
  OBVIOUS
<1>2. chain \in Seq(U) /\ Len(chain) \in Nat
  BY <1>1 DEF IsChain
<1>3. U \subseteq Pids \cup {Shell, NoPid}
  BY <1>1 DEF Info
<1>4. ASSUME NEW i \in 1..Len(chain) PROVE chain[i] \in Pids \cup {Shell}
  <2>1. CASE i = 1
    BY <2>1 DEF IsChain
  <2>2. CASE i # 1
    <3>1. i - 1 \in 1..(Len(chain) - 1) /\ (i - 1) + 1 = i
      BY <1>2, <2>2
    <3>2. chain[(i - 1) + 1] # NoPid
      BY <3>1 DEF IsChain
    <3>3. chain[i] \in U
      BY <1>2
    <3>. QED  BY <1>3, <3>1, <3>2, <3>3
  <2>. QED  BY <2>1, <2>2
<1>5. chain = [i \in 1..Len(chain) |-> chain[i]]
  BY <1>2
<1>. QED  BY <1>2, <1>4, <1>5

\* A pid on a line that was never given again is in any table the process on the line.
LEMMA UnreusedIsSame ==
  ASSUME OneStory, NEW a \in KnownLines, NEW line \in KnownLines,
         NEW i \in DOMAIN line, 1 \in DOMAIN a,
         a[1].pid = line[i].pid, line[i].pid \notin reused
  PROVE  SameBirth(a, line, 1, i)
BY DEF OneStory, Agree

LEMMA StartHookStep ==
  ASSUME IInv, NEW p \in Pids \cup {Shell}, StartHook(p)
  PROVE  IInv'
<1>0. TypeOK /\ InfosOK /\ OneStory
  BY DEF IInv
<1>1. PICK chain : chain = Ancestry(table, p)
  OBVIOUS
<1>2. /\ p \in Live /\ table[p].kind = "program" /\ hook' = p /\ host' = Tail(chain)
      /\ UNCHANGED <<table, births, used, reused, snapshot, focus>>
  BY <1>1 DEF StartHook
<1>3. IsChain(table, p, chain)
  BY <1>1, AncestryIsChain
<1>4. chain \in Seq(Pids \cup {Shell}) /\ Len(chain) \in Nat \ {0}
  <2>1. chain \in Seq(Pids \cup {Shell})
    BY <1>0, <1>3, ChainOfPids DEF TypeOK, Live
  <2>. QED  BY <1>3, <2>1 DEF IsChain
<1>5. /\ Tail(chain) \in Seq(Pids \cup {Shell})
      /\ DOMAIN Tail(chain) = 1..(Len(chain) - 1)
      /\ \A i \in 1..(Len(chain) - 1) : Tail(chain)[i] = chain[i + 1]
  BY <1>4
<1>6. p # Shell
  BY <1>2, ShellIsGeneric
<1>7. TypeOK'
  BY <1>0, <1>2, <1>5, <1>6 DEF TypeOK, Live
<1>8. InfosOK'
  BY <1>0, <1>2 DEF InfosOK, Live
<1>9. OneStory'
  <2>1. KnownLines' \subseteq KnownLines
    BY <1>2 DEF KnownLines, Live
  <2>. QED  BY <1>0, <1>2, <2>1, StoryIsStable
<1>10. HostFollows'
  <2>1. PICK line : line = table[p].line
    OBVIOUS
  <2>2. /\ InfoOK(p, table[p], births, used) /\ line \in KnownLines /\ line \in Lines
        /\ Len(line) \in Nat \ {0} /\ DOMAIN line = 1..Len(line) /\ line[1].pid = p
    <3>1. InfoOK(p, table[p], births, used) /\ line \in KnownLines
      BY <1>0, <1>2, <2>1 DEF InfosOK, KnownLines
    <3>2. line \in Lines /\ Len(line) >= 1 /\ line[1].pid = p
      BY <2>1, <3>1 DEF InfoOK, LineOK
    <3>. QED  BY <3>1, <3>2, LinesAreSequences
  <2>3. SUFFICES ASSUME NEW k \in 1..(Len(chain) - 1),
                        \A i \in 1..(k - 1) : Tail(chain)[i] \notin reused
                 PROVE  k < Len(line) /\ Tail(chain)[k] = line[k + 1].pid
    BY <1>2, <1>5, <2>1 DEF HostFollows, HookLine
  <2>4. ASSUME NEW i \in 1..k, i <= Len(line), chain[i] = line[i].pid
        PROVE  SameBirth(table[chain[i]].line, line, 1, i)
    <3>1. CASE i = 1
      BY <2>1, <2>2, <2>4, <3>1 DEF SameBirth
    <3>2. CASE i # 1
      <4>1. i - 1 \in 1..(k - 1) /\ i - 1 \in 1..(Len(chain) - 1) /\ (i - 1) + 1 = i
        BY <1>4, <3>2
      <4>2. chain[i] \notin reused
        BY <1>5, <2>3, <4>1
      <4>3. i \in 1..(Len(chain) - 1) /\ i \in DOMAIN line
        BY <1>4, <2>2, <2>4
      <4>4. chain[i] \in Live
        BY <1>3, <4>3 DEF IsChain, Live
      <4>5. PICK a : a = table[chain[i]].line
        OBVIOUS
      <4>6. a \in KnownLines /\ 1 \in DOMAIN a /\ a[1].pid = chain[i]
        BY <1>0, <4>4, <4>5, LinesAreSequences DEF InfosOK, InfoOK, LineOK, KnownLines
      <4>. QED  BY <1>0, <2>2, <2>4, <4>2, <4>3, <4>5, <4>6, UnreusedIsSame
    <3>. QED  BY <3>1, <3>2
  <2>5. k + 1 \in 1..Len(chain) /\ k + 1 \in 1..(k + 1)
    BY <1>4
  <2>6. AllOK(table, births, used) /\ Passes(table, chain, line, (k + 1) - 1)
    <3>1. (k + 1) - 1 = k
      BY <1>4
    <3>. QED  BY <1>0, <2>4, <3>1 DEF InfosOK, Live, AllOK, Passes
  <2>7. Len(line) >= 1
    BY <2>2
  <2>8. \A i \in 1..(k + 1) : i <= Len(line) /\ chain[i] = line[i].pid
    BY <1>3, <2>2, <2>5, <2>6, <2>7, ChainFollowsLine
  <2>9. k + 1 <= Len(line) /\ chain[k + 1] = line[k + 1].pid
    BY <2>5, <2>8
  <2>. QED  BY <1>5, <2>2, <2>9
<1>11. HookIsProgram'
  BY <1>2 DEF HookIsProgram
<1>. QED  BY <1>7, <1>8, <1>9, <1>10, <1>11 DEF IInv

LEMMA LookStep ==
  ASSUME IInv, NEW p \in Pids \cup {Shell}, Look(p)
  PROVE  IInv'
<1>0. TypeOK /\ InfosOK /\ OneStory
  BY DEF IInv
<1>1. /\ p \in Live /\ focus'.pid = p /\ focus'.line = table[p].line
      /\ UNCHANGED <<table, births, used, reused, hook, host, snapshot>>
  BY DEF Look
<1>2. TypeOK'
  BY <1>0, <1>1 DEF TypeOK, Info, Live
<1>3. InfosOK'
  BY <1>0, <1>1 DEF InfosOK, InfoOK, Live
<1>4. OneStory'
  <2>1. KnownLines' \subseteq KnownLines
    BY <1>1 DEF KnownLines, Live
  <2>. QED  BY <1>0, <1>1, <2>1, StoryIsStable
<1>5. HostFollows' /\ HookIsProgram'
  BY <1>1 DEF IInv, HostFollows, HookIsProgram, HookLine
<1>. QED  BY <1>2, <1>3, <1>4, <1>5 DEF IInv

LEMMA JudgeStep ==
  ASSUME IInv, Judge
  PROVE  IInv'
<1>0. TypeOK /\ InfosOK /\ OneStory
  BY DEF IInv
<1>1. /\ focus' = Nobody /\ UNCHANGED <<table, births, used, reused>>
      /\ \/ hook' = NoPid /\ host' = <<>> /\ DOMAIN snapshot' = {}
         \/ UNCHANGED <<hook, host>> /\ (snapshot' = snapshot \/ snapshot' = table)
  BY DEF Judge, Known
<1>2. TypeOK'
  <2>1. <<>> \in Lines /\ <<>> \in Seq(Pids \cup {Shell})
    BY DEF Lines
  <2>2. /\ hook' \in Pids \cup {NoPid} /\ (hook' # NoPid => hook' \in Live')
        /\ host' \in Seq(Pids \cup {Shell})
    BY <1>0, <1>1, <2>1 DEF TypeOK, Live
  <2>3. \A q \in DOMAIN snapshot' : snapshot'[q] \in Info
    BY <1>0, <1>1 DEF TypeOK, Live
  <2>. QED  BY <1>0, <1>1, <2>1, <2>2, <2>3 DEF TypeOK, Live, Nobody
<1>3. InfosOK'
  BY <1>0, <1>1 DEF InfosOK, Live
<1>4. OneStory'
  <2>1. KnownLines' \subseteq KnownLines
    BY <1>1 DEF KnownLines, Live
  <2>. QED  BY <1>0, <1>1, <2>1, StoryIsStable
<1>5. HostFollows' /\ HookIsProgram'
  BY <1>1 DEF IInv, HostFollows, HookIsProgram, HookLine
<1>. QED  BY <1>2, <1>3, <1>4, <1>5 DEF IInv

LEMMA NextIInv == IInv /\ [Next]_vars => IInv'
<1>. SUFFICES ASSUME IInv, [Next]_vars PROVE IInv'
  OBVIOUS
<1>1. CASE UNCHANGED vars
  BY <1>1 DEF vars, IInv, TypeOK, InfosOK, OneStory, KnownLines, HostFollows,
     HookIsProgram, HookLine, Live
<1>2. CASE Process
  BY <1>2, SpawnStep, ExitStep DEF Process
<1>3. CASE Watcher
  BY <1>3, StartHookStep, LookStep, JudgeStep DEF Watcher
<1>. QED  BY <1>1, <1>2, <1>3 DEF Next

-----------------------------------------------------------------------------
(* A window that releases the hook                                           *)

\* What the hook can see of a focused process, in whichever table it looks.
LEMMA KnownTable ==
  ASSUME InfosOK
  PROVE  /\ AllOK(Known, births, used)
         /\ \A q \in DOMAIN Known : Known[q].line \in KnownLines
BY DEF InfosOK, AllOK, Known, KnownLines, Live

\* A process of the table that stands on a line with a pid never given again.
LEMMA EntryIsSame ==
  ASSUME InfosOK, OneStory, NEW q \in DOMAIN Known,
         NEW line \in KnownLines, NEW i \in DOMAIN line,
         q = line[i].pid, q \notin reused
  PROVE  SameBirth(Known[q].line, line, 1, i)
<1>1. PICK a : a = Known[q].line
  OBVIOUS
<1>2. a \in KnownLines /\ InfoOK(q, Known[q], births, used)
  BY <1>1, KnownTable DEF AllOK
<1>3. a[1].pid = q /\ a \in Lines /\ Len(a) >= 1
  BY <1>1, <1>2 DEF InfoOK, LineOK
<1>4. 1 \in DOMAIN a
  BY <1>3, LinesAreSequences
<1>. QED  BY <1>1, <1>2, <1>3, <1>4, UnreusedIsSame

LEMMA OnlyJudgeReleases ==
  ASSUME TypeOK, [Next]_vars, Released
  PROVE  Judge /\ WindowIsHost(Known, focus.pid)
<1>1. hook # NoPid /\ hook' = NoPid
  BY DEF Released
<1>2. Judge
  BY <1>1 DEF Next, Process, Watcher, Spawn, Exit, StartHook, Look, vars
<1>. QED  BY <1>1, <1>2 DEF Judge

LEMMA ReleaseIsOwn ==
  ASSUME IInv, hook # NoPid, focus # Nobody, WindowIsHost(Known, focus.pid),
         (Range(Ancestry(Known, focus.pid)) \cup Range(host)) \cap reused = {}
  PROVE  OneApplication(focus.line, HookLine)
<1>0. TypeOK /\ InfosOK /\ OneStory /\ HostFollows /\ HookIsProgram
  BY DEF IInv
<1>1. PICK line, mine, chain : /\ line = focus.line /\ mine = HookLine
                               /\ chain = Ancestry(Known, focus.pid)
  OBVIOUS
<1>2. IsChain(Known, focus.pid, chain)
  BY <1>1, AncestryIsChain
<1>3. Len(chain) \in Nat \ {0} /\ DOMAIN chain = 1..Len(chain)
  BY <1>2 DEF IsChain
<1>4. /\ line \in KnownLines /\ LineOK(line, births, used) /\ line[1].pid = focus.pid
      /\ line \in Lines /\ Len(line) \in Nat \ {0} /\ DOMAIN line = 1..Len(line)
  <2>1. /\ line \in KnownLines /\ LineOK(line, births, used) /\ line[1].pid = focus.pid
    BY <1>0, <1>1 DEF InfosOK, KnownLines
  <2>. QED  BY <2>1, LinesAreSequences DEF LineOK
<1>5. /\ mine \in KnownLines /\ LineOK(mine, births, used) /\ mine[1].kind = "program"
      /\ mine \in Lines /\ Len(mine) \in Nat \ {0} /\ DOMAIN mine = 1..Len(mine)
  <2>1. hook \in Live /\ InfoOK(hook, table[hook], births, used)
    BY <1>0 DEF TypeOK, InfosOK
  <2>2. /\ mine \in KnownLines /\ LineOK(mine, births, used) /\ mine[1].kind = "program"
    BY <1>0, <1>1, <2>1 DEF InfoOK, KnownLines, HookIsProgram, HookLine
  <2>. QED  BY <2>2, LinesAreSequences DEF LineOK
<1>6. ASSUME NEW i \in 1..Len(chain) PROVE chain[i] \notin reused
  BY <1>1, <1>3 DEF Range
\* The window's chain is on its line.
<1>7. \A i \in 1..Len(chain) : i <= Len(line) /\ chain[i] = line[i].pid
  <2>1. ASSUME NEW i \in 1..(Len(chain) - 1), i <= Len(line), chain[i] = line[i].pid
        PROVE  SameBirth(Known[chain[i]].line, line, 1, i)
    <3>1. chain[i] \in DOMAIN Known /\ chain[i] \notin reused /\ i \in DOMAIN line
      BY <1>2, <1>3, <1>4, <1>6, <2>1 DEF IsChain
    <3>. QED  BY <1>0, <1>4, <2>1, <3>1, EntryIsSame
  <2>2. Passes(Known, chain, line, Len(chain) - 1) /\ AllOK(Known, births, used)
    BY <1>0, <2>1, KnownTable DEF Passes
  <2>3. Len(chain) \in 1..Len(chain) /\ Len(line) >= 1
    BY <1>3, <1>4
  <2>. QED  BY <1>2, <1>4, <2>2, <2>3, ChainFollowsLine
\* The hook's ancestors are on its line.
<1>8. ASSUME NEW k \in DOMAIN host
      PROVE  k < Len(mine) /\ host[k] = mine[k + 1].pid /\ k \in 1..Len(host)
  <2>1. k \in 1..Len(host) /\ Len(host) \in Nat
    BY <1>0 DEF TypeOK
  <2>2. ASSUME NEW i \in 1..(k - 1) PROVE host[i] \notin reused
    <3>1. i \in DOMAIN host
      BY <1>0, <2>1 DEF TypeOK
    <3>. QED  BY <3>1 DEF Range
  <2>. QED  BY <1>0, <1>1, <2>1, <2>2 DEF HostFollows
<1>9. PICK c, j, k : /\ j \in 1..Len(chain) /\ c = chain[j]
                     /\ k \in DOMAIN host /\ c = host[k]
                     /\ \A i \in 1..Len(chain) : chain[i] \in Range(host) => j <= i
                     /\ c \in DOMAIN Known /\ Known[c].kind = "program"
  <2>1. PICK S : S = Common(chain, host)
    OBVIOUS
  <2>2. S \in SUBSET (1..Len(chain)) /\ S # {}
    BY <1>1, <1>3, <2>1 DEF WindowIsHost, Common
  <2>3. Min(S) \in S /\ \A i \in S : Min(S) <= i
    BY <1>3, <2>2, MinIsLeast
  <2>4. chain[Min(S)] \in DOMAIN Known /\ Known[chain[Min(S)]].kind = "program"
    BY <1>1, <2>1 DEF WindowIsHost, Nearest
  <2>5. PICK k \in DOMAIN host : chain[Min(S)] = host[k]
    BY <2>1, <2>3 DEF Common, Range
  <2>. QED  BY <1>3, <2>1, <2>2, <2>3, <2>4, <2>5 DEF Common
<1>10. j \in DOMAIN line /\ c = line[j].pid /\ c \notin reused
  <2>1. j <= Len(line) /\ c = line[j].pid /\ c \notin reused
    BY <1>6, <1>7, <1>9
  <2>. QED  BY <1>3, <1>4, <1>9, <2>1
<1>11. line[j].kind = "program"
  <2>1. SameBirth(Known[c].line, line, 1, j)
    BY <1>0, <1>4, <1>9, <1>10, EntryIsSame
  <2>2. Known[c].line[1].kind = "program"
    BY <1>0, <1>9, KnownTable DEF AllOK, InfoOK
  <2>. QED  BY <2>1, <2>2 DEF SameBirth
<1>12. k + 1 \in DOMAIN mine /\ line[j] = mine[k + 1] /\ k \in 1..Len(host)
  <2>1. k + 1 \in DOMAIN mine /\ c = mine[k + 1].pid /\ k \in 1..Len(host)
    BY <1>5, <1>8, <1>9
  <2>2. Agree(line, mine, reused)
    BY <1>0, <1>4, <1>5 DEF OneStory
  <2>3. line[j].birth = mine[k + 1].birth
    BY <1>10, <2>1, <2>2 DEF Agree
  <2>. QED  BY <1>10, <2>1, <2>2, <2>3 DEF Agree, SameBirth
\* The nearest common ancestor by the lines.
<1>13. PICK i : /\ i \in DOMAIN line /\ line[i] \in Range(mine) /\ i <= j
                /\ line[i] = Nearest(line, mine)
  <2>1. PICK S : S = Common(line, mine)
    OBVIOUS
  <2>2. S \in SUBSET (1..Len(line)) /\ j \in S
    BY <1>4, <1>10, <1>12, <2>1 DEF Common, Range
  <2>3. Min(S) \in S /\ \A x \in S : Min(S) <= x
    BY <1>4, <2>2, MinIsLeast
  <2>. QED  BY <2>1, <2>2, <2>3 DEF Common, Nearest
<1>14. PICK n \in DOMAIN mine : line[i] = mine[n]
  BY <1>13 DEF Range
<1>15. line[i].kind = "program"
  <2>1. CASE i = j
    BY <1>11, <2>1
  <2>2. CASE i # j /\ n = 1
    BY <1>5, <1>14, <2>2
  <2>3. CASE i # j /\ n \in 2..(k + 1)
    <3>1. n - 1 \in DOMAIN host /\ (n - 1) + 1 = n
      BY <1>0, <1>12, <2>3 DEF TypeOK
    <3>2. host[n - 1] = line[i].pid
      BY <1>8, <1>14, <3>1
    <3>3. i \in 1..Len(chain)
      BY <1>3, <1>4, <1>9, <1>13
    <3>4. chain[i] \in Range(host)
      BY <1>7, <3>1, <3>2, <3>3 DEF Range
    <3>5. j <= i
      BY <1>9, <3>3, <3>4
    <3>. QED  BY <1>3, <1>9, <1>13, <2>3, <3>3, <3>5
  <2>4. CASE i # j /\ n > k + 1
    <3>1. line[j].birth < line[i].birth
      BY <1>3, <1>4, <1>9, <1>10, <1>13, <2>4 DEF LineOK
    <3>2. mine[n].birth < mine[k + 1].birth
      BY <1>5, <1>12, <2>4 DEF LineOK
    <3>3. line[i].birth \in Nat /\ line[j].birth \in Nat
      BY <1>4, <1>10, <1>13, LinesAreSequences, HopsAssumption
    <3>. QED  BY <1>12, <1>14, <3>1, <3>2, <3>3
  <2>. QED  BY <1>5, <1>12, <2>1, <2>2, <2>3, <2>4
<1>. QED  BY <1>1, <1>13, <1>15 DEF OneApplication

\* The types of the process table, the snapshot and the watcher's fields.
THEOREM LocalInputTypes == Spec => []TypeOK
<1>1. IInv => TypeOK
  BY DEF IInv
<1>. QED  BY <1>1, InitStep, NextIInv, PTL DEF Spec

\* Only a window of the hook's own application releases Claude, however many
\* processes there are and however deep, unless a pid on the way was used again.
THEOREM StrangersNeverRelease == Spec => ReleasedByOwnWindow
<1>1. ASSUME IInv, [Next]_vars, Released
      PROVE  \/ OneApplication(focus.line, table[hook].line)
             \/ (Range(Ancestry(Known, focus.pid)) \cup Range(host)) \cap reused # {}
  <2>1. Judge /\ WindowIsHost(Known, focus.pid)
    BY <1>1, OnlyJudgeReleases DEF IInv
  <2>2. hook # NoPid /\ focus # Nobody
    BY <1>1, <2>1 DEF Released, Judge
  <2>. QED  BY <1>1, <2>1, <2>2, ReleaseIsOwn DEF HookLine
<1>2. IInv /\ [Next]_vars =>
        [ Released =>
            \/ OneApplication(focus.line, table[hook].line)
            \/ (Range(Ancestry(Known, focus.pid)) \cup Range(host)) \cap reused # {} ]_vars
  BY <1>1
<1>. QED  BY <1>2, InitStep, NextIInv, PTL DEF Spec, ReleasedByOwnWindow

-----------------------------------------------------------------------------
(* The hook's own window                                                     *)

Alive(x) == \E p \in Live : table[p].line[1] = x

\* The hook's ancestors go up its line as far as that is alive.
HostReaches ==
  hook # NoPid =>
    \A m \in 2..Len(HookLine) :
      m <= MaxHops + 1 /\ (\A i \in 1..m : Alive(HookLine[i]))
        => m - 1 \in DOMAIN host /\ host[m - 1] = HookLine[m].pid

\* A snapshot has what is alive now and older than something in it.
SnapshotWhole ==
  \A q \in Live, s \in DOMAIN snapshot :
    table[q].line[1].birth < snapshot[s].line[1].birth
      => q \in DOMAIN snapshot /\ snapshot[q] = table[q]

LooksForHook == focus # Nobody => hook # NoPid

OwnInv == HostReaches /\ SnapshotWhole /\ LooksForHook

\* A chain reaches what the table has of a line, from its start on.
Shows(snap, line, m) ==
  \A i \in 1..m :
    line[i].pid \in DOMAIN snap /\ SameBirth(snap[line[i].pid].line, line, 1, i)

LEMMA ChainReaches ==
  ASSUME NEW snap, NEW n, NEW known, AllOK(snap, n, known),
         NEW p, NEW chain, IsChain(snap, p, chain),
         Len(chain) <= MaxHops => Hop(snap, chain) = chain,
         NEW line, LineOK(line, n, known), line[1].pid = p,
         NEW m \in 1..Len(line), m <= MaxHops + 1, Shows(snap, line, m)
  PROVE  m <= Len(chain) /\ \A i \in 1..m : chain[i] = line[i].pid
<1>1. /\ line \in Lines /\ Len(line) \in Nat /\ Len(line) >= 1 /\ DOMAIN line = 1..Len(line)
      /\ Len(chain) \in Nat /\ Len(chain) >= 1 /\ DOMAIN chain = 1..Len(chain)
  BY LinesAreSequences DEF LineOK, IsChain
<1>2. PICK k : k = IF Len(chain) < m THEN Len(chain) ELSE m
  OBVIOUS
<1>3. k \in 1..Len(chain) /\ k \in 1..m /\ m \in Nat
  BY <1>1, <1>2
<1>4. Passes(snap, chain, line, k - 1)
  BY <1>3 DEF Passes, Shows
<1>5. \A i \in 1..k : i <= Len(line) /\ chain[i] = line[i].pid
  BY <1>1, <1>3, <1>4, ChainFollowsLine
<1>6. ASSUME Len(chain) < m PROVE FALSE
  <2>1. k = Len(chain) /\ k \in 1..(m - 1) /\ k + 1 \in 1..m /\ k + 1 \in 1..Len(line)
    BY <1>1, <1>2, <1>3, <1>6
  <2>2. Hop(snap, chain) = chain
    BY <1>1, <1>3, <1>6, HopsAssumption
  <2>3. PICK info : info = snap[line[k].pid]
    OBVIOUS
  <2>4. line[k].pid \in DOMAIN snap /\ SameBirth(info.line, line, 1, k)
    BY <2>1, <2>3 DEF Shows
  <2>5. InfoOK(line[k].pid, info, n, known)
    BY <2>3, <2>4 DEF AllOK
  <2>6. Len(info.line) # 1 /\ info.line[2] = line[k + 1]
    <3>1. k # Len(line)
      <4>1. PICK len : len = Len(line)
        OBVIOUS
      <4>2. k \in Nat /\ len \in Nat /\ k + 1 <= len
        BY <1>1, <1>3, <2>1, <4>1
      <4>3. k # len
        BY <4>2
      <4>. QED  BY <4>1, <4>3
    <3>2. 1 # Len(info.line) /\ info.line[1 + 1] = line[k + 1]
      BY <2>4, <3>1 DEF SameBirth
    <3>. QED  BY <3>2
  <2>7. info.parent = line[k + 1].pid
    BY <2>5, <2>6 DEF InfoOK
  <2>8. info.parent # NoPid
    BY <1>1, <2>1, <2>7, LinesAreSequences, PidsAssumption
  <2>9. ASSUME NEW i \in 1..Len(chain) PROVE chain[i] # info.parent
    <3>1. chain[i] = line[i].pid /\ i \in 1..m /\ i \in 1..Len(line) /\ i < k + 1
      BY <1>1, <1>3, <1>5, <2>1
    <3>2. SUFFICES ASSUME line[i].pid = line[k + 1].pid PROVE FALSE
      BY <2>7, <3>1
    <3>3. line[i] = line[k + 1]
      BY <2>1, <3>1, <3>2 DEF Shows, SameBirth
    <3>4. line[k + 1].birth < line[i].birth /\ line[i].birth \in Nat
      BY <1>1, <2>1, <3>1, LinesAreSequences, HopsAssumption DEF LineOK
    <3>. QED  BY <3>3, <3>4
  <2>10. Last(chain) = line[k].pid
    BY <1>3, <1>5, <2>1 DEF Last
  <2>11. info.parent \notin {NoPid} \cup Range(chain)
    BY <1>1, <2>8, <2>9 DEF Range
  <2>12. Hop(snap, chain) = Append(chain, info.parent)
    BY <2>3, <2>4, <2>10, <2>11 DEF Hop
  <2>13. Len(Append(chain, info.parent)) = Len(chain) + 1
    <3>1. info.parent \in {p} \cup {snap[q].parent : q \in DOMAIN snap}
      BY <2>3, <2>4
    <3>. QED  BY <3>1 DEF IsChain
  <2>. QED  BY <1>1, <2>2, <2>12, <2>13
<1>7. ~ (Len(chain) < m)
  BY <1>6
<1>8. k = m /\ m <= Len(chain)
  BY <1>1, <1>2, <1>3, <1>7
<1>. QED  BY <1>5, <1>8

\* What is alive on a known line is shown by the table.
LEMMA AliveIsShown ==
  ASSUME InfosOK, OneStory, NEW line \in KnownLines, NEW i \in DOMAIN line, Alive(line[i])
  PROVE  /\ line[i].pid \in Live /\ table[line[i].pid].line[1] = line[i]
         /\ SameBirth(table[line[i].pid].line, line, 1, i)
<1>1. PICK q \in Live : table[q].line[1] = line[i]
  BY DEF Alive
<1>2. PICK a : a = table[q].line
  OBVIOUS
<1>3. a \in KnownLines /\ InfoOK(q, table[q], births, used)
  BY <1>1, <1>2 DEF InfosOK, KnownLines
<1>4. q = line[i].pid
  BY <1>1, <1>3 DEF InfoOK
<1>5. 1 \in DOMAIN a
  BY <1>2, <1>3, LinesAreSequences DEF InfoOK, LineOK
<1>6. SameBirth(a, line, 1, i)
  BY <1>1, <1>2, <1>3, <1>5 DEF OneStory, Agree
<1>. QED  BY <1>1, <1>2, <1>4, <1>6

\* Nothing that was alive on a known line comes to life again.
LEMMA NobodyRevives ==
  ASSUME IInv, IInv', NEW p \in Pids, NEW parent \in Pids \cup {Shell}, NEW kind \in Kinds,
         Spawn(p, parent, kind)
  PROVE  /\ \A q \in Live' : q # p => q \in Live /\ table'[q] = table[q]
         /\ p \in Live' /\ table'[p].line[1].birth = births + 1 /\ births \in Nat
         /\ UNCHANGED <<hook, host, snapshot, focus>>
<1>1. /\ Live' = Live \cup {p} /\ parent \in Live /\ births' = births + 1
      /\ births < MaxBirths /\ (\A x \in Live : table'[x] = table[x])
      /\ table'[p].line = <<Member(births + 1, p, kind)>> \o table[parent].line
      /\ UNCHANGED <<hook, host, snapshot, focus>>
  BY DEF Spawn, Live
<1>2. births \in Nat /\ births + 1 \in 0..MaxBirths /\ table[parent].line \in Lines
  BY <1>1, HopsAssumption DEF IInv, TypeOK, Info
<1>3. Member(births + 1, p, kind) \in Members /\ Member(births + 1, p, kind).birth = births + 1
  BY <1>2 DEF Members, Member
<1>4. Longer(table'[p].line, table[parent].line, Member(births + 1, p, kind))
  BY <1>1, <1>2, <1>3, LongerLine
<1>5. table'[p].line[1] = Member(births + 1, p, kind)
  BY <1>4 DEF Longer
<1>. QED  BY <1>1, <1>2, <1>3, <1>5

LEMMA BirthsAreBounded ==
  ASSUME TypeOK, NEW line, LineOK(line, births, used), NEW i \in 1..Len(line)
  PROVE  line[i].birth \in Nat /\ births \in Nat /\ line[i].birth < births + 1
<1>1. line[i].birth \in 0..MaxBirths /\ line[i].birth <= births /\ births \in 0..MaxBirths
  BY LinesAreSequences DEF LineOK, TypeOK
<1>. QED  BY <1>1, HopsAssumption

LEMMA SpawnKeepsOwn ==
  ASSUME IInv, IInv', OwnInv,
         NEW p \in Pids, NEW parent \in Pids \cup {Shell}, NEW kind \in Kinds,
         Spawn(p, parent, kind)
  PROVE  OwnInv'
<1>0. TypeOK /\ InfosOK
  BY DEF IInv
<1>1. /\ \A q \in Live' : q # p => q \in Live /\ table'[q] = table[q]
      /\ p \in Live' /\ table'[p].line[1].birth = births + 1 /\ births \in Nat
      /\ UNCHANGED <<hook, host, snapshot, focus>>
  BY NobodyRevives
<1>2. p \notin Live
  BY DEF Spawn
<1>3. HostReaches'
  <2>. SUFFICES ASSUME hook # NoPid, NEW m \in 2..Len(HookLine'), m <= MaxHops + 1,
                       \A i \in 1..m : Alive(HookLine[i])'
                PROVE  m - 1 \in DOMAIN host /\ host[m - 1] = HookLine'[m].pid
    BY <1>1 DEF HostReaches
  <2>1. hook \in Live /\ HookLine' = HookLine
    <3>1. hook \in Live' /\ hook \in Live /\ hook # p
      BY <1>0, <1>1, <1>2 DEF IInv, TypeOK
    <3>. QED  BY <1>1, <3>1 DEF HookLine
  <2>2. LineOK(HookLine, births, used)
    BY <1>0, <2>1 DEF InfosOK, InfoOK, HookLine
  <2>3. ASSUME NEW i \in 1..m PROVE Alive(HookLine[i])
    <3>1. PICK q \in Live' : table'[q].line[1] = HookLine[i]
      BY <2>1 DEF Alive
    <3>2. i \in 1..Len(HookLine)
      BY <2>1, <2>2, LinesAreSequences DEF LineOK
    <3>3. HookLine[i].birth < births + 1 /\ HookLine[i].birth \in Nat
      BY <1>0, <2>2, <3>2, BirthsAreBounded
    <3>4. q # p
      BY <1>1, <3>1, <3>3
    <3>. QED  BY <1>1, <3>1, <3>4 DEF Alive
  <2>. QED  BY <2>1, <2>3 DEF OwnInv, HostReaches
<1>4. SnapshotWhole'
  <2>. SUFFICES ASSUME NEW q \in Live', NEW s \in DOMAIN snapshot,
                       table'[q].line[1].birth < snapshot[s].line[1].birth
                PROVE  q \in DOMAIN snapshot /\ snapshot[q] = table'[q]
    BY <1>1 DEF SnapshotWhole
  <2>1. LineOK(snapshot[s].line, births, used) /\ 1 \in 1..Len(snapshot[s].line)
    BY <1>0, LinesAreSequences DEF InfosOK, InfoOK, LineOK
  <2>2. snapshot[s].line[1].birth < births + 1 /\ snapshot[s].line[1].birth \in Nat
    BY <1>0, <2>1, BirthsAreBounded
  <2>3. q # p
    BY <1>1, <2>2
  <2>. QED  BY <1>1, <2>3 DEF OwnInv, SnapshotWhole
<1>5. LooksForHook'
  BY <1>1 DEF OwnInv, LooksForHook
<1>. QED  BY <1>3, <1>4, <1>5 DEF OwnInv

LEMMA ExitKeepsOwn ==
  ASSUME IInv, OwnInv, NEW p \in Pids, Exit(p)
  PROVE  OwnInv'
<1>1. /\ p # hook /\ Live' \subseteq Live /\ (\A x \in Live' : table'[x] = table[x])
      /\ Live \ {p} \subseteq Live' /\ UNCHANGED <<hook, host, snapshot, focus>>
  BY DEF Exit, Live
<1>2. hook # NoPid => HookLine' = HookLine
  <2>1. hook # NoPid => hook \in Live'
    BY <1>1 DEF IInv, TypeOK
  <2>. QED  BY <1>1, <2>1 DEF HookLine
<1>3. HostReaches'
  <2>. SUFFICES ASSUME hook # NoPid, NEW m \in 2..Len(HookLine'), m <= MaxHops + 1,
                       \A i \in 1..m : Alive(HookLine[i])'
                PROVE  m - 1 \in DOMAIN host /\ host[m - 1] = HookLine'[m].pid
    BY <1>1 DEF HostReaches
  <2>1. \A i \in 1..m : Alive(HookLine[i])
    BY <1>1, <1>2 DEF Alive
  <2>. QED  BY <1>2, <2>1 DEF OwnInv, HostReaches
<1>4. SnapshotWhole'
  BY <1>1 DEF OwnInv, SnapshotWhole
<1>5. LooksForHook'
  BY <1>1 DEF OwnInv, LooksForHook
<1>. QED  BY <1>3, <1>4, <1>5 DEF OwnInv

LEMMA StartHookKeepsOwn ==
  ASSUME IInv, OwnInv, NEW p \in Pids \cup {Shell}, StartHook(p)
  PROVE  OwnInv'
<1>0. TypeOK /\ InfosOK /\ OneStory
  BY DEF IInv
<1>1. PICK chain : chain = Ancestry(table, p)
  OBVIOUS
<1>2. /\ p \in Live /\ hook = NoPid /\ hook' = p /\ host' = Tail(chain)
      /\ UNCHANGED <<table, snapshot, focus>>
  BY <1>1 DEF StartHook
<1>3. IsChain(table, p, chain) /\ (Len(chain) <= MaxHops => Hop(table, chain) = chain)
  BY <1>1, AncestryIsChain
<1>4. /\ Len(chain) \in Nat \ {0} /\ DOMAIN Tail(chain) = 1..(Len(chain) - 1)
      /\ \A i \in 1..(Len(chain) - 1) : Tail(chain)[i] = chain[i + 1]
  BY <1>3 DEF IsChain
<1>5. HostReaches'
  <2>1. PICK line : line = table[p].line
    OBVIOUS
  <2>2. /\ LineOK(line, births, used) /\ line[1].pid = p /\ line \in KnownLines
        /\ AllOK(table, births, used)
    BY <1>0, <1>2, <2>1 DEF InfosOK, InfoOK, KnownLines, AllOK, Live
  <2>. SUFFICES ASSUME NEW m \in 2..Len(line), m <= MaxHops + 1,
                       \A i \in 1..m : Alive(line[i])
                PROVE  m - 1 \in DOMAIN Tail(chain) /\ Tail(chain)[m - 1] = line[m].pid
    BY <1>2, <2>1 DEF HostReaches, HookLine, Alive, Live
  <2>3. m \in 1..Len(line) /\ Len(line) \in Nat /\ DOMAIN line = 1..Len(line)
    BY <2>2, LinesAreSequences DEF LineOK
  <2>4. Shows(table, line, m)
    <3>. SUFFICES ASSUME NEW i \in 1..m
                  PROVE  /\ line[i].pid \in DOMAIN table
                         /\ SameBirth(table[line[i].pid].line, line, 1, i)
      BY DEF Shows
    <3>1. i \in DOMAIN line
      BY <2>3
    <3>. QED  BY <1>0, <2>2, <3>1, AliveIsShown DEF Live
  <2>5. m <= Len(chain) /\ \A i \in 1..m : chain[i] = line[i].pid
    BY <1>3, <2>2, <2>3, <2>4, ChainReaches
  <2>6. m - 1 \in 1..(Len(chain) - 1) /\ (m - 1) + 1 = m /\ m \in 1..m
    BY <1>4, <2>3, <2>5
  <2>. QED  BY <1>4, <2>5, <2>6
<1>6. SnapshotWhole'
  BY <1>2 DEF OwnInv, SnapshotWhole, Live
<1>7. LooksForHook'
  BY <1>0, <1>2 DEF OwnInv, LooksForHook
<1>. QED  BY <1>5, <1>6, <1>7 DEF OwnInv

LEMMA LookKeepsOwn ==
  ASSUME IInv, OwnInv, NEW p \in Pids \cup {Shell}, Look(p)
  PROVE  OwnInv'
<1>1. hook # NoPid /\ UNCHANGED <<table, hook, host, snapshot>>
  BY DEF Look
<1>. QED  BY <1>1 DEF OwnInv, HostReaches, SnapshotWhole, LooksForHook, HookLine, Alive, Live

LEMMA JudgeKeepsOwn ==
  ASSUME IInv, OwnInv, Judge
  PROVE  OwnInv'
<1>1. /\ focus' = Nobody /\ table' = table
      /\ \/ hook' = NoPid /\ DOMAIN snapshot' = {}
         \/ UNCHANGED <<hook, host>> /\ (snapshot' = snapshot \/ snapshot' = table)
  BY DEF Judge, Known
<1>2. HostReaches'
  BY <1>1 DEF OwnInv, HostReaches, HookLine, Alive, Live
<1>3. SnapshotWhole'
  BY <1>1 DEF OwnInv, SnapshotWhole, Live
<1>. QED  BY <1>1, <1>2, <1>3 DEF OwnInv, LooksForHook, Nobody

LEMMA NextOwnInv == IInv /\ IInv' /\ OwnInv /\ [Next]_vars => OwnInv'
<1>. SUFFICES ASSUME IInv, IInv', OwnInv, [Next]_vars PROVE OwnInv'
  OBVIOUS
<1>1. CASE UNCHANGED vars
  BY <1>1 DEF vars, OwnInv, HostReaches, SnapshotWhole, LooksForHook, HookLine, Alive, Live
<1>2. CASE Process
  BY <1>2, SpawnKeepsOwn, ExitKeepsOwn DEF Process
<1>3. CASE Watcher
  BY <1>3, StartHookKeepsOwn, LookKeepsOwn, JudgeKeepsOwn DEF Watcher
<1>. QED  BY <1>1, <1>2, <1>3 DEF Next

LEMMA InitOwnInv == Init => OwnInv
BY DEF Init, OwnInv, HostReaches, SnapshotWhole, LooksForHook

\* The way up from the focused window, as far as it is alive, is in the table or the
\* snapshot the hook looks at, if the window's pid was never another's.
LEMMA KnownShowsAlive ==
  ASSUME IInv, OwnInv, focus # Nobody, focus.pid \notin reused,
         NEW m \in 1..Len(focus.line), \A i \in 1..m : Alive(focus.line[i])
  PROVE  Shows(Known, focus.line, m)
<1>0. TypeOK /\ InfosOK /\ OneStory
  BY DEF IInv
<1>1. PICK line : line = focus.line
  OBVIOUS
<1>2. line \in KnownLines /\ LineOK(line, births, used) /\ line[1].pid = focus.pid
  BY <1>0, <1>1 DEF InfosOK, KnownLines
<1>3. line \in Lines /\ Len(line) \in Nat /\ DOMAIN line = 1..Len(line)
  BY <1>2, LinesAreSequences DEF LineOK
<1>. SUFFICES ASSUME NEW i \in 1..m
              PROVE  /\ line[i].pid \in DOMAIN Known
                     /\ SameBirth(Known[line[i].pid].line, line, 1, i)
  BY <1>1 DEF Shows
<1>4. i \in DOMAIN line /\ 1 \in DOMAIN line /\ Alive(line[i])
  BY <1>1, <1>3
<1>5. /\ line[i].pid \in Live /\ table[line[i].pid].line[1] = line[i]
      /\ SameBirth(table[line[i].pid].line, line, 1, i)
  BY <1>0, <1>2, <1>4, AliveIsShown
<1>6. CASE focus.pid \notin DOMAIN snapshot
  BY <1>5, <1>6 DEF Known, Live
<1>7. CASE focus.pid \in DOMAIN snapshot
  <2>1. Known = snapshot
    BY <1>7 DEF Known
  <2>2. SameBirth(Known[focus.pid].line, line, 1, 1)
    BY <1>0, <1>2, <1>4, <1>7, <2>1, EntryIsSame
  <2>3. CASE i = 1
    BY <1>2, <1>7, <2>1, <2>2, <2>3
  <2>4. CASE i # 1
    <3>1. line[i].birth < line[1].birth
      <4>1. i \in 1..Len(line) /\ 1 \in 1..Len(line) /\ 1 < i
        BY <1>3, <1>4, <2>4
      <4>. QED  BY <1>2, <4>1 DEF LineOK
    <3>2. snapshot[focus.pid].line[1] = line[1]
      BY <2>1, <2>2 DEF SameBirth
    <3>3. line[i].pid \in DOMAIN snapshot /\ snapshot[line[i].pid] = table[line[i].pid]
      BY <1>5, <1>7, <3>1, <3>2 DEF OwnInv, SnapshotWhole
    <3>. QED  BY <1>5, <2>1, <3>3
  <2>. QED  BY <2>3, <2>4
<1>. QED  BY <1>6, <1>7

\* No process is twice in a line.
LEMMA PlaceIsUnique ==
  ASSUME TypeOK, NEW line, LineOK(line, births, used),
         NEW i \in 1..Len(line), NEW j \in 1..Len(line), line[i] = line[j]
  PROVE  i = j
<1>1. Len(line) \in Nat /\ line[i].birth \in Nat /\ line[j].birth \in Nat
  BY BirthsAreBounded, LinesAreSequences DEF LineOK
<1>2. ~(i < j) /\ ~(j < i)
  BY <1>1 DEF LineOK
<1>. QED  BY <1>1, <1>2

LEMMA OwnReleases ==
  ASSUME IInv, OwnInv, focus # Nobody, Joined(focus.line, HookLine)
  PROVE  WindowIsHost(Known, focus.pid)
<1>0. /\ TypeOK /\ InfosOK /\ OneStory /\ HostFollows /\ HookIsProgram /\ HostReaches
      /\ hook # NoPid
  BY DEF IInv, OwnInv, LooksForHook
<1>1. PICK line, mine, chain : /\ line = focus.line /\ mine = HookLine
                               /\ chain = Ancestry(Known, focus.pid)
  OBVIOUS
<1>2. IsChain(Known, focus.pid, chain) /\ (Len(chain) <= MaxHops => Hop(Known, chain) = chain)
  BY <1>1, AncestryIsChain
<1>3. Len(chain) \in Nat \ {0} /\ DOMAIN chain = 1..Len(chain)
  BY <1>2 DEF IsChain
<1>4. /\ line \in KnownLines /\ LineOK(line, births, used) /\ line[1].pid = focus.pid
      /\ line \in Lines /\ Len(line) \in Nat \ {0} /\ DOMAIN line = 1..Len(line)
  <2>1. /\ line \in KnownLines /\ LineOK(line, births, used) /\ line[1].pid = focus.pid
    BY <1>0, <1>1 DEF InfosOK, KnownLines
  <2>. QED  BY <2>1, LinesAreSequences DEF LineOK
<1>5. /\ mine \in KnownLines /\ LineOK(mine, births, used) /\ mine[1].kind = "program"
      /\ mine \in Lines /\ Len(mine) \in Nat \ {0} /\ DOMAIN mine = 1..Len(mine)
  <2>1. hook \in Live /\ InfoOK(hook, table[hook], births, used)
    BY <1>0 DEF TypeOK, InfosOK
  <2>2. /\ mine \in KnownLines /\ LineOK(mine, births, used) /\ mine[1].kind = "program"
    BY <1>0, <1>1, <2>1 DEF InfoOK, KnownLines, HookIsProgram, HookLine
  <2>. QED  BY <2>2, LinesAreSequences DEF LineOK
<1>6. Len(mine) >= 2
  <2>1. mine[Len(mine)].kind = "generic"
    BY <1>5 DEF LineOK, Member
  <2>. QED  BY <1>5, <2>1
<1>7. /\ DOMAIN Tail(mine) = 1..(Len(mine) - 1)
      /\ \A i \in 1..(Len(mine) - 1) : Tail(mine)[i] = mine[i + 1]
  BY <1>5, <1>6 DEF Lines
\* Where the two lines meet.
<1>8. PICK j, k : /\ j \in DOMAIN line /\ k \in 2..Len(mine) /\ line[j] = mine[k]
                  /\ line[j] = Nearest(line, Tail(mine))
                  /\ \A i \in DOMAIN line : line[i] \in Range(Tail(mine)) => j <= i
  <2>1. PICK S : S = Common(line, Tail(mine))
    OBVIOUS
  <2>2. S \in SUBSET (1..Len(line)) /\ Len(line) \in S
    <3>1. line[Len(line)] = mine[Len(mine)]
      BY <1>4, <1>5 DEF LineOK
    <3>2. Len(mine) - 1 \in DOMAIN Tail(mine) /\ (Len(mine) - 1) + 1 = Len(mine)
      BY <1>5, <1>6, <1>7
    <3>3. Tail(mine)[Len(mine) - 1] = line[Len(line)]
      BY <1>7, <3>1, <3>2
    <3>4. line[Len(line)] \in Range(Tail(mine))
      BY <3>2, <3>3 DEF Range
    <3>5. Len(line) \in DOMAIN line
      BY <1>4
    <3>6. Len(line) \in S
      BY <2>1, <3>4, <3>5 DEF Common
    <3>. QED  BY <1>4, <2>1, <3>6 DEF Common
  <2>3. Min(S) \in S /\ \A i \in S : Min(S) <= i
    BY <1>4, <2>2, MinIsLeast
  <2>4. PICK n \in DOMAIN Tail(mine) : line[Min(S)] = Tail(mine)[n]
    BY <2>1, <2>3 DEF Common, Range
  <2>5. n + 1 \in 2..Len(mine) /\ line[Min(S)] = mine[n + 1]
    BY <1>5, <1>6, <1>7, <2>4
  <2>. QED  BY <2>1, <2>3, <2>5 DEF Common, Nearest
<1>9. /\ line[j].kind = "program"
      /\ \A i \in 1..j : Alive(line[i])
      /\ \A i \in 1..k : Alive(mine[i])
      /\ focus.pid \notin reused /\ \A i \in 1..Len(mine) : mine[i].pid \notin reused
  <2>1. /\ line[j].kind = "program"
        /\ \A x \in Range(line) \cup Range(mine) : x.birth >= line[j].birth =>
              \E p \in Live : Head(table[p].line) = x
        /\ \A x \in {Head(line)} \cup Range(mine) : x.pid \notin reused
    BY <1>1, <1>8 DEF Joined
  <2>2. ASSUME NEW x, \E p \in Live : Head(table[p].line) = x PROVE Alive(x)
    <3>1. PICK p \in Live : Head(table[p].line) = x
      BY <2>2
    <3>2. Head(table[p].line) = table[p].line[1]
      BY <1>0 DEF TypeOK, Info, Lines
    <3>. QED  BY <3>1, <3>2 DEF Alive
  <2>3. ASSUME NEW i \in 1..j PROVE Alive(line[i])
    <3>1. i \in 1..Len(line) /\ j \in 1..Len(line) /\ (i < j \/ i = j)
      BY <1>4, <1>8
    <3>2. line[i].birth \in Nat /\ line[j].birth \in Nat
      BY <1>0, <1>4, <3>1, BirthsAreBounded
    <3>3. line[j].birth < line[i].birth \/ line[j].birth = line[i].birth
      BY <1>4, <3>1 DEF LineOK
    <3>4. line[i] \in Range(line) /\ line[i].birth >= line[j].birth
      BY <1>4, <3>1, <3>2, <3>3 DEF Range
    <3>. QED  BY <2>1, <2>2, <3>4
  <2>4. ASSUME NEW i \in 1..k PROVE Alive(mine[i])
    <3>1. i \in 1..Len(mine) /\ k \in 1..Len(mine) /\ (i < k \/ i = k)
      BY <1>5, <1>8
    <3>2. mine[i].birth \in Nat /\ mine[k].birth \in Nat
      BY <1>0, <1>5, <3>1, BirthsAreBounded
    <3>3. mine[k].birth < mine[i].birth \/ mine[k].birth = mine[i].birth
      BY <1>5, <3>1 DEF LineOK
    <3>4. mine[i] \in Range(mine) /\ mine[i].birth >= line[j].birth
      BY <1>5, <1>8, <3>1, <3>2, <3>3 DEF Range
    <3>. QED  BY <2>1, <2>2, <3>4
  <2>5. Head(line) = line[1]
    BY <1>4 DEF Lines
  <2>6. ASSUME NEW i \in 1..Len(mine) PROVE mine[i].pid \notin reused
    BY <1>5, <2>1 DEF Range
  <2>. QED  BY <1>4, <2>1, <2>3, <2>4, <2>5, <2>6
\* The window's chain goes up to there, and so do the hook's ancestors.
<1>10. j \in 1..Len(line) /\ j <= MaxHops + 1 /\ k <= MaxHops + 1
  <2>1. j \in 1..Len(line) /\ k \in 1..Len(mine) /\ line[j] = mine[k]
    BY <1>4, <1>8
  <2>2. /\ \E i \in 1..Len(line) : i <= MaxHops + 1 /\ line[i] = line[j]
        /\ \E i \in 1..Len(mine) : i <= MaxHops + 1 /\ mine[i] = line[j]
    BY <1>1, <1>4, <1>5, <1>8 DEF Joined, WithinHops
  <2>3. PICK i \in 1..Len(line) : i <= MaxHops + 1 /\ line[i] = line[j]
    BY <2>2
  <2>4. PICK n \in 1..Len(mine) : n <= MaxHops + 1 /\ mine[n] = mine[k]
    BY <2>1, <2>2
  <2>5. i = j
    BY <1>0, <1>4, <2>1, <2>3, PlaceIsUnique
  <2>6. n = k
    BY <1>0, <1>5, <2>1, <2>4, PlaceIsUnique
  <2>. QED  BY <2>1, <2>3, <2>4, <2>5, <2>6
<1>11. Shows(Known, line, j)
  BY <1>1, <1>9, <1>10, KnownShowsAlive
<1>12. j <= Len(chain) /\ \A i \in 1..j : chain[i] = line[i].pid
  BY <1>0, <1>2, <1>4, <1>10, <1>11, KnownTable, ChainReaches
<1>13. k - 1 \in DOMAIN host /\ host[k - 1] = mine[k].pid
  BY <1>0, <1>1, <1>8, <1>9, <1>10 DEF HostReaches
<1>14. ASSUME NEW n \in DOMAIN host
       PROVE  n + 1 \in 2..Len(mine) /\ host[n] = mine[n + 1].pid /\ host[n] \notin reused
  <2>1. Len(host) \in Nat /\ DOMAIN host = 1..Len(host)
    BY <1>0 DEF TypeOK
  <2>2. ASSUME NEW x \in DOMAIN host, \A i \in 1..(x - 1) : host[i] \notin reused
        PROVE  x + 1 \in 2..Len(mine) /\ host[x] = mine[x + 1].pid /\ host[x] \notin reused
    <3>1. x < Len(mine) /\ host[x] = mine[x + 1].pid
      BY <1>0, <1>1, <2>2 DEF HostFollows
    <3>2. x + 1 \in 2..Len(mine) /\ x + 1 \in 1..Len(mine)
      BY <1>5, <2>1, <3>1
    <3>. QED  BY <1>9, <3>1, <3>2
  <2>3. PICK D : D = {x \in DOMAIN host : host[x] \in reused}
    OBVIOUS
  <2>4. CASE D = {}
    <3>1. \A i \in 1..(n - 1) : i \in DOMAIN host
      BY <2>1
    <3>2. \A i \in 1..(n - 1) : host[i] \notin reused
      BY <2>3, <2>4, <3>1
    <3>. QED  BY <2>2, <3>2
  <2>5. CASE D # {}
    <3>1. D \in SUBSET (1..Len(host))
      BY <2>1, <2>3
    <3>2. Min(D) \in D /\ \A i \in D : Min(D) <= i
      BY <2>1, <2>5, <3>1, MinIsLeast
    <3>3. PICK x \in D : \A i \in D : x <= i
      BY <3>2
    <3>4. ASSUME NEW i \in 1..(x - 1) PROVE host[i] \notin reused
      <4>1. i \in DOMAIN host /\ ~ (x <= i)
        BY <2>1, <3>1, <3>3
      <4>. QED  BY <2>3, <3>3, <4>1
    <3>5. host[x] \notin reused
      BY <2>2, <2>3, <3>3, <3>4
    <3>. QED  BY <2>3, <3>3, <3>5
  <2>. QED  BY <2>4, <2>5
\* So that the nearest common ancestor by the pids is the one by the lines.
<1>15. PICK S : S = Common(chain, host)
  OBVIOUS
<1>16. j \in S /\ S \in SUBSET (1..Len(chain))
  <2>1. j \in 1..Len(chain) /\ j \in 1..j
    BY <1>3, <1>10, <1>12
  <2>2. chain[j] = host[k - 1]
    BY <1>8, <1>12, <1>13, <2>1
  <2>. QED  BY <1>3, <1>13, <1>15, <2>1, <2>2 DEF Common, Range
<1>17. PICK i : i = Min(S) /\ i \in S /\ i <= j
  BY <1>3, <1>16, MinIsLeast
<1>18. i = j
  <2>1. i \in 1..j /\ i \in DOMAIN line /\ i \in Nat /\ j \in Nat
    BY <1>3, <1>4, <1>10, <1>16, <1>17
  <2>2. PICK n \in DOMAIN host : chain[i] = host[n]
    BY <1>15, <1>17 DEF Common, Range
  <2>3. /\ n + 1 \in 2..Len(mine) /\ line[i].pid = mine[n + 1].pid
        /\ line[i].pid \notin reused
    BY <1>12, <1>14, <2>1, <2>2
  <2>4. Agree(line, mine, reused) /\ n + 1 \in DOMAIN mine
    BY <1>0, <1>4, <1>5, <2>3 DEF OneStory
  <2>5. line[i].birth = mine[n + 1].birth
    BY <2>1, <2>3, <2>4 DEF Agree
  <2>6. line[i] = mine[n + 1]
    BY <2>1, <2>4, <2>5 DEF Agree, SameBirth
  <2>7. n \in DOMAIN Tail(mine) /\ Tail(mine)[n] = line[i]
    <3>1. n \in 1..(Len(mine) - 1)
      BY <1>0, <1>5, <2>3 DEF TypeOK
    <3>. QED  BY <1>7, <2>6, <3>1
  <2>8. j <= i
    BY <1>8, <2>1, <2>7 DEF Range
  <2>. QED  BY <1>17, <2>1, <2>8
<1>19. chain[j] \in DOMAIN Known /\ Known[chain[j]].kind = "program"
  <2>1. j \in 1..j /\ chain[j] = line[j].pid
    BY <1>10, <1>12
  <2>2. chain[j] \in DOMAIN Known /\ SameBirth(Known[chain[j]].line, line, 1, j)
    BY <1>11, <2>1 DEF Shows
  <2>3. Known[chain[j]].kind = Known[chain[j]].line[1].kind
    BY <1>0, <2>2, KnownTable DEF AllOK, InfoOK
  <2>. QED  BY <1>9, <2>2, <2>3 DEF SameBirth
<1>20. Nearest(chain, host) = chain[j] /\ Common(chain, host) # {}
  BY <1>15, <1>16, <1>17, <1>18 DEF Nearest
<1>. QED  BY <1>1, <1>19, <1>20 DEF WindowIsHost

\* Input at a window of the hook's own application releases it, however old the
\* snapshot is and whoever else has exited, if the program that joins the two is
\* within the hops above each.
THEOREM OwnWindowAlwaysReleases == Spec => OwnWindowReleases
<1>1. ASSUME IInv, OwnInv, [Next]_vars, focus # Nobody, focus' = Nobody,
             Joined(focus.line, table[hook].line)
      PROVE  Released
  <2>1. Judge
    <3>1. focus' # focus
      BY <1>1
    <3>2. ASSUME NEW p, Look(p) PROVE FALSE
      BY <1>1, <3>2 DEF Look
    <3>. QED  BY <1>1, <3>1, <3>2 DEF Next, Process, Watcher, Spawn, Exit, StartHook, vars
  <2>2. WindowIsHost(Known, focus.pid)
    BY <1>1, OwnReleases DEF HookLine
  <2>3. hook # NoPid
    BY <1>1 DEF OwnInv, LooksForHook
  <2>. QED  BY <2>1, <2>2, <2>3 DEF Judge, Released
<1>2. IInv /\ OwnInv /\ [Next]_vars =>
        [ focus # Nobody /\ focus' = Nobody /\ Joined(focus.line, table[hook].line)
            => Released ]_vars
  BY <1>1
<1>. QED  BY <1>2, InitStep, InitOwnInv, NextIInv, NextOwnInv, PTL DEF Spec, OwnWindowReleases
=============================================================================
