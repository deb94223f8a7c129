----------------------------- MODULE LocalInput -----------------------------
(***************************************************************************)
(* How a hook decides that its user is back at the keyboard (local_input): *)
(* input is recent, and the focused window is of the same application as   *)
(* the hook.  Applications are told apart by ancestry in the process table *)
(* (local-pipe's process.rs): the nearest process that the window and the  *)
(* hook descend from must not be one that unrelated programs share.        *)
(*                                                                         *)
(* Windows keeps the parent pid of a process when the parent has exited,   *)
(* and gives pids to new processes again.  The hook takes its ancestors    *)
(* once, and a snapshot of the table only when the one it has does not     *)
(* know the focused pid.                                                   *)
(*                                                                         *)
(* What is true is kept beside what the hook can see: the line of a        *)
(* process, itself and those it descends from, dead or alive, each with    *)
(* its pid and the number of its birth.                                    *)
(***************************************************************************)
EXTENDS Naturals, Sequences, FiniteSets, SequencesExt

CONSTANTS
  Pids,         \* pids, but for that of the shell
  Shell,        \* explorer.exe, which never exits
  NoPid,        \* parent of the shell
  MaxHops,      \* ancestry_in stops after so many steps
  MaxBirths     \* bound on the processes started

ASSUME PidsAssumption == Shell \notin Pids /\ NoPid \notin Pids /\ Shell # NoPid
ASSUME HopsAssumption == MaxHops \in Nat /\ MaxBirths \in Nat

VARIABLES
  table,      \* the live processes: parent pid, kind and line
  births,     \* processes started so far
  used,       \* history: pids that processes have had
  reused,     \* history: pids that more than one process has had
  hook,       \* the hook's process, or NoPid before it runs
  host,       \* host_pids: its ancestors when it started, nearest first
  snapshot,   \* the watcher's copy of the table
  focus       \* the focused process user_active has asked about, or Nobody

vars == <<table, births, used, reused, hook, host, snapshot, focus>>

Kinds == {"program", "generic"}
Member(birth, pid, kind) == [birth |-> birth, pid |-> pid, kind |-> kind]
ShellInfo ==
  [parent |-> NoPid, kind |-> "generic", line |-> <<Member(0, Shell, "generic")>>]
Nobody == [pid |-> NoPid, line |-> <<>>]

Live == DOMAIN table

Init ==
  /\ table = [p \in {Shell} |-> ShellInfo]
  /\ births = 0
  /\ used = {}
  /\ reused = {}
  /\ hook = NoPid
  /\ host = <<>>
  /\ snapshot = [p \in {} |-> ShellInfo]
  /\ focus = Nobody

-----------------------------------------------------------------------------
(* Processes *)

Spawn(p, parent, kind) ==
  /\ births < MaxBirths
  /\ p \in Pids \ Live /\ parent \in Live
  /\ births' = births + 1
  /\ table' = [x \in Live \cup {p} |->
                 IF x = p
                 THEN [parent |-> parent, kind |-> kind,
                       line |-> <<Member(births', p, kind)>> \o table[parent].line]
                 ELSE table[x]]
  /\ used' = used \cup {p}
  /\ reused' = IF p \in used THEN reused \cup {p} ELSE reused
  /\ UNCHANGED <<hook, host, snapshot, focus>>

Exit(p) ==
  /\ p \in Live \ {Shell, hook}
  /\ table' = [x \in Live \ {p} |-> table[x]]
  /\ UNCHANGED <<births, used, reused, hook, host, snapshot, focus>>

-----------------------------------------------------------------------------
(* ancestry_in *)

\* Mutant: the parent pid 0 is taken for a process.
HopToNothing(snap, chain) ==
  LET cur == Last(chain) IN
  IF cur \in DOMAIN snap /\ snap[cur].parent \notin Range(chain)
  THEN Append(chain, snap[cur].parent) ELSE chain

\* One hop from the end of the chain, if the snapshot has one that is new.
Hop(snap, chain) ==
  LET cur == Last(chain) IN
  IF cur \in DOMAIN snap /\ snap[cur].parent \notin {NoPid} \cup Range(chain)
  THEN Append(chain, snap[cur].parent) ELSE chain

Ancestry(snap, p) ==
  LET after[n \in 0..MaxHops] == IF n = 0 THEN <<p>> ELSE Hop(snap, after[n - 1])
  IN after[MaxHops]

-----------------------------------------------------------------------------
(* The hook *)

\* Mutant: the hook's own application begins at itself.
StartHookAlone(p) ==
  /\ hook = NoPid
  /\ p \in Live /\ table[p].kind = "program"
  /\ hook' = p
  /\ host' = <<p>>
  /\ UNCHANGED <<table, births, used, reused, snapshot, focus>>

\* pid_ancestry_chain, without the hook itself.
StartHook(p) ==
  /\ hook = NoPid
  /\ p \in Live /\ table[p].kind = "program"
  /\ hook' = p
  /\ host' = Tail(Ancestry(table, p))
  /\ UNCHANGED <<table, births, used, reused, snapshot, focus>>

\* Input is recent and some window is focused.
Look(p) ==
  /\ hook # NoPid /\ focus = Nobody
  /\ p \in Live
  /\ focus' = [pid |-> p, line |-> table[p].line]
  /\ UNCHANGED <<table, births, used, reused, hook, host, snapshot>>

\* process_snapshot, if the one at hand does not know the focused pid.
Known == IF focus.pid \in DOMAIN snapshot THEN snapshot ELSE table

\* Mutant: any common ancestor will do.
AnyIsHost(snap, p) == Range(Ancestry(snap, p)) \cap Range(host) # {}

\* Where the members of a chain are that the other has too, and the first of them.
Common(chain, other) == {i \in DOMAIN chain : chain[i] \in Range(other)}
Nearest(chain, other) == chain[Min(Common(chain, other))]

\* focused_window_is_host: the nearest common ancestor is known, and no shell.
WindowIsHost(snap, p) ==
  LET chain == Ancestry(snap, p)
      nearest == Nearest(chain, host)
  IN /\ Common(chain, host) # {}
     /\ nearest \in DOMAIN snap /\ snap[nearest].kind = "program"

\* The hook releases Claude and ends, or it looks again some time.
Judge ==
  /\ focus # Nobody
  /\ focus' = Nobody
  /\ IF WindowIsHost(Known, focus.pid)
     THEN hook' = NoPid /\ host' = <<>> /\ snapshot' = [p \in {} |-> ShellInfo]
     ELSE snapshot' = Known /\ UNCHANGED <<hook, host>>
  /\ UNCHANGED <<table, births, used, reused>>

-----------------------------------------------------------------------------
Process == \E p \in Pids :
  \/ \E parent \in Pids \cup {Shell}, kind \in Kinds : Spawn(p, parent, kind)
  \/ Exit(p)

Watcher == (\E p \in Pids \cup {Shell} : StartHook(p) \/ Look(p)) \/ Judge

Next == Process \/ Watcher

Spec == Init /\ [][Next]_vars

-----------------------------------------------------------------------------
(* Properties *)

Members == [birth : 0..MaxBirths, pid : Pids \cup {Shell}, kind : Kinds]
Lines == Seq(Members)
Info == [parent : Pids \cup {Shell, NoPid}, kind : Kinds, line : Lines]

TypeOK ==
  /\ Live \subseteq Pids \cup {Shell} /\ \A p \in Live : table[p] \in Info
  /\ births \in 0..MaxBirths
  /\ reused \subseteq used /\ used \subseteq Pids
  /\ hook \in Pids \cup {NoPid} /\ (hook # NoPid => hook \in Live)
  /\ host \in Seq(Pids \cup {Shell})
  /\ \A p \in DOMAIN snapshot : snapshot[p] \in Info
  /\ focus.pid \in Pids \cup {Shell, NoPid} /\ focus.line \in Lines

\* The nearest common ancestor of two processes, by their lines, is a program.
OneApplication(line, other) == Nearest(line, other).kind = "program"

Released == hook # NoPid /\ hook' = NoPid

\* The hook is released only by a window of its own application, whoever has
\* exited and however old the snapshot is, unless a pid on the way up from that
\* window, or from the hook, is one that more than one process has had.
ReleasedByOwnWindow ==
  [][ Released =>
        \/ OneApplication(focus.line, table[hook].line)
        \/ (Range(Ancestry(Known, focus.pid)) \cup Range(host)) \cap reused # {} ]_vars

\* A process of a line that the hops of ancestry_in come up to.
WithinHops(line, x) == \E i \in DOMAIN line : i <= MaxHops + 1 /\ line[i] = x

\* The hook and a window of one application: they descend from a program, no more
\* than the hops above either, and all from it down to both are alive.  The pids of
\* the window and of those the hook descends from were never another's: else the
\* hook may take a process below that program for one above it.
Joined(line, hookLine) ==
  LET nearest == Nearest(line, Tail(hookLine))
      Alive(x) == \E p \in Live : Head(table[p].line) = x
  IN /\ nearest.kind = "program"
     /\ WithinHops(line, nearest) /\ WithinHops(hookLine, nearest)
     /\ \A x \in Range(line) \cup Range(hookLine) : x.birth >= nearest.birth => Alive(x)
     /\ \A x \in {Head(line)} \cup Range(hookLine) : x.pid \notin reused

\* Input at a window of the hook's own application does release it, however old the
\* snapshot is, if what joins the two is alive.
OwnWindowReleases ==
  [][ focus # Nobody /\ focus' = Nobody /\ Joined(focus.line, table[hook].line)
        => Released ]_vars
=============================================================================
