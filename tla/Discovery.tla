----------------------------- MODULE Discovery -----------------------------
(***************************************************************************)
(* How a hook finds the server of its session.  Every TelegramMCP process  *)
(* writes a discovery file named after its pid, claims a pipe of that name *)
(* and listens (local-pipe); a hook reads the directory, removes the files *)
(* it takes for stale, picks a record and connects (tg-hook).  Processes   *)
(* come, exit and are killed at any time, and pids are used again.         *)
(*                                                                         *)
(* A server is known by its token, its position in `born'; its record says *)
(* what `born' says of it.  The pid of a Claude process is its session.    *)
(* Failing file operations are left out, but for those of the server's own *)
(* start, and so is the accept loop: a connection may fail at any time.    *)
(***************************************************************************)
EXTENDS Naturals, Sequences, FiniteSets, FiniteSetsExt

CONSTANTS
  Pids,         \* pids servers get
  Sessions,     \* Claude sessions
  Hooks,        \* those whose hook runs
  Chain,        \* Chain[h]: the sessions among the ancestors of h's hook, nearest first
  Wrapped,      \* sessions whose servers may be started through a wrapper
  SessionIds,   \* sessions whose servers know their session id
  Nobody,       \* a parent or session id that no hook knows
  MaxServers    \* bound on the servers started

ASSUME ChainAssumption ==
  /\ Chain \in [Sessions -> Seq(Sessions)]
  /\ \A h \in Sessions : Chain[h] # <<>> /\ Chain[h][1] = h
ASSUME NobodyAssumption == Nobody \notin Sessions
ASSUME SubsetsAssumption ==
  Hooks \subseteq Sessions /\ Wrapped \subseteq Sessions /\ SessionIds \subseteq Sessions
ASSUME BoundAssumption == MaxServers \in Nat

VARIABLES
  born,       \* the servers so far: pid, session, and the ppid and session_id they write
  holder,     \* holder[p]: token of the server that runs with pid p, or 0
  phase,      \* where run_pipe_server of that server is
  others,     \* pids in use by other programs
  files,      \* files[p]: whose record p's discovery file has, and whether it is whole
  pc,         \* where each hook is
  todo,       \* directory entries still to be read
  hand,       \* the entry just read: its pid and what was in the file
  found,      \* tokens of the records load_all returns
  chosen,     \* token of the record pick_record returns
  peer,       \* token of the server the hook is connected to
  owed,       \* history: listening servers of the session with a whole record that
              \* shows it, when the scan began
  gone        \* history: pids with a file that were not in use since the scan began

servers == <<born, holder, phase, others>>
scan == <<todo, hand, found>>
ghosts == <<owed, gone>>
vars == <<servers, files, pc, scan, chosen, peer, ghosts>>

Phases == {"none", "starting", "writing", "published", "listening", "closed"}
Locations == {"idle", "scanning", "judging", "removing", "picked", "unmatched", "connected"}

NoFile == [token |-> 0, whole |-> FALSE]
Empty == [pid |-> Nobody, file |-> NoFile]
Whole(t) == [token |-> t, whole |-> TRUE]

Alive(p) == holder[p] # 0 \/ p \in others
Tokens == DOMAIN born

Init ==
  /\ born = <<>>
  /\ holder = [p \in Pids |-> 0]
  /\ phase = [p \in Pids |-> "none"]
  /\ others = {}
  /\ files = [p \in Pids |-> NoFile]
  /\ pc = [h \in Hooks |-> "idle"]
  /\ todo = [h \in Hooks |-> {}]
  /\ hand = [h \in Hooks |-> Empty]
  /\ found = [h \in Hooks |-> {}]
  /\ chosen = [h \in Hooks |-> 0]
  /\ peer = [h \in Hooks |-> 0]
  /\ owed = [h \in Hooks |-> {}]
  /\ gone = [h \in Hooks |-> {}]

-----------------------------------------------------------------------------
(* Processes *)

\* parent_pid(), which may be that of a wrapper, and CLAUDE_SESSION_ID, if set.
Parents(s) == {s} \cup (IF s \in Wrapped THEN {Nobody} ELSE {})
Ids(s) == {Nobody} \cup (IF s \in SessionIds THEN {s} ELSE {})

InUse(p) == gone' = [h \in Hooks |-> gone[h] \ {p}]

StartServer(p, s, parent, sid) ==
  /\ ~Alive(p)
  /\ Len(born) < MaxServers
  /\ born' = Append(born, [pid |-> p, session |-> s, parent |-> parent, sid |-> sid])
  /\ holder' = [holder EXCEPT ![p] = Len(born) + 1]
  /\ phase' = [phase EXCEPT ![p] = "starting"]
  /\ InUse(p)
  /\ UNCHANGED <<others, files, pc, scan, chosen, peer, owed>>

\* Other programs matter only where there is a file.
OtherStarts(p) ==
  /\ ~Alive(p) /\ files[p] # NoFile
  /\ others' = others \cup {p}
  /\ InUse(p)
  /\ UNCHANGED <<born, holder, phase, files, pc, scan, chosen, peer, owed>>

OtherEnds(p) ==
  /\ p \in others
  /\ others' = others \ {p}
  /\ UNCHANGED <<born, holder, phase, files, pc, scan, chosen, peer, ghosts>>

Ends(p) ==
  /\ holder[p] # 0
  /\ holder' = [holder EXCEPT ![p] = 0]
  /\ phase' = [phase EXCEPT ![p] = "none"]

\* DiscoveryGuard: when the future is dropped, the file of this pid is removed.
Exit(p) ==
  /\ phase[p] # "writing"
  /\ Ends(p)
  /\ files' = IF phase[p] \in {"published", "listening"}
              THEN [files EXCEPT ![p] = NoFile] ELSE files
  /\ UNCHANGED <<born, others, pc, scan, chosen, peer, ghosts>>

\* No destructor runs.
Kill(p) ==
  /\ Ends(p)
  /\ UNCHANGED <<born, others, files, pc, scan, chosen, peer, ghosts>>

-----------------------------------------------------------------------------
(* run_pipe_server *)

\* discovery::write is not atomic: the file is there, empty, ...
OpenFile(p) ==
  /\ phase[p] = "starting"
  /\ phase' = [phase EXCEPT ![p] = "writing"]
  /\ files' = [files EXCEPT ![p] = [token |-> holder[p], whole |-> FALSE]]
  /\ UNCHANGED <<born, holder, others, pc, scan, chosen, peer, ghosts>>

\* ... before it has the record; a file removed meanwhile stays removed.
FinishFile(p) ==
  /\ phase[p] = "writing"
  /\ phase' = [phase EXCEPT ![p] = "published"]
  /\ files' = IF files[p].token = holder[p]
              THEN [files EXCEPT ![p] = Whole(holder[p])] ELSE files
  /\ UNCHANGED <<born, holder, others, pc, scan, chosen, peer, ghosts>>

\* run_pipe_server returns before there is a guard; the process lives on.
WriteFails(p) ==
  /\ phase[p] \in {"starting", "writing"}
  /\ phase' = [phase EXCEPT ![p] = "closed"]
  /\ UNCHANGED <<born, holder, others, files, pc, scan, chosen, peer, ghosts>>

\* The first pipe instance.
Claim(p) ==
  /\ phase[p] = "published"
  /\ phase' = [phase EXCEPT ![p] = "listening"]
  /\ UNCHANGED <<born, holder, others, files, pc, scan, chosen, peer, ghosts>>

ClaimFails(p) ==
  /\ phase[p] = "published"
  /\ phase' = [phase EXCEPT ![p] = "closed"]
  /\ files' = [files EXCEPT ![p] = NoFile]
  /\ UNCHANGED <<born, holder, others, pc, scan, chosen, peer, ghosts>>

-----------------------------------------------------------------------------
(* load_all *)

Findable(t) ==
  LET p == born[t].pid
  IN holder[p] = t /\ phase[p] = "listening" /\ files[p] = Whole(t)

Begin(h) ==
  /\ pc[h] = "idle"
  /\ pc' = [pc EXCEPT ![h] = "scanning"]
  /\ todo' = [todo EXCEPT ![h] = {p \in Pids : files[p] # NoFile}]
  /\ found' = [found EXCEPT ![h] = {}]
  /\ owed' = [owed EXCEPT ![h] = {t \in Tokens : Findable(t) /\ born[t].parent = h}]
  /\ gone' = [gone EXCEPT ![h] = {p \in Pids : files[p] # NoFile /\ ~Alive(p)}]
  /\ UNCHANGED <<servers, files, hand, chosen, peer>>

\* A file that is gone by now cannot be read: continue.
ReadEntry(h, p) ==
  /\ pc[h] = "scanning" /\ p \in todo[h]
  /\ todo' = [todo EXCEPT ![h] = @ \ {p}]
  /\ IF files[p] = NoFile
     THEN UNCHANGED <<pc, hand>>
     ELSE /\ pc' = [pc EXCEPT ![h] = "judging"]
          /\ hand' = [hand EXCEPT ![h] = [pid |-> p, file |-> files[p]]]
  /\ UNCHANGED <<servers, files, found, chosen, peer, ghosts>>

Keep(h) ==
  /\ pc[h] = "judging"
  /\ hand[h].file.whole /\ Alive(hand[h].pid)
  /\ found' = [found EXCEPT ![h] = @ \cup {hand[h].file.token}]
  /\ hand' = [hand EXCEPT ![h] = Empty]
  /\ pc' = [pc EXCEPT ![h] = "scanning"]
  /\ UNCHANGED <<servers, files, todo, chosen, peer, ghosts>>

\* Mutant: a file that does not parse is skipped.
DiscardWholeOnly(h) ==
  /\ pc[h] = "judging"
  /\ ~(hand[h].file.whole /\ Alive(hand[h].pid))
  /\ pc' = [pc EXCEPT ![h] = IF hand[h].file.whole THEN "removing" ELSE "scanning"]
  /\ UNCHANGED <<servers, files, scan, chosen, peer, ghosts>>

\* Half-written or of another format, or its process is not alive.
Discard(h) ==
  /\ pc[h] = "judging"
  /\ ~(hand[h].file.whole /\ Alive(hand[h].pid))
  /\ pc' = [pc EXCEPT ![h] = "removing"]
  /\ UNCHANGED <<servers, files, scan, chosen, peer, ghosts>>

\* remove_file: whatever the file has in it by now.
Remove(h) ==
  /\ pc[h] = "removing"
  /\ files' = [files EXCEPT ![hand[h].pid] = NoFile]
  /\ hand' = [hand EXCEPT ![h] = Empty]
  /\ pc' = [pc EXCEPT ![h] = "scanning"]
  /\ UNCHANGED <<servers, todo, found, chosen, peer, ghosts>>

-----------------------------------------------------------------------------
(* pick_record and McpClient::connect *)

SameSession(h) == {t \in found[h] : born[t].sid = h}
ChildrenOf(h, i) == {t \in found[h] : born[t].parent = Chain[h][i]}

\* Mutant: the chain is walked from the far end.
FarthestKin(h) ==
  LET kin == {i \in DOMAIN Chain[h] : ChildrenOf(h, i) # {}}
  IN IF kin = {} THEN {} ELSE ChildrenOf(h, Max(kin))

NearestKin(h) ==
  UNION {ChildrenOf(h, i) : i \in {i \in DOMAIN Chain[h] :
                                     \A j \in 1..(i - 1) : ChildrenOf(h, j) = {}}}

LastResort(h) == IF Cardinality(found[h]) = 1 THEN found[h] ELSE {}

\* The records pick_record may return (the first in directory order), for a hook
\* that knows its session id or does not.
Candidates(h, known) ==
  IF known /\ SameSession(h) # {} THEN SameSession(h)
  ELSE IF NearestKin(h) # {} THEN NearestKin(h)
  ELSE LastResort(h)

\* Mutant: the default record when there is no match.
PickDefault(h) ==
  /\ pc[h] = "scanning" /\ todo[h] = {}
  /\ chosen' \in {[chosen EXCEPT ![h] = t] : t \in Candidates(h, TRUE) \cup {0}}
  /\ pc' = [pc EXCEPT ![h] = "picked"]
  /\ UNCHANGED <<servers, files, scan, peer, ghosts>>

Pick(h) ==
  /\ pc[h] = "scanning" /\ todo[h] = {}
  /\ \E known \in BOOLEAN : \E t \in Candidates(h, known) :
       chosen' = [chosen EXCEPT ![h] = t]
  /\ pc' = [pc EXCEPT ![h] = "picked"]
  /\ UNCHANGED <<servers, files, scan, peer, ghosts>>

NoMatch(h) ==
  /\ pc[h] = "scanning" /\ todo[h] = {}
  /\ \E known \in BOOLEAN : Candidates(h, known) = {}
  /\ pc' = [pc EXCEPT ![h] = "unmatched"]
  /\ UNCHANGED <<servers, files, scan, chosen, peer, ghosts>>

\* Mutant: any token will do.
AnyToken(t, p) == t \in Tokens

\* consume_auth_line: the token is that of the server behind the pipe.
Authenticates(t, p) == holder[p] = t

\* The pipe of the record's pid, served by that pid, accepts the record's token.
Connect(h) ==
  LET p == born[chosen[h]].pid
  IN /\ pc[h] = "picked"
     /\ phase[p] = "listening"
     /\ Authenticates(chosen[h], p)
     /\ peer' = [peer EXCEPT ![h] = holder[p]]
     /\ pc' = [pc EXCEPT ![h] = "connected"]
     /\ UNCHANGED <<servers, files, scan, chosen, ghosts>>

\* No such pipe, busy for too long, rejected, broken - or done.
Leave(h) ==
  /\ pc[h] \in {"picked", "unmatched", "connected"}
  /\ pc' = [pc EXCEPT ![h] = "idle"]
  /\ todo' = [todo EXCEPT ![h] = {}]
  /\ hand' = [hand EXCEPT ![h] = Empty]
  /\ found' = [found EXCEPT ![h] = {}]
  /\ chosen' = [chosen EXCEPT ![h] = 0]
  /\ peer' = [peer EXCEPT ![h] = 0]
  /\ owed' = [owed EXCEPT ![h] = {}]
  /\ gone' = [gone EXCEPT ![h] = {}]
  /\ UNCHANGED <<servers, files>>

-----------------------------------------------------------------------------
Process(p) ==
  \/ \E s \in Sessions : \E parent \in Parents(s), sid \in Ids(s) :
       StartServer(p, s, parent, sid)
  \/ OtherStarts(p) \/ OtherEnds(p) \/ Exit(p) \/ Kill(p)
  \/ OpenFile(p) \/ FinishFile(p) \/ WriteFails(p) \/ Claim(p) \/ ClaimFails(p)

Hook(h) ==
  \/ Begin(h) \/ (\E p \in Pids : ReadEntry(h, p))
  \/ Keep(h) \/ Discard(h) \/ Remove(h)
  \/ Pick(h) \/ NoMatch(h) \/ Connect(h) \/ Leave(h)

Next == (\E p \in Pids : Process(p)) \/ (\E h \in Hooks : Hook(h))

Spec == Init /\ [][Next]_vars

-----------------------------------------------------------------------------
(* Properties *)

Servers == [pid : Pids, session : Sessions,
            parent : Sessions \cup {Nobody}, sid : Sessions \cup {Nobody}]
Files == {NoFile} \cup [token : Tokens, whole : BOOLEAN]

TypeOK ==
  /\ born \in Seq(Servers)
  /\ holder \in [Pids -> Tokens \cup {0}]
  /\ phase \in [Pids -> Phases]
  /\ others \subseteq Pids
  /\ files \in [Pids -> Files]
  /\ pc \in [Hooks -> Locations]
  /\ todo \in [Hooks -> SUBSET Pids]
  /\ hand \in [Hooks -> [pid : Pids \cup {Nobody}, file : Files]]
  /\ \A h \in Hooks : pc[h] \in {"judging", "removing"} => hand[h].pid \in Pids
  /\ found \in [Hooks -> SUBSET Tokens]
  /\ chosen \in [Hooks -> Tokens \cup {0}]
  /\ \A h \in Hooks : pc[h] \in {"picked", "connected"} => chosen[h] \in found[h]
  /\ peer \in [Hooks -> Tokens \cup {0}]
  /\ owed \in [Hooks -> SUBSET Tokens]
  /\ gone \in [Hooks -> SUBSET Pids]

Kin(h) == {Chain[h][i] : i \in DOMAIN Chain[h]}

\* A hook never talks to the server of a session that is not its own or one it
\* runs in, save to the one whose record is the only one it found: not when the
\* pid of its server is used again, by a server of another session, between the
\* reading of the file and the connection.
StrangersOnlyAlone ==
  \A h \in Hooks : pc[h] = "connected" =>
    born[peer[h]].session \in Kin(h) \/ found[h] = {peer[h]}

\* A hook whose session has a server that is listening under a whole record, and
\* that wrote the pid of its Claude, picks a server of its session, also in a
\* session started inside another one, and whatever the other hooks remove.
OwnServerFound ==
  \A h \in Hooks :
    pc[h] \in {"picked", "unmatched"}
    /\ (\E t \in owed[h] : Findable(t))
      => pc[h] = "picked" /\ born[chosen[h]].session = h

\* When a scan is over there is no file left, whole or not, of a process that
\* was not running during the scan: stale files do not pile up.
StaleIsGone ==
  \A h \in Hooks : pc[h] \in {"picked", "unmatched"} =>
    \A p \in gone[h] : files[p] = NoFile

\* As discovery.rs has it (dead processes' files are removed, half-written ones
\* "skipped silently"): a listening server has its record.
LiveRecordKept ==
  \A p \in Pids : phase[p] = "listening" => files[p] = Whole(holder[p])
=============================================================================
