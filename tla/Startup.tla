------------------------------ MODULE Startup ------------------------------
(***************************************************************************)
(* The start of TelegramMCP processes (main): each opens the database,     *)
(* migrating it if it is new, and only then serves its pipe; a process     *)
(* whose History::open fails ends.  Processes are killed and started       *)
(* again, SQLite and the pipe fail now and then, and clients come and go.  *)
(***************************************************************************)
EXTENDS Migration, PipeServer

CONSTANTS
  MaxMishaps,   \* bound on kills and on failures of SQLite and of the pipe
  MaxVisits     \* bound on the connections of the clients that are not honest

ASSUME SameProcesses == Processes = Servers
ASSUME StartupBounds == MaxMishaps \in Nat /\ MaxVisits \in Nat

VARIABLES mishaps, visits

vars == <<migrationVars, pipeVars, mishaps, visits>>

Init == MigrationInit /\ PipeInit /\ mishaps = 0 /\ visits = 0

-----------------------------------------------------------------------------
Mishap == mishaps < MaxMishaps /\ mishaps' = mishaps + 1 /\ UNCHANGED visits
Ordinary == UNCHANGED <<mishaps, visits>>

\* main up to History::open, or a part of it that goes wrong.
OpenStore(s) == Migrate(s) /\ Ordinary /\ UNCHANGED pipeVars

OpenStoreFails(s) ==
  /\ MisreadVersion(s) \/ LockTimeout(s) \/ OpenFails(s)
  /\ Mishap /\ UNCHANGED pipeVars

\* Mutant: the pipe is served while the database is still being opened.
ServePipeEarly(s) ==
  /\ stage[s] # "down"
  /\ Accepting(s)
  /\ Ordinary /\ UNCHANGED migrationVars

\* tokio::spawn of run_pipe_server, after History::open.
ServePipe(s) ==
  /\ stage[s] = "ready"
  /\ Accepting(s)
  /\ Ordinary /\ UNCHANGED migrationVars

PipeFails(s) ==
  /\ stage[s] = "ready"
  /\ BuildFails(s) \/ ConnectFails(s)
  /\ Mishap /\ UNCHANGED migrationVars

\* main returns an error.
Return(s) ==
  /\ stage[s] \in {"lost", "failed"}
  /\ Ends(s) /\ Collapse(s) /\ Ordinary

Kill(s) == Ends(s) /\ Collapse(s) /\ Mishap

Task(c) == Connection(c) /\ Ordinary /\ UNCHANGED migrationVars

Come(c) ==
  /\ \E s \in Servers : Choose(c, s)
  /\ c \in Honest \/ visits < MaxVisits
  /\ visits' = IF c \in Honest THEN visits ELSE visits + 1
  /\ UNCHANGED <<migrationVars, mishaps>>

Connect(c) == Connecting(c) /\ Ordinary /\ UNCHANGED migrationVars

\* An honest client that goes away before it was served or refused was killed.
Leave(c) ==
  /\ Quit(c) /\ UNCHANGED migrationVars
  /\ IF c \in Honest /\ client[c] = "connected" THEN Mishap ELSE Ordinary

Next ==
  \/ \E s \in Servers :
       OpenStore(s) \/ OpenStoreFails(s) \/ ServePipe(s) \/ PipeFails(s) \/ Return(s) \/ Kill(s)
  \/ \E c \in Clients : Task(c) \/ Come(c) \/ Connect(c) \/ Leave(c)

\* A process goes on while it lives, and whoever needs a server starts one again
\* that is down; an honest client that was refused comes again, as the next hook
\* of its session does.  The other clients may stay silent for ever.
Fairness ==
  /\ \A s \in Servers : WF_vars(OpenStore(s)) /\ WF_vars(ServePipe(s)) /\ WF_vars(Return(s))
  /\ \A c \in Clients : WF_vars(Task(c))
  /\ \A c \in Honest :
       /\ WF_vars(Come(c)) /\ WF_vars(Connect(c))
       /\ WF_vars(client[c] = "refused" /\ Leave(c))

Spec == Init /\ [][Next]_vars /\ Fairness

-----------------------------------------------------------------------------
(* Properties *)

TypeOK ==
  /\ MigrationTypeOK
  /\ loop \in [Processes -> Loops] /\ claimed \in [Processes -> BOOLEAN]
  /\ failures \in [Processes -> 0..5]
  /\ offer \in [Processes -> {NoOffer, Vacant} \cup {Taken(c) : c \in Clients}]
  /\ serving \in [Clients -> Tasks] /\ client \in [Clients -> Places]
  /\ target \in [Clients -> Processes \cup {Nowhere}]
  /\ tries \in [Clients -> 0..MaxTries]
  /\ said \in [Clients -> {"nothing", "token", "other"}]
  /\ mishaps \in 0..MaxMishaps /\ visits \in 0..MaxVisits

\* The tools that a served client may call find a whole schema: no process
\* serves from a database that is being made.
ServedFromWholeSchema ==
  \A c \in Clients :
    serving[c] = "handling" => stage[target[c]] = "ready" /\ tables = AllTables

\* Started again often enough, every process gets its database open, though all
\* start at once on a new file and some are killed in the middle.
EveryServerUp == \A s \in Servers : []<>(stage[s] = "ready")

\* An honest client that keeps trying is served, again and again, unless every
\* process has lost its pipe for good: neither clients that connect and say
\* nothing nor failures of the accept loop keep it out.
HonestIsServed ==
  \A c \in Honest :
    []<>(client[c] = "served" \/ \A s \in Servers : loop[s] = "returned")

=============================================================================
