----------------------------- MODULE PipeServer -----------------------------
(***************************************************************************)
(* The accept loop of a server's named pipe (run_pipe_server), the task    *)
(* that authenticates each connection, and the clients: hooks that open    *)
(* the pipe with a few retries, present the token of a discovery record    *)
(* and wait to be served (McpClient::connect).                             *)
(*                                                                         *)
(* A pipe has instances.  The server offers one at a time; a client opens  *)
(* the one on offer, which is possible from its creation on, before the    *)
(* server waits for a connection.  While there are instances, but none on  *)
(* offer, opening fails as busy; while there is none, as not found.        *)
(***************************************************************************)
EXTENDS Naturals, FiniteSets

CONSTANTS
  Processes,    \* those that serve a pipe
  Clients,
  Honest,       \* clients whose record has the token of the server they open
  Nowhere,      \* no process
  MaxTries      \* PIPE_OPEN_RETRIES

ASSUME HonestAssumption == Honest \subseteq Clients
ASSUME NowhereAssumption == Nowhere \notin Processes
ASSUME TriesAssumption == MaxTries \in Nat \ {0}

VARIABLES
  loop,       \* where the accept loop of each process is
  claimed,    \* it has created its first instance
  failures,   \* consecutive_failures, up to the 5 that backoff_sleep tells apart
  offer,      \* who has opened the instance on offer, if there is one
  serving,    \* connections handed to a task, and what the task is doing
  client,     \* where each client is
  target,     \* the process whose pipe it opens
  tries,      \* how many times it has found that pipe busy
  said        \* what it has written: nothing, the right token, or something else

pipeVars == <<loop, claimed, failures, offer, serving, client, target, tries, said>>

NoOffer == [there |-> FALSE, by |-> {}]
Vacant == [there |-> TRUE, by |-> {}]
Taken(c) == [there |-> TRUE, by |-> {c}]

Loops == {"off", "building", "connecting", "pausing", "returned"}
Places == {"away", "opening", "connected", "served", "refused"}
Tasks == {"none", "authenticating", "handling"}

PipeInit ==
  /\ loop = [p \in Processes |-> "off"]
  /\ claimed = [p \in Processes |-> FALSE]
  /\ failures = [p \in Processes |-> 0]
  /\ offer = [p \in Processes |-> NoOffer]
  /\ serving = [c \in Clients |-> "none"]
  /\ client = [c \in Clients |-> "away"]
  /\ target = [c \in Clients |-> Nowhere]
  /\ tries = [c \in Clients |-> 0]
  /\ said = [c \in Clients |-> "nothing"]

clientVars == <<client, target, tries, said>>

-----------------------------------------------------------------------------
(* The accept loop *)

\* discovery::write, then the loop: the record is there before the pipe is.
Publish(p) ==
  /\ loop[p] = "off"
  /\ loop' = [loop EXCEPT ![p] = "building"]
  /\ UNCHANGED <<claimed, failures, offer, serving, clientVars>>

\* create_instance succeeds.
Build(p) ==
  /\ loop[p] = "building"
  /\ loop' = [loop EXCEPT ![p] = "connecting"]
  /\ claimed' = [claimed EXCEPT ![p] = TRUE]
  /\ failures' = [failures EXCEPT ![p] = 0]
  /\ offer' = [offer EXCEPT ![p] = Vacant]
  /\ UNCHANGED <<serving, clientVars>>

OneMore(n) == IF n = 5 THEN 5 ELSE n + 1

\* backoff_sleep, once the failure is counted: (1 << n.min(5)).min(30) seconds, so
\* that the first pause is of 2, not of the 1 that its comment says.
Seconds(n) == <<1, 2, 4, 8, 16, 30>>[n + 1]

\* The first instance must succeed: the name is somebody else's.  Later on the
\* loop backs off and tries again.
BuildFails(p) ==
  /\ loop[p] = "building"
  /\ loop' = [loop EXCEPT ![p] = IF claimed[p] THEN "pausing" ELSE "returned"]
  /\ failures' = [failures EXCEPT ![p] = IF claimed[p] THEN OneMore(@) ELSE @]
  /\ UNCHANGED <<claimed, offer, serving, clientVars>>

\* Mutant: the connection is authenticated in the loop itself.
AcceptInLoop(p) ==
  /\ loop[p] = "connecting"
  /\ \E c \in offer[p].by :
       /\ client[c] = "connected" => said[c] # "nothing"
       /\ serving' = [serving EXCEPT ![c] = "authenticating"]
  /\ loop' = [loop EXCEPT ![p] = "building"]
  /\ failures' = [failures EXCEPT ![p] = 0]
  /\ offer' = [offer EXCEPT ![p] = NoOffer]
  /\ UNCHANGED <<claimed, clientVars>>

\* connect() returns and a task gets the instance; its client may have left.
Accept(p) ==
  /\ loop[p] = "connecting"
  /\ \E c \in offer[p].by : serving' = [serving EXCEPT ![c] = "authenticating"]
  /\ loop' = [loop EXCEPT ![p] = "building"]
  /\ failures' = [failures EXCEPT ![p] = 0]
  /\ offer' = [offer EXCEPT ![p] = NoOffer]
  /\ UNCHANGED <<claimed, clientVars>>

\* The instance lives on through the pause, and may be opened meanwhile.
ConnectFails(p) ==
  /\ loop[p] = "connecting"
  /\ loop' = [loop EXCEPT ![p] = "pausing"]
  /\ failures' = [failures EXCEPT ![p] = OneMore(@)]
  /\ UNCHANGED <<claimed, offer, serving, clientVars>>

\* End of backoff_sleep.  An instance that is still there is dropped.
Wake(p) ==
  /\ loop[p] = "pausing"
  /\ loop' = [loop EXCEPT ![p] = "building"]
  /\ offer' = [offer EXCEPT ![p] = NoOffer]
  /\ UNCHANGED <<claimed, failures, serving, clientVars>>

-----------------------------------------------------------------------------
(* The task of a connection: consume_auth_line and the handler *)

\* The pipe of client c is open at its far end.
Linked(c) == serving[c] # "none" \/ \E p \in Processes : c \in offer[p].by

Admit(c) ==
  /\ serving[c] = "authenticating" /\ client[c] = "connected"
  /\ said[c] = "token"
  /\ serving' = [serving EXCEPT ![c] = "handling"]
  /\ UNCHANGED <<loop, claimed, failures, offer, clientVars>>

\* Eof, malformed or too long, the wrong token; or the client of a served
\* connection is gone.  The instance is closed.
Drop(c) ==
  /\ serving[c] # "none"
  /\ \/ client[c] \notin {"connected", "served"}
     \/ serving[c] = "authenticating" /\ said[c] = "other"
  /\ serving' = [serving EXCEPT ![c] = "none"]
  /\ UNCHANGED <<loop, claimed, failures, offer, clientVars>>

-----------------------------------------------------------------------------
(* Clients *)

\* A hook has picked a record (one client is one hook at a time: it comes again
\* when nothing is left of its last connection).
Choose(c, p) ==
  /\ client[c] = "away" /\ ~Linked(c)
  /\ loop[p] \notin {"off", "returned"}
  /\ client' = [client EXCEPT ![c] = "opening"]
  /\ target' = [target EXCEPT ![c] = p]
  /\ UNCHANGED <<loop, claimed, failures, offer, serving, tries, said>>

\* ClientOptions::open.
Open(c) ==
  /\ client[c] = "opening"
  /\ offer[target[c]] = Vacant
  /\ offer' = [offer EXCEPT ![target[c]] = Taken(c)]
  /\ client' = [client EXCEPT ![c] = "connected"]
  /\ UNCHANGED <<loop, claimed, failures, serving, target, tries, said>>

\* There are instances of p's pipe: on offer, or with an end that is open.
Instances(p) ==
  \/ offer[p].there
  \/ \E c \in Clients :
       target[c] = p /\ (serving[c] # "none" \/ client[c] \in {"connected", "served"})

\* Mutant: the last retry is one too many.
BusyOnceMore(c) ==
  /\ client[c] = "opening"
  /\ offer[target[c]] # Vacant /\ Instances(target[c])
  /\ tries' = [tries EXCEPT ![c] = @ + 1]
  /\ client' = [client EXCEPT ![c] = IF tries[c] = MaxTries THEN "refused" ELSE @]
  /\ UNCHANGED <<loop, claimed, failures, offer, serving, target, said>>

\* ERROR_PIPE_BUSY: once more, after a while, or never again.
Busy(c) ==
  /\ client[c] = "opening"
  /\ offer[target[c]] # Vacant /\ Instances(target[c])
  /\ tries' = [tries EXCEPT ![c] = @ + 1]
  /\ client' = [client EXCEPT ![c] = IF tries[c] + 1 = MaxTries THEN "refused" ELSE @]
  /\ UNCHANGED <<loop, claimed, failures, offer, serving, target, said>>

\* Any other error ends the hook.
NotFound(c) ==
  /\ client[c] = "opening"
  /\ ~Instances(target[c])
  /\ client' = [client EXCEPT ![c] = "refused"]
  /\ UNCHANGED <<loop, claimed, failures, offer, serving, target, tries, said>>

\* The AUTH line and the request to initialize.
Speak(c) ==
  /\ client[c] = "connected" /\ said[c] = "nothing" /\ Linked(c)
  /\ said' = [said EXCEPT ![c] = IF c \in Honest THEN "token" ELSE "other"]
  /\ UNCHANGED <<loop, claimed, failures, offer, serving, client, target, tries>>

\* The handler has answered.
Served(c) ==
  /\ client[c] = "connected" /\ serving[c] = "handling"
  /\ client' = [client EXCEPT ![c] = "served"]
  /\ UNCHANGED <<loop, claimed, failures, offer, serving, target, tries, said>>

\* The far end is closed: the next write or read fails.
Broken(c) ==
  /\ client[c] \in {"connected", "served"} /\ ~Linked(c)
  /\ client' = [client EXCEPT ![c] = "refused"]
  /\ UNCHANGED <<loop, claimed, failures, offer, serving, target, tries, said>>

\* The hook ends, by itself or killed.
Quit(c) ==
  /\ client[c] \in {"connected", "served", "refused"}
  /\ client' = [client EXCEPT ![c] = "away"]
  /\ tries' = [tries EXCEPT ![c] = 0]
  /\ said' = [said EXCEPT ![c] = "nothing"]
  /\ UNCHANGED <<loop, claimed, failures, offer, serving, target>>

-----------------------------------------------------------------------------
\* The process is gone and its instances with it.
Collapse(p) ==
  /\ loop' = [loop EXCEPT ![p] = "off"]
  /\ claimed' = [claimed EXCEPT ![p] = FALSE]
  /\ failures' = [failures EXCEPT ![p] = 0]
  /\ offer' = [offer EXCEPT ![p] = NoOffer]
  /\ serving' = [c \in Clients |-> IF target[c] = p THEN "none" ELSE serving[c]]
  /\ UNCHANGED clientVars

Accepting(p) == Publish(p) \/ Build(p) \/ Accept(p) \/ Wake(p)
Connection(c) == Admit(c) \/ Drop(c)
Connecting(c) == Open(c) \/ Busy(c) \/ NotFound(c) \/ Speak(c) \/ Served(c) \/ Broken(c)
=============================================================================
