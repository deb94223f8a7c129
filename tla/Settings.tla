------------------------------ MODULE Settings ------------------------------
(***************************************************************************)
(* The configuration of a server: Config::load with validate, the token,   *)
(* the two access lists resolved through the aliases as main starts up,    *)
(* and then the chat of each call (aliases, check_send_allowed).  Calls    *)
(* name a chat by id or by alias; a hook has a command line, and hands on  *)
(* what stands there as a JSON string.                                     *)
(***************************************************************************)
EXTENDS Naturals

CONSTANTS
  ChatIds,
  Names,        \* names of aliases, none of which reads as an id
  Anyone        \* no list: unrestricted

ASSUME AnyoneAssumption == Anyone \notin ChatIds /\ \A list \in SUBSET ChatIds : list # Anyone

VARIABLES
  config,       \* the file, and what of the machine it depends on
  server,       \* how far main is, or how it ended
  sendTargets,  \* allowed_send_targets, resolved
  updaterChats, \* allowed_chats, resolved
  call          \* the last call and what became of it

settingsVars == <<config, server, sendTargets, updaterChats, call>>

ById(c) == [by |-> "id", of |-> c]
ByName(n) == [by |-> "name", of |-> n]
Refs == {ById(c) : c \in ChatIds} \cup {ByName(n) : n \in Names}

ConfigType ==
  [aliases : UNION {[names -> ChatIds] : names \in SUBSET Names},
   sendTo : SUBSET Refs, readFrom : SUBSET Refs,
   pollSecs : Nat, parentExists : BOOLEAN, token : {"env", "inline", "none"},
   variableSet : BOOLEAN, updater : BOOLEAN]

NoCall == [from |-> "nobody", ref |-> ById(Anyone), chat |-> Anyone]
Refused == Anyone

Fresh(c) ==
  /\ config = c /\ server = "starting"
  /\ sendTargets = Anyone /\ updaterChats = Anyone
  /\ call = NoCall

-----------------------------------------------------------------------------
(* Config *)

Known(ref) == ref.by = "name" => ref.of \in DOMAIN config.aliases
IdOf(ref) == IF ref.by = "id" THEN ref.of ELSE config.aliases[ref.of]

\* Mutant: the names of one list are looked at.
ValidateOne ==
  /\ config.pollSecs \in 1..50
  /\ config.parentExists
  /\ \A ref \in config.readFrom : Known(ref)
  /\ config.token # "none"

\* validate
Validate ==
  /\ config.pollSecs \in 1..50
  /\ config.parentExists
  /\ \A ref \in config.readFrom \cup config.sendTo : Known(ref)
  /\ config.token # "none"

\* Config::load
Load ==
  /\ server = "starting"
  /\ server' = IF Validate THEN "loaded" ELSE "rejected"
  /\ UNCHANGED <<config, sendTargets, updaterChats, call>>

\* resolved_token, which has precedence for the variable named.
Token ==
  /\ server = "loaded"
  /\ server' = IF config.token = "inline" \/ config.variableSet THEN "tokened" ELSE "tokenless"
  /\ UNCHANGED <<config, sendTargets, updaterChats, call>>

\* resolve_id_list
Resolvable(list) == \A ref \in list : Known(ref)
Resolved(list) == IF list = {} THEN Anyone ELSE {IdOf(ref) : ref \in list}

ResolveTargets ==
  /\ server = "tokened"
  /\ IF Resolvable(config.sendTo)
     THEN server' = "targeted" /\ sendTargets' = Resolved(config.sendTo)
     ELSE server' = "failed" /\ UNCHANGED sendTargets
  /\ UNCHANGED <<config, updaterChats, call>>

\* Only for an updater.
ResolveChats ==
  /\ server = "targeted"
  /\ IF config.updater /\ ~Resolvable(config.readFrom)
     THEN server' = "failed" /\ UNCHANGED updaterChats
     ELSE /\ server' = "up"
          /\ updaterChats' = IF config.updater THEN Resolved(config.readFrom) ELSE Anyone
  /\ UNCHANGED <<config, sendTargets, call>>

-----------------------------------------------------------------------------
(* Calls *)

\* check_send_allowed
SendAllowed(c) == sendTargets = Anyone \/ c \in sendTargets

\* resolve_chat, then check_send_allowed: the chat the message goes to, or an error.
Target(ref) ==
  IF Known(ref) /\ SendAllowed(IdOf(ref)) THEN IdOf(ref) ELSE Refused

Call(ref) ==
  /\ server = "up"
  /\ call' = [from |-> "claude", ref |-> ref, chat |-> Target(ref)]
  /\ UNCHANGED <<config, server, sendTargets, updaterChats>>

\* send_wakeup with --chat, an id or an alias: a string is a name for ChatRef.
HookCall(ref) ==
  /\ server = "up"
  /\ call' = [from |-> "hook", ref |-> ref, chat |-> Target(ByName(ref.of))]
  /\ UNCHANGED <<config, server, sendTargets, updaterChats>>

Serving ==
  \/ Load \/ Token \/ ResolveTargets \/ ResolveChats
  \/ \E ref \in Refs : Call(ref) \/ HookCall(ref)

-----------------------------------------------------------------------------
(* Properties *)

\* The chats that a list speaks of.
Means(list) ==
  {c \in ChatIds : ById(c) \in list}
    \cup {config.aliases[n] : n \in {m \in DOMAIN config.aliases : ByName(m) \in list}}

\* A configuration that was loaded never stops main later, but for the variable that
\* holds the token, and the server then sends where the file says, by whichever of
\* its names a chat is called: to the chats listed, or to all when none is, and
\* never to one for another.
SettingsHold ==
  /\ server # "failed"
  /\ server = "tokenless" => config.token = "env"
  /\ server = "up" /\ call.from = "claude" =>
       LET meant == Means({call.ref})
           open == IF config.sendTo = {} THEN ChatIds ELSE Means(config.sendTo)
       IN IF call.chat = Refused THEN meant \cap open = {}
          ELSE meant = {call.chat} /\ meant \subseteq open

\* As cli.rs has it ("Alias or numeric chat id to send the wakeup to."): a hook
\* whose --chat is the id of a chat that the server may send to reaches it.
NumericChatWorks ==
  call.from = "hook" /\ call.ref.by = "id" /\ SendAllowed(call.ref.of)
    => call.chat = call.ref.of
=============================================================================
