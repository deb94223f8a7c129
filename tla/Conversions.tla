---------------------------- MODULE Conversions ----------------------------
(***************************************************************************)
(* The parts of the program that turn one thing into another and share no  *)
(* state: the splitting of a response, the answer to a question, and the   *)
(* settings of a server with the chats it resolves.  One of them runs, and *)
(* the others are idle.                                                    *)
(***************************************************************************)
EXTENDS Chunks, Question, Settings

CONSTANTS Configs     \* files, with what validate and main look up

ASSUME ConfigsAssumption == Configs \subseteq ConfigType

Stopped == [aliases |-> <<>>, sendTo |-> {}, readFrom |-> {}, pollSecs |-> 0,
            parentExists |-> FALSE, token |-> "none", variableSet |-> FALSE,
            updater |-> FALSE]

vars == <<chunkVars, questionVars, settingsVars>>

SettingsInit == \E c \in Configs : Fresh(c)
SettingsIdle ==
  /\ config = Stopped /\ server = "rejected"
  /\ sendTargets = Anyone /\ updaterChats = Anyone /\ call = NoCall

Init ==
  \/ ChunksInit /\ QuestionIdle /\ SettingsIdle
  \/ ChunksIdle /\ QuestionInit /\ SettingsIdle
  \/ ChunksIdle /\ QuestionIdle /\ SettingsInit

Next ==
  \/ Split /\ UNCHANGED <<questionVars, settingsVars>>
  \/ Asking /\ UNCHANGED <<chunkVars, settingsVars>>
  \/ Serving /\ UNCHANGED <<chunkVars, questionVars>>

\* split_message waits for nothing.
Spec == Init /\ [][Next]_vars /\ WF_vars(Split /\ UNCHANGED <<questionVars, settingsVars>>)
=============================================================================
