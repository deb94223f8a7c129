\* Chunks of three bytes; two messages of a user; two chats and two aliases.  A
\* response that is split and a question that is answered are done with.
SPECIFICATION Spec
CONSTANTS
  Responses <- SmallResponses
  MaxBytes = 3
  QuestionSets <- SmallQuestions
  Messages <- SmallMessages
  MediaOnly = MediaOnly
  MaxMessages = 2
  ChatIds = {chat1, chat2}
  Names = {me, team}
  Anyone = Anyone
  Configs <- SmallConfigs
INVARIANTS NothingLost AnswerIsWhatWasTyped SettingsHold
PROPERTIES SplittingEnds
CHECK_DEADLOCK FALSE
