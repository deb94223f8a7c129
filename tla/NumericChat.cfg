\* The command line of a hook has the id of a chat.
SPECIFICATION Spec
CONSTANTS
  Responses <- SmallResponses
  MaxBytes = 3
  QuestionSets <- SmallQuestions
  Messages <- SmallMessages
  MediaOnly = MediaOnly
  MaxMessages = 2
  ChatIds = {chat1, chat2}
  Names = {me, team}
  Anyone = Anyone
  Configs <- SmallConfigs
INVARIANTS NumericChatWorks
CHECK_DEADLOCK FALSE
