\* Two sessions in one chat, each asking several times.
SPECIFICATION LiveSpec
CONSTANTS
  Sessions = {h1, h2}
  MaxMessages = 4
  MaxChunks = 2
  PollLimit = 2
  ReleaseOnLocalInput = TRUE
INVARIANTS TypeOK AnswersFollowQuestion NoEarlyReplyIgnored
PROPERTIES HookEnds ImplementsFeed
