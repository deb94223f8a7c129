\* One chat of three messages in either direction, with edits, retention, trims and a
\* client that pages: a text and none, pages and answers of two.
SPECIFICATION Spec
CONSTANTS
  Chats = {c1}
  Ids = {1, 2, 3}
  Texts = {t1}
  NoText = NoText
  None = None
  Cutoffs = {2}
  Keeps = {1}
  ReadMarks = {0, 2}
  PagedChats = {c1}
  PageLimit = 2
  SearchLimit = 2
  MaxRowid = 3
INVARIANTS TypeOK SearchJoinsItsRow SearchFindsTheNewest InboundHasChat PagingMissesNothing
PROPERTIES UnreadGrowsOnlyByInbound
