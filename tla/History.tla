------------------------------ MODULE History ------------------------------
(***************************************************************************)
(* The history store (store.rs): the messages table with its external-     *)
(* content FTS5 index, the chats table, and the unread baselines in kv.    *)
(* Every operation runs under the connection's mutex and is one SQLite     *)
(* transaction or one statement, hence one action; the two trims are two   *)
(* statements outside a transaction, hence two actions, between which the  *)
(* process may die and other processes on the same file may write.         *)
(*                                                                         *)
(* A message is a pair <<chat, message_id>>; ids follow dates, so that the *)
(* id stands for the date too.  A text is one searchable word or NoText    *)
(* (NULL).  Whoever stores a message says its direction, which is stored   *)
(* over the old one: an updater stores the bot's own channel post as       *)
(* inbound when it is edited, a tool any message it edits as outbound.     *)
(* A client (the LLM behind tg_history_messages) pages one chat backwards, *)
(* newest first, while all this goes on.                                   *)
(***************************************************************************)
EXTENDS Naturals, FiniteSets, FiniteSetsExt

CONSTANTS
  Chats, Ids, Texts,
  NoText,       \* the text column is NULL
  None,         \* an absent row, limit or chat
  Cutoffs,      \* max_age cutoffs that retention is called with
  Keeps,        \* per-chat limits that retention is called with
  ReadMarks,    \* ids that mark_read is called with
  PagedChats,   \* chats the client pages through
  PageLimit,    \* rows per page (LIMIT of messages)
  SearchLimit,  \* hits per answer (LIMIT 100 of search)
  MaxRowid      \* bound on the rowids SQLite hands out

ASSUME IdsAssumption == Ids \subseteq Nat \ {0} /\ IsFiniteSet(Ids)
ASSUME InputsAssumption ==
  /\ PagedChats \subseteq Chats
  /\ ReadMarks \subseteq Ids \cup {0}
  /\ Cutoffs \subseteq Nat /\ Keeps \subseteq Nat
ASSUME TextAssumption == NoText \notin Texts
ASSUME NoneAssumption ==
  /\ None \notin Chats /\ None \notin Ids \cup {0}
  /\ None \notin [rowid : 1..MaxRowid, text : Texts \cup {NoText}, dir : {"in", "out"}]
  /\ None \notin [first : Ids, last : Ids]
ASSUME LimitAssumption ==
  PageLimit \in Nat \ {0} /\ SearchLimit \in Nat \ {0} /\ MaxRowid \in Nat \ {0}

VARIABLES
  rows,       \* rows[<<chat, id>>]: [rowid, text, dir], or None
  fts,        \* what messages_fts has indexed: pairs <<rowid, text>>
  chats,      \* chats[c]: [first_seen, last_seen], or None
  baseline,   \* kv["last_unread_baseline:c"], 0 when absent
  trimming,   \* a trim is between its DELETE and its rebuild
  stale,      \* history: a trim has deleted rows and no rebuild has followed
  pager       \* the paging client: chat, cursor, ids it owes and has got

vars == <<rows, fts, chats, baseline, trimming, stale, pager>>

Keys == Chats \X Ids
Date(i) == i

Present == {k \in Keys : rows[k] # None}
IdsIn(c) == {i \in Ids : rows[<<c, i>>] # None}

\* Mutant: a NULL text is indexed too.
EntryOfNull(r) == {<<r.rowid, r.text>>}

\* What the index holds of a row: nothing for a NULL text.
Entry(r) == IF r.text = NoText THEN {} ELSE {<<r.rowid, r.text>>}
IndexOf(table) == UNION {Entry(table[k]) : k \in {x \in Keys : table[x] # None}}

IdlePager == [chat |-> None, cursor |-> 0, owed |-> {}, got |-> {}]

Init ==
  /\ rows = [k \in Keys |-> None]
  /\ fts = {}
  /\ chats = [c \in Chats |-> None]
  /\ baseline = [c \in Chats |-> 0]
  /\ trimming = FALSE
  /\ stale = FALSE
  /\ pager = IdlePager

-----------------------------------------------------------------------------
(* Writing *)

\* upsert_chat_sync: first_seen survives, everything else is overwritten.
Upserted(c, date) ==
  [first |-> IF chats[c] = None THEN date ELSE chats[c].first, last |-> date]

\* An overwritten row keeps its rowid; a new one gets the highest in use plus 1.
RowidFor(k) ==
  IF rows[k] # None THEN rows[k].rowid
  ELSE IF Present = {} THEN 1 ELSE Max({rows[x].rowid : x \in Present}) + 1

\* Mutant: the old text is un-indexed last.
WriteThenUnindex(k, text, dir) ==
  LET row == [rowid |-> RowidFor(k), text |-> text, dir |-> dir]
      old == IF rows[k] = None THEN {} ELSE Entry(rows[k])
  IN /\ row.rowid <= MaxRowid
     /\ rows' = [rows EXCEPT ![k] = row]
     /\ fts' = (fts \cup Entry(row)) \ old

\* insert_message_sync: un-index the old text, overwrite the row,
\* its direction too, index the new text.
WriteMessage(k, text, dir) ==
  LET row == [rowid |-> RowidFor(k), text |-> text, dir |-> dir]
      old == IF rows[k] = None THEN {} ELSE Entry(rows[k])
  IN /\ row.rowid <= MaxRowid
     /\ rows' = [rows EXCEPT ![k] = row]
     /\ fts' = (fts \ old) \cup Entry(row)

\* Mutant: the chat row is only touched, as an outbound send does.
RecordInboundTouching(c, i, text) ==
  /\ chats' = IF chats[c] = None THEN chats ELSE [chats EXCEPT ![c].last = Date(i)]
  /\ WriteMessage(<<c, i>>, text, "in")
  /\ UNCHANGED <<baseline, trimming, stale, pager>>

\* record_inbound: whatever the updater is told of is inbound to it.
RecordInbound(c, i, text) ==
  /\ chats' = [chats EXCEPT ![c] = Upserted(c, Date(i))]
  /\ WriteMessage(<<c, i>>, text, "in")
  /\ UNCHANGED <<baseline, trimming, stale, pager>>

\* insert_message, whose caller mirrors what the bot sent, forwarded or edited.
InsertMessage(c, i, text) ==
  /\ WriteMessage(<<c, i>>, text, "out")
  /\ UNCHANGED <<chats, baseline, trimming, stale, pager>>

\* An UPDATE, with the date of the mirrored message: a chat without a row gets none.
TouchChatLastSeen(c, date) ==
  /\ chats[c] # None
  /\ chats' = [chats EXCEPT ![c].last = date]
  /\ UNCHANGED <<rows, fts, baseline, trimming, stale, pager>>

\* kv_put: the baseline becomes what the caller says, lower or higher.
MarkRead(c, i) ==
  /\ baseline' = [baseline EXCEPT ![c] = i]
  /\ UNCHANGED <<rows, fts, chats, trimming, stale, pager>>

-----------------------------------------------------------------------------
(* Retention *)

OlderThan(cutoff) ==
  IF cutoff = None THEN {} ELSE {k \in Present : Date(k[2]) < cutoff}

\* Rows of `left' past the keep newest of their chat (ROW_NUMBER() > keep).
Overflow(left, keep) ==
  IF keep = None THEN {}
  ELSE {k \in left : Cardinality({x \in left : x[1] = k[1] /\ x[2] >= k[2]}) > keep}

Without(gone) == [k \in Keys |-> IF k \in gone THEN None ELSE rows[k]]

\* The client is owed a message only while its row is there.
Owed(gone) == {i \in pager.owed : <<pager.chat, i>> \notin gone}

\* Mutant: rebuilds for aged-out rows only.
EnforceRetentionAgedOnly(cutoff, keep) ==
  LET aged == OlderThan(cutoff)
      gone == aged \cup Overflow(Present \ aged, keep)
  IN /\ rows' = Without(gone)
     /\ fts' = IF aged = {} THEN fts ELSE IndexOf(rows')
     /\ stale' = (stale /\ aged = {})
     /\ pager' = [pager EXCEPT !.owed = Owed(gone)]
     /\ UNCHANGED <<chats, baseline, trimming>>

\* enforce_retention: age, then overflow of what is left, then a rebuild if
\* anything was deleted, in one transaction.
EnforceRetention(cutoff, keep) ==
  LET aged == OlderThan(cutoff)
      gone == aged \cup Overflow(Present \ aged, keep)
  IN /\ rows' = Without(gone)
     /\ fts' = IF gone = {} THEN fts ELSE IndexOf(rows')
     /\ stale' = (stale /\ gone = {})
     /\ pager' = [pager EXCEPT !.owed = Owed(gone)]
     /\ UNCHANGED <<chats, baseline, trimming>>

\* trim_older_than and trim_per_chat_to, which the store offers and main does not
\* call: the DELETE commits on its own ...
TrimDelete(gone) ==
  /\ ~trimming
  /\ trimming' = TRUE
  /\ rows' = Without(gone)
  /\ stale' = (stale \/ gone # {})
  /\ pager' = [pager EXCEPT !.owed = Owed(gone)]
  /\ UNCHANGED <<fts, chats, baseline>>

TrimOlderThan(cutoff) == TrimDelete(OlderThan(cutoff))
TrimPerChatTo(keep) == TrimDelete(Overflow(Present, keep))

\* ... and so does the rebuild,
RebuildFts ==
  /\ trimming
  /\ trimming' = FALSE
  /\ stale' = FALSE
  /\ fts' = IndexOf(rows)
  /\ UNCHANGED <<rows, chats, baseline, pager>>

\* unless it fails or the process dies first.
TrimInterrupted ==
  /\ trimming
  /\ trimming' = FALSE
  /\ UNCHANGED <<rows, fts, chats, baseline, stale, pager>>

-----------------------------------------------------------------------------
(* Reading *)

\* Mutant: ORDER BY message_id ASC.
Oldest(S, n) == {i \in S : Cardinality({x \in S : x <= i}) <= n}

Newest(S, n) == {i \in S : Cardinality({x \in S : x >= i}) <= n}

\* messages(c, before, after, limit); 0 and None stand for an absent cursor.
Page(c, before, after, limit) ==
  Newest({i \in IdsIn(c) : (before = None \/ i < before) /\ i > after}, limit)

\* search joins the index entries that match to the rows by rowid ...
Matching(word) == {k \in Present : <<rows[k].rowid, word>> \in fts}

\* ... and answers with the newest of them, in any order of equal dates.
Answers(word) ==
  {hits \in SUBSET Matching(word) :
     /\ Cardinality(hits) <= SearchLimit
     /\ \A k \in Matching(word) \ hits :
          /\ Cardinality(hits) = SearchLimit
          /\ \A h \in hits : Date(h[2]) >= Date(k[2])}

\* Mutant: the bot's own messages count as unread.
UnreadBothWays(c) == {i \in IdsIn(c) : i > baseline[c]}

\* list_chats counts the inbound messages above the baseline: these.
UnreadIds(c) == {i \in IdsIn(c) : rows[<<c, i>>].dir = "in" /\ i > baseline[c]}

\* A client asks for the newest page and follows before_message_id until a page
\* comes back empty.
StartPaging(c) ==
  LET page == Page(c, None, 0, PageLimit)
  IN /\ pager.chat = None
     /\ page # {}
     /\ pager' = [chat |-> c, cursor |-> Min(page), owed |-> IdsIn(c), got |-> page]
     /\ UNCHANGED <<rows, fts, chats, baseline, trimming, stale>>

NextPage ==
  LET page == Page(pager.chat, pager.cursor, 0, PageLimit)
  IN /\ pager.chat # None
     /\ pager' = IF page = {}
                 THEN IdlePager
                 ELSE [pager EXCEPT !.cursor = Min(page), !.got = @ \cup page]
     /\ UNCHANGED <<rows, fts, chats, baseline, trimming, stale>>

-----------------------------------------------------------------------------
Write ==
  \E c \in Chats, i \in Ids :
    \/ \E text \in Texts \cup {NoText} :
         RecordInbound(c, i, text) \/ InsertMessage(c, i, text)
    \/ TouchChatLastSeen(c, Date(i))
    \/ \E mark \in ReadMarks : MarkRead(c, mark)

Retention ==
  \/ \E cutoff \in Cutoffs \cup {None}, keep \in Keeps \cup {None} :
       EnforceRetention(cutoff, keep)
  \/ \E cutoff \in Cutoffs : TrimOlderThan(cutoff)
  \/ \E keep \in Keeps : TrimPerChatTo(keep)
  \/ RebuildFts
  \/ TrimInterrupted

Read == (\E c \in PagedChats : StartPaging(c)) \/ NextPage

Next == Write \/ Retention \/ Read

Spec == Init /\ [][Next]_vars

-----------------------------------------------------------------------------
(* Properties *)

TypeOK ==
  /\ rows \in [Keys -> [rowid : 1..MaxRowid, text : Texts \cup {NoText},
                        dir : {"in", "out"}] \cup {None}]
  /\ fts \subseteq (1..MaxRowid) \X Texts
  /\ chats \in [Chats -> [first : Ids, last : Ids] \cup {None}]
  /\ baseline \in [Chats -> Ids \cup {0}]
  /\ trimming \in BOOLEAN /\ stale \in BOOLEAN
  /\ pager \in [chat : Chats \cup {None}, cursor : Ids \cup {0},
                owed : SUBSET Ids, got : SUBSET Ids]

\* Two rows never share a rowid, or search would join the wrong one.
RowidsDistinct ==
  \A k, x \in Present : rows[k].rowid = rows[x].rowid => k = x

\* The index is exactly that of the table ("so a crash can't leave the index
\* out of step with `messages`"), save after the DELETE of a trim whose rebuild
\* has not run; the next retention that deletes anything heals it.
IndexInStep == ~stale => fts = IndexOf(rows)

\* Both: save for an interrupted trim, an entry of the index is that of one row, and
\* has its text.
SearchJoinsItsRow == RowidsDistinct /\ IndexInStep

\* Even then, though a deleted row's entry lingers and its rowid is handed out
\* again, search ("up to 100 hits ordered newest-first") overlooks no stored text: its
\* row is in every answer that is not full of rows at least as new.
SearchFindsTheNewest ==
  \A k \in Present : rows[k].text # NoText =>
    \A hits \in Answers(rows[k].text) :
      \/ k \in hits
      \/ /\ Cardinality(hits) = SearchLimit
         /\ \A h \in hits : Date(h[2]) >= Date(k[2])

\* record_inbound is one transaction: an inbound message always has its chat.
InboundHasChat ==
  \A k \in Present : rows[k].dir = "in" => chats[k[1]] # None

\* Paging backwards with the exclusive before_message_id cursor returns every
\* message that was there at the start and still is, and none of them twice, though
\* messages arrive, are edited and are deleted between the pages.
PagingMissesNothing ==
  pager.chat # None =>
    /\ \A i \in pager.owed : i >= pager.cursor => i \in pager.got
    /\ Page(pager.chat, pager.cursor, 0, PageLimit) \cap pager.got = {}

\* The caller moves the baseline back, over the messages that are unread again.
UnreadAgain(c, new) ==
  /\ baseline'[c] < baseline[c] /\ rows' = rows
  /\ \A i \in new : i <= baseline[c]

\* An updater records one message, which the history did not have, or had as one the
\* bot sent or edited; the chat is dated by it.
UnreadByInbound(c, new) ==
  /\ UNCHANGED baseline
  /\ \E i \in new :
       /\ new = {i}
       /\ rows[<<c, i>>] = None \/ rows[<<c, i>>].dir = "out"
       /\ chats'[c] # None /\ chats'[c].last = Date(i)

\* A message becomes unread in these two ways only.  Retention, edits of inbound
\* messages and outbound traffic never make one unread, in no chat.
UnreadGrowsOnlyByInbound ==
  [][ \A c \in Chats :
        LET new == UnreadIds(c)' \ UnreadIds(c)
        IN new = {} \/ UnreadAgain(c, new) \/ UnreadByInbound(c, new) ]_vars

=============================================================================
