--------------------------- MODULE Summarization ---------------------------
(***************************************************************************)
(* Keeping a conversation inside the model's window:                       *)
(* SummarizationMiddlewareHandle (middlewares/summarization.h), which runs *)
(* before every model call, and the per-thread share store it moves long   *)
(* texts to (middlewares/middleware.h), which the model itself reads and   *)
(* writes by the share_store tool (tools/share_store.h).  A message has a  *)
(* number of its own, so that it can be followed; an assistant message has *)
(* at most one tool call.                                                  *)
(***************************************************************************)
EXTENDS SequencesExt

CONSTANTS
  Paths,            \* the files the tools are called on
  KeepRecent,       \* keepRecentMessageCount (4 in the code)
  MaxMessages,      \* bound of the model: messages the conversation gets
  MaxIds            \* bound of the model: ids of the store

NoPath == "none"
None == 0

VARIABLES
  messages,     \* the "messages" channel of the graph state
  store,        \* the texts of the thread's share store: the message each is of
  nextId,       \* ThreadShareStore::storeId
  history,      \* oldMessagesHistory: the numbers of the messages recorded
  added,        \* messages the conversation has had
  own           \* ids the model has set or deleted itself

vars == <<messages, store, nextId, history, added, own>>

\* text: "short", "long", "offloaded" (the id in its place), "truncated" or
\* "summary".
Message(n, role, tool, path, text) ==
  [n |-> n, role |-> role, tool |-> tool, path |-> path, text |-> text, id |-> None]

Init ==
  /\ messages \in {<<>>, <<Message(1, "system", "none", NoPath, "short")>>}
  /\ store = << >> /\ nextId = 1
  /\ history = {} /\ own = {}
  /\ added = Len(messages)

(***************************************************************************)
(* The conversation grows                                                  *)
(***************************************************************************)
Says(role, tool, path, text) ==
  /\ added < MaxMessages
  /\ messages' = Append(messages, Message(added + 1, role, tool, path, text))
  /\ added' = added + 1
  /\ UNCHANGED <<store, nextId, history, own>>

Waiting == messages # <<>> /\ Last(messages).role = "assistant" /\ Last(messages).tool # "none"

UserSays == ~Waiting /\ \E text \in {"short", "long"} : Says("user", "none", NoPath, text)

\* The model answers, or calls a tool on a file; the tools node replies.
Answers ==
  /\ messages # <<>> /\ Last(messages).role \in {"user", "tool"}
  /\ \/ Says("assistant", "none", NoPath, "short")
     \/ \E tool \in {"read", "write"}, path \in Paths : Says("assistant", tool, path, "short")

Replies ==
  Waiting /\ \E text \in {"short", "long"} : Says("tool", Last(messages).tool, Last(messages).path, text)

(***************************************************************************)
(* The share store, by the model's own calls                               *)
(***************************************************************************)
\* Slip: the first id that is free.
FirstFree == Min((1 .. MaxIds + MaxMessages) \ DOMAIN store)

getNextId == nextId

\* The store with some more texts, which take the place of what had their ids.
With(texts) ==
  [id \in DOMAIN store \union DOMAIN texts |-> IF id \in DOMAIN texts THEN texts[id] ELSE store[id]]

Insert ==
  /\ nextId <= MaxIds
  /\ store' = With([id \in {getNextId} |-> None])
  /\ nextId' = nextId + 1
  /\ own' = own \union {getNextId}
  /\ UNCHANGED <<messages, history, added>>

\* set makes the id when there is none, without telling storeId.
Set(id) ==
  /\ store' = With([i \in {id} |-> None])
  /\ own' = own \union {id}
  /\ UNCHANGED <<messages, nextId, history, added>>

Delete(id) ==
  /\ id \in DOMAIN store
  /\ store' = [i \in DOMAIN store \ {id} |-> store[i]]
  /\ own' = own \union {id}
  /\ UNCHANGED <<messages, nextId, history, added>>

(***************************************************************************)
(* Before a model call                                                     *)
(***************************************************************************)
\* The message that holds the call of the reply at i: the search goes back
\* only over messages without calls, and looks for the call in those.
CallOf(i) ==
  LET walked == {j \in 2 .. i - 1 : \A k \in j .. i - 1 : messages[k].tool = "none" \/ messages[k].role = "tool"}
  IN  {j \in walked : messages[j].role = "assistant" /\ messages[j].tool # "none"}

\* The deduplication keys: a write's is its path; a read's is made of the
\* arguments of its call, when they were found.
WriteKey(i) ==
  IF messages[i].role = "assistant" /\ messages[i].tool = "write" THEN {messages[i].path} ELSE {}
ReadKey(i) ==
  IF messages[i].role = "tool" /\ messages[i].tool = "read" THEN {messages[j].path : j \in CallOf(i)} ELSE {}

Later(Key(_), i) == \E j \in i + 1 .. Len(messages) : Key(i) \intersect Key(j) # {}

\* Slip: from the first message on.
Earlier(i) == \E j \in 2 .. i - 1 : WriteKey(i) \intersect WriteKey(j) # {}

\* Whether doSummarizeToolcall, which goes from the newest message back to the
\* second, has met the key before.
Outdated(i) == i > 1 /\ (Later(WriteKey, i) \/ Later(ReadKey, i))

Deduplicated ==
  [i \in DOMAIN messages |-> IF Outdated(i) THEN [messages[i] EXCEPT !.text = "truncated"] ELSE messages[i]]

\* offloadLongContentToTempStore, on every message.
Offloads(list) == {i \in DOMAIN list : list[i].text = "long"}

\* The ids follow one another in the order of the messages.
Offload(list) ==
  LET IdOf(i) == getNextId + Cardinality({j \in Offloads(list) : j < i})
  IN  [list |-> [i \in DOMAIN list |->
                   IF i \in Offloads(list) THEN [list[i] EXCEPT !.text = "offloaded", !.id = IdOf(i)]
                   ELSE list[i]],
       texts |-> [id \in {IdOf(i) : i \in Offloads(list)} |->
                    list[CHOOSE i \in Offloads(list) : IdOf(i) = id].n]]

SystemCount(list) == IF list[1].role = "system" THEN 1 ELSE 0

\* Where the recent messages start: the loop that should move the cut to a
\* user or tool message changes nothing.
RecentFrom(list) == Len(list) - KeepRecent

Summary(role) == [n |-> None, role |-> role, tool |-> "none", path |-> NoPath, text |-> "summary", id |-> None]

\* The new list, when the old messages were summarised or the summary failed.
Cut(list, summarised) ==
  IF summarised
  THEN SubSeq(list, 1, SystemCount(list)) \o <<Summary("user"), Summary("assistant")>>
         \o SubSeq(list, RecentFrom(list) + 1, Len(list))
  ELSE list

\* onModelcallRunFunc.  level: the token usage, below 0.65 of the window
\* (nothing happens), from 0.65 or from 0.9 on.
BeforeModelCall(level) ==
  LET work == Offload(Deduplicated)
      cuts == level = "full" /\ Len(messages) > KeepRecent + SystemCount(messages)
      old == SubSeq(work.list, SystemCount(messages) + 1, Len(messages) - KeepRecent)
  IN  /\ messages # <<>> /\ ~Waiting
      /\ nextId + Cardinality(DOMAIN work.texts) <= MaxIds + 1
      /\ store' = With(work.texts)
      /\ nextId' = nextId + Cardinality(DOMAIN work.texts)
      /\ IF cuts
         THEN \E summarised \in BOOLEAN :
                /\ messages' = Cut(work.list, summarised)
                /\ history' = history \union {m.n : m \in ToSet(old)}
         ELSE messages' = work.list /\ UNCHANGED history
      /\ own' = own \ DOMAIN work.texts
      /\ UNCHANGED added

Next ==
  \/ UserSays \/ Answers \/ Replies
  \/ Insert \/ \E id \in 1 .. MaxIds : Set(id) \/ Delete(id)
  \/ \E level \in {"high", "full"} : BeforeModelCall(level)

Spec == Init /\ [][Next]_vars

(***************************************************************************)
(* Properties                                                              *)
(***************************************************************************)
(* The id left in the place of a long text leads to that text, unless the  *)
(* model itself set or deleted the id.                                     *)
OffloadedReadable ==
  \A i \in DOMAIN messages :
    LET m == messages[i] IN
    (m.text = "offloaded" /\ m.id \notin own) => m.id \in DOMAIN store /\ store[m.id] = m.n

(* Every message of the conversation is still in the list, in its order,   *)
(* or recorded in the history of what was summarised.                      *)
NothingForgotten ==
  /\ {m.n : m \in ToSet(messages)} \union history \union {None} = 0 .. added \union {None}
  /\ \A i, j \in DOMAIN messages :
       i < j /\ None \notin {messages[i].n, messages[j].n} => messages[i].n < messages[j].n

(* filesystem.h:56: the newest write to a file keeps its arguments.        *)
NewestKept ==
  \A i \in DOMAIN messages :
    (messages[i].text = "truncated" /\ WriteKey(i) # {}) => Later(WriteKey, i)

(* (Does not hold.)  The reply of a tool follows the message that called   *)
(* it: the cut falls between the two.                                      *)
RepliesKeepTheirCall ==
  \A i \in DOMAIN messages :
    messages[i].role = "tool" => i > 1 /\ messages[i - 1].n = messages[i].n - 1

(* (Does not hold.)  summarization.h:39: the recent messages are not       *)
(* compressed; their long texts are moved to the store like any other.     *)
RecentUntouched ==
  \A i \in Len(messages) - KeepRecent + 1 .. Len(messages) :
    i >= 1 => messages[i].text \notin {"offloaded", "truncated"} \/ messages[i].n <= added - KeepRecent

(* (Does not hold.)  Of two reads of one file, the older reply is dropped  *)
(* when the list is compressed.                                            *)
ReadsDeduplicated ==
  [][BeforeModelCall("high") =>
     \A i, j \in DOMAIN messages :
       1 < i /\ i < j /\ messages[i].role = "tool" /\ messages[j].role = "tool"
       /\ {messages[i].tool, messages[j].tool} = {"read"} /\ messages[i].path = messages[j].path
       => \A m \in ToSet(messages') : m.n = messages[i].n => m.text = "truncated"]_vars

(* (Does not hold.)  prompt.h:517: the id insert returns is unique.        *)
InsertedAlone == [][nextId' > nextId => DOMAIN store \intersect nextId .. nextId' - 1 = {}]_vars
=============================================================================
