---------------------------- MODULE MessagePages ----------------------------
(***************************************************************************)
(* The pages of a chat's messages in the query cache, oldest page first:   *)
(* loaded one by one while the marker under the last message is in view,   *)
(* written to while a turn is under way, and read again after a restore.   *)
(*   frontend hooks/queries/useChatQueries.ts (useInfiniteMessagesQuery,   *)
(*   useRestoreCheckpointMutation), hooks/useMessageCache.ts,              *)
(*   components/chat/chat-window/Chat.tsx, message-bubble/Message.tsx      *)
(*   backend services/message.py, services/chat.py restore_to_checkpoint   *)
(*                                                                         *)
(* TanStack Query (external): one fetch at a time; fetchNextPage and       *)
(* refetch cancel the one under way; what fetchNextPage stores are the     *)
(* pages as they were when it began and the new one; refetch reads as many *)
(* pages as are held, as far as each says there is another.                *)
(*                                                                         *)
(* Odd messages are the user's, even ones the answers.  What the page      *)
(* shows between turns is this cache (Rendered of ChatView).               *)
(***************************************************************************)
EXTENDS Naturals, Sequences, SequencesExt, FiniteSetsExt

CONSTANTS
  PerPage,     \* messages of a page (10 in the code)
  NumBefore,   \* messages there are when the chat is opened
  MaxTurns,    \* bound: turns
  MaxEvents,   \* bound: events of an answer
  MaxRestores, \* bound: restores
  MaxVisits,   \* bound: visits to the chat when its pages are stale
  MaxErrors    \* bound: requests that fail

VARIABLES
  db,      \* the server's messages: sequence of [m, len], len the events stored
  pages,   \* the pages held: sequence of [items, page, pages]
  fetch,   \* the fetch under way: [kind, base, got, dirty]; dirty (history): it will undo
           \* what was written to the pages
  inView,  \* the marker is in view
  timer,   \* loadMoreTimeoutRef: the timer that loads more is set
  turn,    \* [state, m, made, heard, saved]: its answer m, events published and heard
  restore, \* [state, m]
  counts,  \* counters behind the bounds
  odd      \* (history) cases nothing handles: "early", "rolled", "cut", "left",
           \* "removed", "mixed"

vars == <<db, pages, fetch, inView, timer, turn, restore, counts, odd>>

Item(m, n) == [m |-> m, len |-> n]
NoFetch == [kind |-> "none", base |-> <<>>, got |-> <<>>, dirty |-> FALSE]
Idle == [state |-> "idle", m |-> 0, made |-> 0, heard |-> 0, saved |-> FALSE]

\* get_chat_messages: page n, and how many there are.
ServerPage(n) ==
  [items |-> SubSeq(db, (n - 1) * PerPage + 1, Min({n * PerPage, Len(db)})),
   page |-> n, pages |-> (Len(db) + PerPage - 1) \div PerPage]

\* Mutant: the last page is never asked for.
HasNext_OffByOne(ps) == Last(ps).page + 1 < Last(ps).pages

\* getNextPageParam, of the last page as it was when it was read.
HasNext(ps) == Last(ps).page + 1 <= Last(ps).pages

Items(ps) == FlattenSeq([i \in DOMAIN ps |-> ps[i].items])
Ids(s) == {s[i].m : i \in DOMAIN s}

\* The chat has been opened: its first page is there.
Init ==
  /\ db = [i \in 1 .. NumBefore |-> Item(i, 1)]
  /\ pages = <<ServerPage(1)>>
  /\ fetch = NoFetch /\ inView = FALSE /\ timer = FALSE
  /\ turn = Idle /\ restore = [state |-> "none", m |-> 0]
  /\ counts = [turns |-> 0, restores |-> 0, visits |-> 0, errors |-> 0]
  /\ odd = {}

Spend(what) == counts' = [counts EXCEPT ![what] = @ + 1]
Quiet == turn.state = "idle" /\ restore.state = "none"

-----------------------------------------------------------------------------
(* Chat.tsx: the marker and the effect that loads more *)

\* Mutant: the effect does not run again when a page has come.
Depends_NotOnFetching(ps, f, seen) == <<seen, HasNext(ps)>>

Depends(ps, f, seen) == <<seen, HasNext(ps), f.kind = "next">>

\* After a render: the marker is there only while there is a next page; a change of a
\* dependency clears the timer and may set it.
Effect ==
  /\ timer' = IF Depends(pages', fetch', inView') = Depends(pages, fetch, inView) THEN timer
              ELSE inView' /\ HasNext(pages') /\ fetch'.kind # "next"
Render == inView' = (inView /\ HasNext(pages')) /\ Effect

Scroll ==
  /\ HasNext(pages)
  /\ UNCHANGED <<db, pages, fetch, turn, restore, counts, odd>>
  /\ inView' = ~inView /\ Effect

Begin(kind) == fetch' = [NoFetch EXCEPT !.kind = kind, !.base = pages]

\* The timer: fetchNextPage, which cancels what is under way.
LoadMore ==
  /\ timer /\ timer' = FALSE
  /\ Begin("next")
  /\ odd' = odd \cup (IF fetch.kind = "restored" THEN {"cut"} ELSE {})
  /\ UNCHANGED <<db, pages, inView, turn, restore, counts>>

-----------------------------------------------------------------------------
(* A fetch: its pages are read one by one and stored together *)

AllRead ==
  IF fetch.kind = "next" THEN Len(fetch.got) = 1
  ELSE fetch.got # <<>> /\ (Len(fetch.got) >= Len(fetch.base) \/ ~HasNext(fetch.got))

\* An answer under way is read as it is stored, not as it was heard, if it is on the page.
ReadPage ==
  /\ fetch.kind # "none" /\ ~AllRead
  /\ LET n == CASE fetch.kind = "next" -> Last(fetch.base).page + 1
                [] fetch.got = <<>> -> 1
                [] OTHER -> Last(fetch.got).page + 1
     IN fetch' = [fetch EXCEPT !.got = Append(@, ServerPage(n)),
                               !.dirty = @ \/ turn.state \in {"running", "streaming"}]
  /\ UNCHANGED <<db, pages, inView, timer, turn, restore, counts, odd>>

\* What was written to the pages since the fetch began is gone.
Fetched ==
  /\ fetch.kind # "none" /\ AllRead
  /\ pages' = IF fetch.kind = "next" THEN fetch.base \o fetch.got ELSE fetch.got
  /\ fetch' = NoFetch
  /\ odd' = odd \cup (IF fetch.dirty THEN {"rolled"} ELSE {})
  /\ Render
  /\ UNCHANGED <<db, turn, restore, counts>>

FetchFails ==
  /\ fetch.kind # "none" /\ counts.errors < MaxErrors
  /\ fetch' = NoFetch
  /\ odd' = odd \cup (IF fetch.kind = "restored" THEN {"cut"} ELSE {})
  /\ UNCHANGED <<db, pages, turn, restore>>
  /\ Spend("errors") /\ Render

\* The chat is left and shown again when its pages are stale.
Visit ==
  /\ turn.state \in {"idle", "streaming"} /\ restore.state = "none"
  /\ fetch.kind = "none" /\ counts.visits < MaxVisits
  /\ Begin("again")
  /\ inView' = FALSE /\ timer' = FALSE
  /\ Spend("visits")
  /\ UNCHANGED <<db, pages, turn, restore, odd>>

-----------------------------------------------------------------------------
(* A turn, and what useMessageCache.ts writes of it *)

Write(ps) ==
  /\ pages' = ps
  /\ fetch' = [fetch EXCEPT !.dirty = fetch.kind # "none" /\ (@ \/ ps # pages)]
  /\ Render

Send ==
  /\ Quiet /\ counts.turns < MaxTurns
  /\ turn' = [Idle EXCEPT !.state = "posting", !.m = NumBefore + 2 * counts.turns + 2]
  /\ Spend("turns")
  /\ UNCHANGED <<db, pages, fetch, inView, timer, restore, odd>>

\* The POST: its two messages are committed, and the worker starts.
Commit ==
  /\ turn.state = "posting"
  /\ db' = db \o <<Item(turn.m - 1, 1), Item(turn.m, 0)>>
  /\ turn' = [turn EXCEPT !.state = "running"]
  /\ UNCHANGED <<pages, fetch, inView, timer, restore, counts, odd>>

\* It fails, and may leave the user's message behind.
PostFails ==
  /\ turn.state = "posting" /\ counts.errors < MaxErrors
  /\ \/ UNCHANGED <<db, odd>>
     \/ db' = Append(db, Item(turn.m - 1, 1)) /\ odd' = odd \cup {"left"}
  /\ turn' = Idle /\ Spend("errors")
  /\ UNCHANGED <<pages, fetch, inView, timer, restore>>

\* Mutant: the two messages are added to the first page.
Added_FirstPage(ps, m) == [ps EXCEPT ![1].items = @ \o <<Item(m - 1, 1), Item(m, 0)>>]

\* addMessageToCache; the user's message has an id of the browser, which no page has.
Added(ps, m) == [ps EXCEPT ![Len(ps)].items = @ \o <<Item(m - 1, 1), Item(m, 0)>>]

PostReturns ==
  /\ turn.state = "running"
  /\ turn' = [turn EXCEPT !.state = "streaming"]
  /\ odd' = odd \cup (IF HasNext(pages) \/ turn.m \in Ids(Items(pages)) THEN {"early"} ELSE {})
  /\ Write(Added(pages, turn.m))
  /\ UNCHANGED <<db, restore, counts>>

Publish ==
  /\ turn.state \in {"running", "streaming"} /\ ~turn.saved /\ turn.made < MaxEvents
  /\ turn' = [turn EXCEPT !.made = @ + 1]
  /\ UNCHANGED <<db, pages, fetch, inView, timer, restore, counts, odd>>

Save ==
  /\ turn.state \in {"running", "streaming"} /\ ~turn.saved
  /\ turn' = [turn EXCEPT !.saved = TRUE]
  /\ db' = [i \in DOMAIN db |-> IF db[i].m = turn.m THEN Item(turn.m, turn.made) ELSE db[i]]
  /\ UNCHANGED <<pages, fetch, inView, timer, restore, counts, odd>>

\* Mutant: an event is added to the list on screen only.
Updated_NotCached(ps, m) == ps

\* updateMessageInCache
Updated(ps, m) ==
  [i \in DOMAIN ps |-> [ps[i] EXCEPT !.items =
     [j \in DOMAIN @ |-> IF @[j].m = m THEN Item(m, @[j].len + 1) ELSE @[j]]]]

Hear ==
  /\ turn.state = "streaming" /\ turn.heard < turn.made
  /\ turn' = [turn EXCEPT !.heard = @ + 1]
  /\ Write(Updated(pages, turn.m))
  /\ UNCHANGED <<db, restore, counts, odd>>

HeardAll == turn.state = "streaming" /\ turn.saved /\ turn.heard = turn.made

Complete ==
  /\ HeardAll /\ turn' = Idle
  /\ UNCHANGED <<db, pages, fetch, inView, timer, restore, counts, odd>>

\* removeMessagesFromCache
Removed(ps, m) ==
  [i \in DOMAIN ps |-> [ps[i] EXCEPT !.items = SelectSeq(@, LAMBDA x : x.m # m)]]

\* The turn ends with an error: onError takes its answer off, which the server keeps.
StreamFails ==
  /\ HeardAll /\ counts.errors < MaxErrors
  /\ turn' = Idle /\ odd' = odd \cup {"removed"}
  /\ Write(Removed(pages, turn.m))
  /\ Spend("errors")
  /\ UNCHANGED <<db, restore>>

-----------------------------------------------------------------------------
(* Restoring, Message.tsx; the dialog covers the page until it is answered *)

IsBot(m) == m % 2 = 0

\* Any answer but the last one held; not while one streams, but while a POST is under way.
AskRestore ==
  /\ turn.state # "streaming" /\ restore.state = "none" /\ counts.restores < MaxRestores
  /\ LET held == Items(pages)
         bots == {i \in DOMAIN held : IsBot(held[i].m)}
     IN \E i \in bots : i # Max(bots) /\ restore' = [state |-> "asked", m |-> held[i].m]
  /\ Spend("restores")
  /\ odd' = odd \cup (IF turn.state # "idle" THEN {"mixed"} ELSE {})
  /\ UNCHANGED <<db, pages, fetch, inView, timer, turn>>

\* restore_to_checkpoint, which knows nothing of a message that was deleted.
DeleteAfter ==
  /\ restore.state = "asked"
  /\ IF restore.m \in Ids(db)
     THEN /\ db' = SelectSeq(db, LAMBDA x : x.m <= restore.m)
          /\ restore' = [restore EXCEPT !.state = "done"]
     ELSE /\ restore' = [state |-> "none", m |-> 0]
          /\ UNCHANGED db
  /\ UNCHANGED <<pages, fetch, inView, timer, turn, counts, odd>>

RestoreFails ==
  /\ restore.state # "none" /\ counts.errors < MaxErrors
  /\ restore' = [state |-> "none", m |-> 0]
  /\ odd' = odd \cup (IF restore.state = "done" THEN {"cut"} ELSE {})
  /\ Spend("errors")
  /\ UNCHANGED <<db, pages, fetch, inView, timer, turn>>

\* Mutant: the pages are not read again.
Reread_Not == UNCHANGED fetch

\* invalidateQueries and handleRestoreSuccess: the pages are read again, from the start.
Reread == Begin("restored")

RestoreReturns ==
  /\ restore.state = "done"
  /\ restore' = [state |-> "none", m |-> 0]
  /\ Reread /\ UNCHANGED pages /\ Render
  /\ UNCHANGED <<db, turn, counts, odd>>

Next == \/ Scroll \/ LoadMore \/ ReadPage \/ Fetched \/ FetchFails \/ Visit
        \/ Send \/ Commit \/ PostFails \/ PostReturns \/ Publish \/ Save \/ Hear
        \/ Complete \/ StreamFails
        \/ AskRestore \/ DeleteAfter \/ RestoreFails \/ RestoreReturns

Spec == Init /\ [][Next]_vars

-----------------------------------------------------------------------------
IsPages(ps) == \A i \in DOMAIN ps : /\ \A j \in DOMAIN ps[i].items : ps[i].items[j].m > 0
                                    /\ ps[i].page = i /\ ps[i].pages \in Nat

TypeOK ==
  /\ \A i \in DOMAIN db : db[i].m > 0 /\ db[i].len \in 0 .. MaxEvents
  /\ pages # <<>> /\ IsPages(pages) /\ IsPages(fetch.base)
  /\ fetch.kind \in {"none", "next", "again", "restored"}
  /\ inView \in BOOLEAN /\ timer \in BOOLEAN
  /\ turn.state \in {"idle", "posting", "running", "streaming"}
  /\ restore.state \in {"none", "asked", "done"}
  /\ odd \subseteq {"early", "rolled", "cut", "left", "removed", "mixed"}

Settled == Quiet /\ fetch.kind = "none"

\* The messages held stand in their order and each of them once, through sends, loads,
\* restores and errors, except after a message was added before the last page was there, or
\* was restored away before it was added.
MessagesInOrder ==
  odd \cap {"early", "mixed"} = {} =>
    LET held == Items(pages) IN \A i, j \in DOMAIN held : i < j => held[i].m < held[j].m

\* When nothing is under way the pages held are a beginning of what the server has, its
\* events included, and all of it when there is no next page.
PagesAreServers ==
  Settled /\ odd = {} =>
    /\ IsPrefix(Items(pages), db)
    /\ ~HasNext(pages) => Items(pages) = db

\* What a restore deleted is not held any more when the pages have been read again, unless
\* that reading failed or was cancelled by the loading of another page, or the restore was
\* asked for while a message was being sent.
DeletedIsNotHeld ==
  Settled /\ odd \cap {"cut", "mixed"} = {} => Ids(Items(pages)) \subseteq Ids(db)

\* The answer under way is held with all that was heard of it, while no fetch that began
\* earlier is stored over it.
AnswerIsHeld ==
  turn.state = "streaming" /\ "rolled" \notin odd =>
    \E i \in DOMAIN Items(pages) : Items(pages)[i] = Item(turn.m, turn.heard)

\* As long as the marker is in view, more is loaded or about to be.
NeverStuck == inView /\ HasNext(pages) => timer \/ fetch.kind = "next"
=============================================================================
