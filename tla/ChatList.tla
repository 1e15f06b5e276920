------------------------------ MODULE ChatList ------------------------------
(***************************************************************************)
(* The list of chats in the sidebar: pages fetched by offset, and created, *)
(* renamed, pinned and deleted chats written into the pages already held   *)
(* instead of fetching them again.                                         *)
(*   frontend hooks/queries/useChatQueries.ts,                             *)
(*   components/layout/Sidebar.tsx, services/chatService.ts;               *)
(*   backend services/chat.py (get_user_chats, update_chat, delete_chat)   *)
(*                                                                         *)
(* The query library (external) computes a fetch's result from the pages   *)
(* held when the fetch began, and that result replaces whatever was        *)
(* written into them meanwhile.  A request can fail before the server has  *)
(* it, and so can the answer to one that the server has handled: then      *)
(* onSuccess does not run.                                                 *)
(***************************************************************************)
EXTENDS Naturals, Sequences, FiniteSets, SequencesExt

CONSTANTS
  NumChats,    \* chats there are at first: 1 .. NumChats
  PerPage,     \* chats of a page
  MaxCreated,  \* bound: chats created
  MaxOps,      \* bound: mutations and fetches of the whole list
  MaxErrors    \* bound: requests and answers that are lost

VARIABLES
  server,      \* set of chats: [id, title, pinned, updated]
  pages,       \* query data: sequence of [items, page, pages]; empty before the first fetch
  fetch,       \* the fetch under way
  calls,       \* mutations under way
  clock,       \* number of mutations the server has handled
  counts,      \* numbers of chats created, refetches and errors there were
  deleted,     \* (history) chats whose deletion has returned
  shifted,     \* (history) "down": a chat came in above, "up": one went
  lost,        \* (history) a fetch replaced what a mutation had written
  late,        \* (history) a mutation returned after a later one of the chat
  unheard,     \* (history) chats whose last change was not answered
  last         \* (history) chat -> the last answer written or lost

history == <<deleted, shifted, lost, late, unheard, last>>
vars == <<server, pages, fetch, calls, clock, counts, history>>

Ids == 1 .. NumChats + MaxCreated
Gone == [id |-> 0, title |-> 0, pinned |-> 0, updated |-> 0]
None == "none"

-----------------------------------------------------------------------------
(* The order of the list: ORDER BY pinned_at DESC NULLS LAST, updated_at DESC
   on the server, a comparator in the browser.  A chat that is not pinned has
   pinned = 0. *)

Before(x, y) ==
  IF x.pinned # y.pinned THEN x.pinned > y.pinned ELSE x.updated > y.updated

Listed(chats) == SetToSortSeq(chats, Before)

\* Mutant: the offset is one too far.
PageOf_OffByOne(n) == SubSeq(Listed(server), (n - 1) * PerPage + 2,
                             IF n * PerPage < Cardinality(server) THEN n * PerPage
                                                                  ELSE Cardinality(server))

PageOf(n) == SubSeq(Listed(server), (n - 1) * PerPage + 1,
                    IF n * PerPage < Cardinality(server) THEN n * PerPage
                                                         ELSE Cardinality(server))
NumPages == (Cardinality(server) + PerPage - 1) \div PerPage

\* getNextPageParam
HasNextPage(ps) == ps # <<>> /\ Last(ps).page + 1 <= Last(ps).pages

Held(ps) == FlattenSeq([i \in DOMAIN ps |-> ps[i].items])

HeldIds(ps) == {c.id : c \in Range(Held(ps))}

\* The write of a function of items into every page
MapItems(ps, f(_)) == [i \in DOMAIN ps |-> [ps[i] EXCEPT !.items = f(@)]]

NoFetch == [kind |-> None, old |-> <<>>, got |-> <<>>, touched |-> FALSE, shifted |-> {},
            unheard |-> {}]

Init ==
  /\ server = {[id |-> i, title |-> 0, pinned |-> 0, updated |-> i] : i \in 1 .. NumChats}
  /\ pages = <<>> /\ fetch = NoFetch /\ calls = {} /\ clock = NumChats
  /\ counts = [created |-> 0, refetches |-> 0, errors |-> 0]
  /\ deleted = {} /\ shifted = {} /\ lost = FALSE /\ late = FALSE /\ unheard = {}
  /\ last = [c \in Ids |-> 0]

-----------------------------------------------------------------------------
(* Fetching *)

Spent == counts.refetches + Cardinality(calls) + clock - NumChats

\* The query is fetched when the list is mounted, and again when it is stale.
Refetch ==
  /\ fetch.kind = None /\ Spent < MaxOps
  /\ counts' = [counts EXCEPT !.refetches = @ + 1]
  /\ fetch' = [NoFetch EXCEPT !.kind = "all", !.old = pages,
                 !.shifted = IF \E call \in calls : call.op = "create" THEN {"down"} ELSE {}]
  /\ UNCHANGED <<server, pages, calls, clock, history>>

\* The effect of Sidebar: the end of the list is in view.  A refetch under way
\* is cancelled.
FetchNextPage ==
  /\ pages # <<>> /\ HasNextPage(pages) /\ fetch.kind # "next"
  /\ fetch' = [NoFetch EXCEPT !.kind = "next", !.old = pages]
  /\ UNCHANGED <<server, pages, calls, clock, counts, history>>

Wanted == IF fetch.kind = "next" THEN Last(fetch.old).page + 1 ELSE Len(fetch.got) + 1

\* What a fetch still asks for: one more page, or as many as are held.
Asking ==
  CASE fetch.kind = None -> FALSE
    [] fetch.kind = "next" -> fetch.got = <<>>
    [] OTHER -> fetch.got = <<>> \/ (Len(fetch.got) < Len(fetch.old) /\ HasNextPage(fetch.got))

\* get_user_chats
HandleList ==
  /\ Asking
  /\ fetch' = [fetch EXCEPT !.got =
                 Append(@, [items |-> PageOf(Wanted), page |-> Wanted, pages |-> NumPages])]
  /\ UNCHANGED <<server, pages, calls, clock, counts, history>>

\* The result replaces the data.
FetchReturns ==
  /\ fetch.kind # None /\ ~Asking
  /\ pages' = IF fetch.kind = "next" THEN fetch.old \o fetch.got ELSE fetch.got
  /\ lost' = ((fetch.kind = "next" /\ lost) \/ fetch.touched)
  /\ late' = (fetch.kind = "next" /\ late)
  /\ shifted' = IF fetch.kind = "next" THEN shifted ELSE fetch.shifted
  /\ unheard' = IF fetch.kind = "next" THEN unheard ELSE fetch.unheard
  /\ fetch' = NoFetch
  /\ UNCHANGED <<server, calls, clock, counts, deleted, last>>

MayFail == counts.errors < MaxErrors
Failed == counts' = [counts EXCEPT !.errors = @ + 1]

\* The fetch and its retry fail: the pages stay.
FetchFails ==
  /\ fetch.kind # None /\ MayFail
  /\ Failed
  /\ fetch' = NoFetch
  /\ UNCHANGED <<server, pages, calls, clock, history>>

-----------------------------------------------------------------------------
(* Mutations: asked, handled by the server, returned *)

Chat(id) == CHOOSE c \in server : c.id = id
OnServer(id) == \E c \in server : c.id = id
Busy(op, id) == \E call \in calls : call.op = op /\ call.id = id
Call(op, id) == [op |-> op, id |-> id, answer |-> Gone, at |-> 0]

Ask(op, id) ==
  /\ ~Busy(op, id)
  /\ Spent < MaxOps
  /\ calls' = calls \cup {Call(op, id)}
  /\ UNCHANGED <<server, pages, fetch, clock, history>>

\* handleNewChat and the first prompt of a new chat
Create ==
  /\ counts.created < MaxCreated
  /\ counts' = [counts EXCEPT !.created = @ + 1]
  /\ Ask("create", NumChats + counts.created + 1)

\* The dropdown and the dialogs act on a chat the list shows.
OnHeld(op) == \E i \in DOMAIN Held(pages) : Ask(op, Held(pages)[i].id) /\ UNCHANGED counts
Rename == OnHeld("rename")
TogglePin == \E i \in DOMAIN Held(pages) :
               LET c == Held(pages)[i]
               IN Ask(IF c.pinned # 0 THEN "unpin" ELSE "pin", c.id) /\ UNCHANGED counts
Delete == OnHeld("delete")

Now == clock + 1
Updated(c, op) ==
  CASE op = "rename" -> [c EXCEPT !.title = Now, !.updated = Now]
    [] op = "pin"    -> [c EXCEPT !.pinned = Now, !.updated = Now]
    [] op = "unpin"  -> [c EXCEPT !.pinned = 0, !.updated = Now]

\* What a mutation does to the places of the chats after the ones held
Shift(call, held) ==
  CASE call.op = "create" -> {"down"}
    [] call.op = "delete" -> {"up"}
    [] OTHER -> IF call.op # "unpin" /\ call.id \in held THEN {} ELSE {"down", "up"}

\* create_chat, update_chat, delete_chat.  A chat that is gone answers 404.
Handle(call) ==
  LET new == IF call.op = "create"
             THEN [id |-> call.id, title |-> 0, pinned |-> 0, updated |-> Now]
             ELSE IF call.op = "delete" THEN Gone ELSE Updated(Chat(call.id), call.op)
  IN
  /\ call.at = 0
  /\ call.op = "create" \/ OnServer(call.id)
  /\ clock' = Now
  /\ server' = {c \in server : c.id # call.id} \cup (IF new = Gone THEN {} ELSE {new})
  /\ calls' = (calls \ {call}) \cup {[call EXCEPT !.answer = new, !.at = Now]}
  /\ shifted' = shifted \cup Shift(call, HeldIds(pages))
  /\ fetch' = IF fetch.kind # "all" THEN fetch
              ELSE [fetch EXCEPT !.shifted = @ \cup Shift(call, HeldIds(fetch.got))]
  /\ UNCHANGED <<pages, counts, deleted, lost, late, unheard, last>>

NotFound(call) ==
  /\ call.at = 0 /\ call.op # "create" /\ ~OnServer(call.id)
  /\ calls' = calls \ {call}
  /\ UNCHANGED <<server, pages, fetch, clock, counts, history>>

Replaced(items, chat) == [i \in DOMAIN items |-> IF items[i].id = chat.id THEN chat ELSE items[i]]

\* Mutant: a page starts with the last chat of the one before.
Resliced_Overlaps(ps) ==
  LET sorted == SortSeq(Held(ps), Before)
      end(i) == Len(Held(SubSeq(ps, 1, i)))
  IN [i \in DOMAIN ps |-> [ps[i] EXCEPT !.items =
        SubSeq(sorted, IF i = 1 THEN 1 ELSE end(i - 1), end(i))]]

\* usePinChatMutation sorts all pages together and cuts them as they were.
Resliced(ps) ==
  LET sorted == SortSeq(Held(ps), Before)
      end(i) == Len(Held(SubSeq(ps, 1, i)))
  IN [i \in DOMAIN ps |-> [ps[i] EXCEPT !.items = SubSeq(sorted, end(i - 1) + 1, end(i))]]

\* Mutant: a renamed chat is replaced in the first page only.
Written_FirstPage(ps, call) ==
  CASE call.op = "create" -> [ps EXCEPT ![1].items = <<call.answer>> \o @]
    [] call.op = "delete" -> MapItems(ps, LAMBDA items : SelectSeq(items, LAMBDA c : c.id # call.id))
    [] call.op = "rename" -> [ps EXCEPT ![1].items = Replaced(@, call.answer)]
    [] OTHER -> Resliced(MapItems(ps, LAMBDA items : Replaced(items, call.answer)))

\* Mutant: a deletion leaves the list as it is.
Written_NoDelete(ps, call) ==
  IF call.op = "create" THEN [ps EXCEPT ![1].items = <<call.answer>> \o @]
  ELSE IF call.op = "delete" THEN ps
  ELSE Resliced(MapItems(ps, LAMBDA items : Replaced(items, call.answer)))

\* What onSuccess writes into the pages
Written(ps, call) ==
  CASE call.op = "create" -> [ps EXCEPT ![1].items = <<call.answer>> \o @]
    [] call.op = "delete" -> MapItems(ps, LAMBDA items : SelectSeq(items, LAMBDA c : c.id # call.id))
    [] call.op = "rename" -> MapItems(ps, LAMBDA items : Replaced(items, call.answer))
    [] OTHER -> Resliced(MapItems(ps, LAMBDA items : Replaced(items, call.answer)))

Return(call) ==
  /\ call.at # 0
  /\ calls' = calls \ {call}
  /\ pages' = IF pages = <<>> THEN <<>> ELSE Written(pages, call)
  /\ deleted' = IF call.op = "delete" THEN deleted \cup {call.id} ELSE deleted
  /\ fetch' = [fetch EXCEPT !.touched = fetch.kind # None]
  /\ late' = (late \/ last[call.id] > call.at)
  /\ unheard' = IF last[call.id] > call.at THEN unheard ELSE unheard \ {call.id}
  /\ last' = [last EXCEPT ![call.id] = IF @ > call.at THEN @ ELSE call.at]
  /\ UNCHANGED <<server, clock, counts, shifted, lost>>

\* The request, or the answer of the server to what it has done, is lost: a toast is
\* all there is of it, and no list is asked for anew.
CallFails(call) ==
  LET news == IF last[call.id] < call.at THEN {call.id} ELSE {}
  IN
  /\ MayFail /\ Failed
  /\ calls' = calls \ {call}
  /\ unheard' = unheard \cup news
  /\ last' = [last EXCEPT ![call.id] = IF @ > call.at THEN @ ELSE call.at]
  /\ fetch' = IF fetch.kind # "all" THEN fetch ELSE [fetch EXCEPT !.unheard = @ \cup news]
  /\ UNCHANGED <<server, pages, clock, deleted, shifted, lost, late>>

\* The sidebar: the end of the list of chats, and the menu and the dialogs of one
Sidebar == FetchNextPage \/ Rename \/ TogglePin \/ Delete

Next ==
  \/ Refetch \/ HandleList \/ FetchReturns \/ FetchFails
  \/ Create \/ Sidebar
  \/ \E call \in calls : Handle(call) \/ NotFound(call) \/ Return(call) \/ CallFails(call)

Spec == Init /\ [][Next]_vars

-----------------------------------------------------------------------------
(* Properties *)

TypeOK ==
  /\ \A c \in server : c.id \in Ids /\ c.pinned <= clock /\ c.updated <= clock
  /\ \A c, d \in server : c.id = d.id => c = d
  /\ pages # <<>> => \A i \in DOMAIN pages : pages[i].page = i
  /\ fetch.kind \in {None, "next", "all"}
  /\ shifted \subseteq {"up", "down"} /\ deleted \subseteq Ids /\ unheard \subseteq Ids

\* A chat stands in the list once (its id is the React key): renaming, pinning
\* and deleting in the pages held never make a later page repeat one.  A
\* creation does, because it moves every chat one place down, and so does a
\* chat that is unpinned past the end of what is held.
NoDuplicates ==
  "down" \in shifted \/ lost \/ IsInjective([i \in DOMAIN Held(pages) |-> Held(pages)[i].id])

\* Once all calls have returned, no chat is missing between two the list
\* holds: what the server lists before the last of as many chats as are held is
\* held, after creations, renames and pins, but for a chat that was created and whose
\* answer was lost.  A deletion, or unpinning past the end of what is held, makes the
\* next page start one too far.
Missing(ps) == {Listed(server)[i].id : i \in 1 .. Cardinality(HeldIds(ps) \cap {c.id : c \in server})}
                 \ HeldIds(ps)
NothingSkipped ==
  (pages # <<>> /\ "up" \notin shifted /\ ~lost /\ fetch.kind = None /\ calls = {}) =>
    Missing(pages) \subseteq unheard

\* What the list holds of a chat is what the server has, once its mutations
\* have returned, unless an answer came late or was written during a fetch.  A lost
\* answer leaves its own chat as it was, until another of that chat comes or the list
\* is fetched anew, and no other.
HeldIsCurrent ==
  lost \/ late \/
  \A c \in Range(Held(pages)) :
    (c.id \notin unheard /\ ~\E call \in calls : call.id = c.id) => c \in server

\* A chat whose deletion has returned does not come back.
DeletedStaysGone ==
  lost \/ late \/ \A c \in Range(Held(pages)) : c.id \notin deleted
=============================================================================
