------------------------------- MODULE ApiClient -------------------------------
(***************************************************************************)
(* The two calls of the API client that read page by page:                 *)
(* async_get_list_items with a cursor and async_get_zones with page        *)
(* numbers.  Each page is a request of its own, so what is listed may      *)
(* change between two pages, and any page may fail.                        *)
(*                                                                         *)
(* Cloudflare is modelled from what the client asks of it: it lists        *)
(* objects in a fixed order, a cursor is a position in that order, and the *)
(* number of pages is counted anew for every answer.  An answer may come   *)
(* without: then the client takes the page for the last one.               *)
(***************************************************************************)
EXTENDS ApiErrors, SequencesExt

CONSTANTS
  Objects,    \* what Cloudflare may list, in the order of the numbers
  Blank,      \* those without the "ip" or "id" the client looks for
  PageSize    \* per_page

ASSUME PagesAssumption ==
  /\ Objects \subseteq Nat /\ IsFiniteSet(Objects)
  /\ Blank \subseteq Objects
  /\ PageSize \in Nat \ {0}

VARIABLES
  objects,    \* what Cloudflare lists now, in its order
  call,       \* the paged call under way, with its locals
  result,     \* what the last one returned or raised
  kept,       \* history: what was listed all through the last call
  edits,      \* history: what happened to the list meanwhile
  told        \* history: whether every page said what follows it

cvars == <<objects, call, result, kept, edits, told>>

--------------------------------------------------------------------------------
\* Listings and calls.

Increasing(seq) == \A i, j \in DOMAIN seq : i < j => seq[i] < seq[j]
Listings == {seq \in BoundedSeq(Objects, Cardinality(Objects)) : Increasing(seq)}

\* A loop over seq that collects the members of set: what a round adds, what there is
\* after n rounds, and in the end.
Taken(x, set) == IF x \in set THEN <<x>> ELSE <<>>
OnlyTo(seq, set) ==
  LET only[n \in 0..Len(seq)] ==
        IF n = 0 THEN <<>> ELSE only[n - 1] \o Taken(seq[n], set)
  IN  only
Only(seq, set) == OnlyTo(seq, set)[Len(seq)]

Named(seq) == Only(seq, Objects \ Blank)

NoCall == [kind |-> "none", next |-> 0, got |-> <<>>]
NoResult == [class |-> "none", got |-> <<>>]

CInit ==
  /\ objects = <<>>
  /\ call = NoCall
  /\ result = NoResult
  /\ kept = {}
  /\ edits = "none"
  /\ told = TRUE

\* The client asks for the first page.  What became of the objects since the last
\* call is not a step of its own.
CallBegins(kind) ==
  /\ call = NoCall /\ result = NoResult
  /\ call' = [kind |-> kind, next |-> IF kind = "items" THEN 0 ELSE 1, got |-> <<>>]
  /\ UNCHANGED result
  /\ objects' \in Listings
  /\ kept' = ToSet(objects')
  /\ edits' = "none" /\ told' = TRUE

\* The caller has the result, and nobody looks at the objects until the next call.
Forgets ==
  /\ call.kind = "none" /\ result # NoResult
  /\ objects' = <<>> /\ kept' = {} /\ edits' = "none" /\ told' = TRUE
  /\ call' = NoCall /\ result' = NoResult

Returns(got) == call' = NoCall /\ result' = [class |-> "ok", got |-> got]

GoesOn(next, got) ==
  call' = [call EXCEPT !.next = next, !.got = got] /\ UNCHANGED result

\* The objects after a position, at most a page of them.
PageAfter(position) ==
  SubSeq(objects, position + 1,
         IF position + PageSize < Len(objects) THEN position + PageSize ELSE Len(objects))
MoreAfter(position) == position + PageSize < Len(objects)

PagesOf(count) == IF count = 0 THEN 1 ELSE (count + PageSize - 1) \div PageSize
TotalPages == PagesOf(Len(objects))

\* With what is collected by now, the call goes on if there is more and the answer says
\* so.  _next_cursor and _total_pages make of an answer without (no result_info, no
\* cursors, no number) that there is none.
Reads(got, more, next) ==
  /\ \E said \in BOOLEAN :
       /\ told' = said
       /\ IF said /\ more THEN GoesOn(next, got) ELSE Returns(got)
  /\ UNCHANGED <<objects, kept, edits>>

\* Slip: every page replaces the one before.
ItemsPageAlone ==
  /\ call.kind = "items"
  /\ Reads(Named(PageAfter(call.next)), MoreAfter(call.next), call.next + PageSize)

\* Slip: list and parameters are initialised inside the loop.
ItemsPageAgain ==
  /\ call.kind = "items"
  /\ Reads(Named(PageAfter(0)), MoreAfter(0), 0)

\* A page of items, and the cursor of the next one if there is one.
ItemsPage ==
  /\ call.kind = "items"
  /\ Reads(call.got \o Named(PageAfter(call.next)), MoreAfter(call.next), call.next + PageSize)

\* Slip: the pages are counted once, for what there was at the beginning.
ZonesPageCounted ==
  /\ call.kind = "zones"
  /\ Reads(call.got \o Named(PageAfter((call.next - 1) * PageSize)),
           call.next < PagesOf(Cardinality(kept)), call.next + 1)

\* A page of zones, and how many pages there are by now.
ZonesPage ==
  /\ call.kind = "zones"
  /\ Reads(call.got \o Named(PageAfter((call.next - 1) * PageSize)),
           call.next < TotalPages, call.next + 1)

\* A page fails, and with it the call: what was read is dropped.
PageFails ==
  /\ call.kind # "none"
  /\ \E class \in {ClassOf(a) : a \in HttpAnswer} \ {"ok"} :
       result' = [class |-> class, got |-> <<>>]
  /\ call' = NoCall
  /\ UNCHANGED <<objects, kept, edits, told>>

\* Others add and remove objects while the call is under way.
ObjectAdded ==
  /\ call.kind # "none"
  /\ \E o \in Objects \ ToSet(objects), i \in 1..Len(objects) + 1 :
       objects' = InsertAt(objects, i, o)
  /\ Increasing(objects')
  /\ edits' = IF edits = "removed" THEN edits ELSE "added"
  /\ UNCHANGED <<call, result, kept, told>>

ObjectRemoved ==
  /\ call.kind # "none"
  /\ \E i \in DOMAIN objects :
       objects' = RemoveAt(objects, i) /\ kept' = kept \ {objects[i]}
  /\ edits' = "removed"
  /\ UNCHANGED <<call, result, told>>

CallGoesOn == ItemsPage \/ ZonesPage \/ PageFails

\* Every request is answered: with a page, if it does not fail and end the call.
CFairness == WF_cvars(ItemsPage \/ ZonesPage)

--------------------------------------------------------------------------------
\* Properties.

Done == call.kind = "none" /\ result.class = "ok"

\* A call that returns has read the list from its beginning, each page once and in
\* order, if nobody edited it meanwhile; and to its end, if every page said what follows
\* it.  (An answer that does not say makes a partial result that looks like a whole one;
\* a page that fails fails the call.)
ReadIsWhole ==
  Done /\ edits = "none" =>
    \E n \in 0..Len(objects) :
      result.got = Named(SubSeq(objects, 1, n)) /\ (told => n = Len(objects))

\* Also with objects added between the pages, which shifts the later ones: what was
\* there all the time is never missed.  (It may be if others are removed, or a page does
\* not say what follows it.)
KeptAreSeen == Done /\ told /\ edits # "removed" => kept \ Blank \subseteq ToSet(result.got)

\* A paged call ends: the loops have no bound but what Cloudflare answers.
CallEnds == call.kind # "none" ~> call.kind = "none"

================================================================================
