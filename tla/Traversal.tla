------------------------------ MODULE Traversal ------------------------------
(***************************************************************************)
(* The traversal of a listing (acquisition/traversal.py) and the choice of *)
(* the HTML that the fetch goes on with (browser_page_flow.py).            *)
(*                                                                         *)
(* The traversal scrolls, clicks "load more" or turns pages, counts the    *)
(* cards it sees (snapshots) and keeps the new ones (fragments).  The page *)
(* is the other actor: cards arrive, texts change and navigations commit   *)
(* between any two of its looks, and the deadline passes.  Each action     *)
(* reads the page once.                                                    *)
(***************************************************************************)
EXTENDS Naturals, FiniteSets

CONSTANTS
    Cards,
    Pages,              \* URLs
    Home,               \* the URL of the listing
    Origin,             \* the origin of each URL
    On,                 \* the cards that belong to each URL
    None,
    Cap,                \* traversal_max_iterations_cap
    MaxScrolls,         \* of the run's settings, 0 if there is no limit
    Target,             \* max_records, 0 if there is none
    StreakMax,          \* traversal_weak_progress_streak_max
    FullPage,           \* the count from which a page is not thin
    GoodGain,           \* the best gain from which a small gain is marginal
    Enough,             \* listing_min_items
    Capacity,           \* listing_fallback_fragment_limit, and the fragments' budget
    MaxChanges,         \* (bound) changes of the page but for turns
    MaxOthers           \* (bound) links to details outside the cards

ASSUME TraversalAssumption ==
    /\ Home \in Pages /\ On \in [Pages -> SUBSET Cards] /\ None \notin Pages
    /\ DOMAIN Origin = Pages
    /\ IsFiniteSet(Cards)
    /\ {Cap, Capacity} \subseteq Nat \ {0}
    /\ {MaxScrolls, Target, StreakMax, FullPage, GoodGain, Enough, MaxChanges, MaxOthers} \subseteq Nat

VARIABLES
    mode,               \* the traversal the user chose
    page,               \* what the browser shows: url, cards, content, block
    changes,            \* (bound) changes in place and navigations of "load more"
    heading,            \* a navigation begun by a click and not committed
    late,               \* whether the deadline has passed
    at, stop,           \* where the traversal is, and why it stopped
    steps, begun,       \* rounds of the loop; whether one has clicked or scrolled
    previous, current,  \* snapshots
    count,              \* card_count of the result
    best, weak, marginal, progressed,
    visited, intended,  \* URLs seen, the one a link named (None: a click)
    from,               \* the URL before the turn
    seen,               \* _seen_card_fragments
    held, size, fallback,   \* html_fragments: cards, their number, last full page
    delivered,          \* the cards of the HTML the fetch goes on with
    looked, excused, counted, overlap, slow, gathered, richer   \* for the properties

shown    == <<page, changes, heading, late>>
kept     == <<seen, held, size, fallback>>
streaks  == <<best, weak, marginal, progressed>>
turn     == <<visited, intended, from>>
observed == <<looked, excused, counted, overlap, slow, gathered, richer>>
traversalVars ==
    <<mode, shown, at, stop, steps, begun, previous, current, count, streaks, turn, kept, delivered,
      observed>>

Unseen == [count |-> 0, sign |-> <<Home, 0>>]

TraversalInit ==
    /\ mode \in {"scroll", "load_more", "paginate"}
    /\ \E C \in SUBSET On[Home] : page = [url |-> Home, cards |-> C, content |-> 0, block |-> FALSE]
    /\ changes = 0 /\ heading = None /\ late = FALSE
    /\ at = "open" /\ stop = "none" /\ steps = 0 /\ begun = FALSE
    /\ previous = Unseen /\ current = Unseen /\ count = 0
    /\ best = 0 /\ weak = 0 /\ marginal = 0 /\ progressed = FALSE
    /\ visited = {} /\ intended = None /\ from = None
    /\ seen = {} /\ held = {} /\ size = 0 /\ fallback = None /\ delivered = {}
    /\ looked = {} /\ excused = {} /\ counted = {} /\ overlap = FALSE /\ slow = FALSE
    /\ gathered = {} /\ richer = FALSE

-----------------------------------------------------------------------------
(* The page.                                                               *)

\* Cards come and go and texts change.  The content's signature and the height
\* need not tell: they are of the first texts and links, and of the whole.
Changes ==
    /\ ~page.block /\ changes < MaxChanges /\ changes' = changes + 1
    /\ \E C \in SUBSET On[page.url], n \in {page.content, page.content + 1} :
          page' = [page EXCEPT !.cards = C, !.content = n]

\* The page changes by itself.
Arrive ==
    /\ at \notin {"done", "raised"} /\ Changes /\ page' # page
    /\ UNCHANGED <<mode, heading, late, at, stop, steps, begun, previous, current, count,
                   streaks, turn, kept, delivered, observed>>

\* A challenge shows no cards.
Loads(u) ==
    \E C \in SUBSET On[u], b \in BOOLEAN :
        /\ b => C = {}
        /\ page' = [url |-> u, cards |-> C, content |-> page.content, block |-> b]

\* A navigation that a click began commits.
Commit ==
    /\ at \notin {"done", "raised"} /\ heading # None
    /\ Loads(heading) /\ heading' = None
    /\ UNCHANGED <<mode, changes, late, at, stop, steps, begun, previous, current, count, streaks, turn,
                   kept, delivered, observed>>

Deadline ==
    /\ at \notin {"done", "raised"} /\ ~late /\ late' = TRUE
    /\ UNCHANGED <<mode, page, changes, heading, at, stop, steps, begun, previous, current,
                   count, streaks, turn, kept, delivered, observed>>

-----------------------------------------------------------------------------
(* Snapshots and fragments.                                                *)

\* _page_snapshot; the signature begins with the URL.
Snapshot == [count |-> Cardinality(page.cards), sign |-> <<page.url, page.content>>]

\* _snapshot_progressed, _paginate_snapshot_progressed
SnapshotProgressed(a, b) == b.count > a.count \/ b.sign # a.sign
PageProgressed(a, b) == b.count > a.count \/ (a.count > 0 /\ SnapshotProgressed(a, b))

Larger(m, n) == IF m > n THEN m ELSE n
Smaller(m, n) == IF m < n THEN m ELSE n
Gain == IF current.count > previous.count THEN current.count - previous.count ELSE 0

\* _is_marginal_card_gain
MarginalGain(top) ==
    /\ Gain > 0 /\ current.count >= FullPage /\ top >= GoodGain
    /\ Gain <= Larger(1, top \div 5)

TargetReached(n) == Target > 0 /\ n >= Target

\* _append_html_fragment: the cards that are new among the page's best, or the
\* whole page when there is none, unless it is the page kept last, or only its
\* scripts.  Cards that have gone since they were counted are not kept.
AppendFragment ==
    /\ \E top \in SUBSET page.cards :
          /\ Cardinality(top) = Smaller(Capacity, Cardinality(page.cards))
          /\ \/ /\ ~(top \subseteq seen) /\ seen' = seen \cup top /\ held' = held \cup top
                /\ size' = size + Cardinality(top \ seen) /\ UNCHANGED fallback
             \/ /\ top \subseteq seen /\ held' = held \cup page.cards /\ fallback' = page
                /\ size' = IF fallback = page THEN size ELSE size + Cardinality(page.cards)
                /\ UNCHANGED seen
             \/ top \subseteq seen /\ UNCHANGED kept
    /\ excused' = excused \cup ((page.cards \cup looked) \ held') /\ looked' = {}

Stop(reason) == at' = "stopped" /\ stop' = reason
GoOn(next)   == at' = next /\ UNCHANGED stop

Limit == CASE mode = "paginate" -> Cap - 1
           [] mode = "scroll" /\ MaxScrolls \in 1 .. Cap -> MaxScrolls
           [] OTHER -> Cap

Raises ==   \* a look or an action raises, and the result is lost
    /\ at \notin {"stopped", "done", "raised"} /\ at' = "raised"
    /\ UNCHANGED <<mode, shown, stop, steps, begun, previous, current, count, streaks, turn,
                   kept, delivered, observed>>

-----------------------------------------------------------------------------
(* The beginning: scroll and load_more keep what is shown and count it then, *)
(* paginate counts first.                                                    *)

Open ==
    /\ at = "open" /\ mode # "paginate"
    /\ AppendFragment /\ GoOn("count")
    /\ UNCHANGED <<mode, shown, steps, begun, previous, current, count, streaks, turn,
                   delivered, counted, overlap, slow, gathered, richer>>

OpenFirstPage ==
    /\ at = "open" /\ mode = "paginate"
    /\ previous' = Snapshot /\ count' = Snapshot.count
    /\ counted' = page.cards /\ looked' = page.cards
    /\ GoOn("count")
    /\ UNCHANGED <<mode, shown, steps, begun, current, streaks, turn, kept, delivered,
                   excused, overlap, slow, gathered, richer>>

Count ==
    /\ at = "count" /\ mode # "paginate"
    /\ previous' = Snapshot /\ count' = Snapshot.count
    /\ excused' = excused \cup (page.cards \ held)
    /\ IF TargetReached(Snapshot.count) THEN Stop("target_records_reached") ELSE GoOn("loop")
    /\ UNCHANGED <<mode, shown, steps, begun, current, streaks, turn, kept, delivered,
                   looked, counted, overlap, slow, gathered, richer>>

KeepFirstPage ==
    /\ at = "count" /\ mode = "paginate"
    /\ AppendFragment /\ visited' = {page.url} /\ gathered' = {page.url}
    /\ IF TargetReached(count) THEN Stop("target_records_reached") ELSE GoOn("loop")
    /\ UNCHANGED <<mode, shown, steps, begun, previous, current, count, streaks, intended,
                   from, delivered, counted, overlap, slow, richer>>

-----------------------------------------------------------------------------
(* A round: the limits, then the action of the mode.                       *)

LimitReached ==
    /\ at = "loop"
    /\ \/ steps = Limit /\ Stop("limit_reached")
       \/ steps < Limit /\ late /\ Stop("budget_exceeded")
    /\ UNCHANGED <<mode, shown, steps, begun, previous, current, count, streaks, turn, kept,
                   delivered, observed>>

Round == at = "loop" /\ steps < Limit /\ steps' = steps + 1

\* Scrolls to the end, or clicks a "load more" that it found, which may navigate.
Act ==
    /\ Round /\ mode # "paginate" /\ begun' = TRUE
    /\ \/ Changes /\ UNCHANGED heading
       \/ UNCHANGED <<page, changes, heading>>
       \/ /\ mode = "load_more" /\ changes < MaxChanges /\ changes' = changes + 1
          /\ (\E u \in Pages : heading' = u) /\ UNCHANGED page
    /\ GoOn("settling")
    /\ UNCHANGED <<mode, late, previous, current, count, streaks, turn, kept, delivered,
                   observed>>

\* Every way to click failed, or no time was left for one.
ClickFails ==
    /\ Round /\ mode # "scroll" /\ begun' = TRUE
    /\ Stop("click_failed")
    /\ UNCHANGED <<mode, shown, previous, current, count, streaks, turn, kept, delivered,
                   observed>>

\* There is no "load more", or no next page.
NotFound ==
    /\ Round /\ mode # "scroll" /\ UNCHANGED begun
    /\ IF mode = "load_more" THEN GoOn("last_gain")
       ELSE IF progressed \/ begun \/ previous.count >= FullPage THEN Stop("not_found")
       ELSE GoOn("thin")
    /\ UNCHANGED <<mode, shown, previous, current, count, streaks, turn, kept, delivered,
                   observed>>

\* A link to a page of the same origin not seen yet; the server may redirect.
FollowLink ==
    /\ Round /\ mode = "paginate" /\ begun' = TRUE
    /\ \E u \in Pages :
          \/ /\ \/ Origin[u] # Origin[page.url] /\ Stop("off_domain")
                \/ Origin[u] = Origin[page.url] /\ u \in visited /\ Stop("cycle_detected")
                \/ Origin[u] = Origin[page.url] /\ u \notin visited /\ late /\ Stop("budget_exceeded")
             /\ UNCHANGED <<shown, turn>>
          \/ /\ Origin[u] = Origin[page.url] /\ u \notin visited
             /\ \E r \in Pages : Loads(r)
             /\ heading' = None /\ UNCHANGED <<changes, late>>
             /\ intended' = u /\ from' = page.url /\ UNCHANGED visited
             /\ GoOn("arrived")
    /\ UNCHANGED <<mode, previous, current, count, streaks, kept, delivered, observed>>

\* A control: the page replaces its cards, or navigates sooner or later.
ClickNext ==
    /\ Round /\ mode = "paginate" /\ begun' = TRUE
    /\ \/ Changes /\ UNCHANGED <<heading, late>>
       \/ UNCHANGED shown
       \/ (\E u \in Pages : heading' = u) /\ UNCHANGED <<page, changes, late>>
    /\ intended' = None /\ from' = page.url /\ UNCHANGED visited
    /\ GoOn("arrived")
    /\ UNCHANGED <<mode, previous, current, count, streaks, kept, delivered, observed>>

-----------------------------------------------------------------------------
(* scroll and load_more after the action                                   *)

OutOfTime ==
    /\ at = "settling" /\ late /\ Stop("budget_exceeded")
    /\ UNCHANGED <<mode, shown, steps, begun, previous, current, count, streaks, turn, kept,
                   delivered, observed>>

\* A snapshot shows progress: keep the new cards next.
Look(next) ==
    /\ current' = Snapshot /\ looked' = page.cards
    /\ SnapshotProgressed(previous, Snapshot) /\ GoOn(next)
    /\ UNCHANGED <<previous, count, weak, marginal>>

LookAfterScroll ==
    /\ at = "settling" /\ mode = "scroll"
    /\ \/ Look("gather")
       \/ /\ ~SnapshotProgressed(previous, Snapshot)
          /\ previous' = Snapshot /\ count' = Snapshot.count
          /\ weak' = weak + 1 /\ marginal' = 0
          /\ IF TargetReached(Snapshot.count) THEN Stop("target_records_reached")
             ELSE IF weak' > StreakMax THEN Stop("no_scroll_progress")
             ELSE GoOn("loop")
          /\ UNCHANGED <<current, looked>>
    /\ UNCHANGED <<mode, shown, steps, begun, best, progressed, turn, kept, delivered,
                   excused, counted, overlap, slow, gathered, richer>>

LookAfterClick ==
    /\ at = "settling" /\ mode = "load_more"
    /\ \/ Look("gather")
       \/ /\ ~SnapshotProgressed(previous, Snapshot)
          /\ current' = Snapshot /\ GoOn("gaining")
          /\ UNCHANGED <<previous, count, weak, marginal, looked>>
    /\ UNCHANGED <<mode, shown, steps, begun, best, progressed, turn, kept, delivered,
                   excused, counted, overlap, slow, gathered, richer>>

\* wait_for_load_more_card_gain: polls until the target is met or the time over.
Gained == page.cards # {} /\ Snapshot.count > previous.count

AwaitGain ==
    /\ at = "gaining"
    /\ \/ /\ Gained /\ current' = Snapshot /\ looked' = page.cards /\ GoOn("gather")
          /\ UNCHANGED <<previous, count>>
       \/ /\ ~Gained \/ late
          /\ previous' = current /\ count' = current.count /\ Stop("no_progress")
          /\ UNCHANGED <<current, looked>>
    /\ UNCHANGED <<mode, shown, steps, begun, streaks, turn, kept, delivered, excused,
                   counted, overlap, slow, gathered, richer>>

\* The same when the button is gone.
AwaitLastGain ==
    /\ at = "last_gain"
    /\ \/ /\ Gained /\ previous' = Snapshot /\ count' = Snapshot.count /\ looked' = page.cards
          /\ GoOn("last_gather")
       \/ (~Gained \/ late) /\ Stop("not_found") /\ UNCHANGED <<previous, count, looked>>
    /\ UNCHANGED <<mode, shown, steps, begun, current, streaks, turn, kept, delivered, excused,
                   counted, overlap, slow, gathered, richer>>

\* Mutant: what the last click brought is counted and not kept.
GatherLast_Unkept ==
    /\ at = "last_gather" /\ UNCHANGED <<kept, looked, excused>>
    /\ Stop(IF TargetReached(count) THEN "target_records_reached" ELSE "not_found")
    /\ UNCHANGED <<mode, shown, steps, begun, previous, current, count, streaks, turn,
                   delivered, counted, overlap, slow, gathered, richer>>

GatherLast ==
    /\ at = "last_gather" /\ AppendFragment
    /\ Stop(IF TargetReached(count) THEN "target_records_reached" ELSE "not_found")
    /\ UNCHANGED <<mode, shown, steps, begun, previous, current, count, streaks, turn,
                   delivered, counted, overlap, slow, gathered, richer>>

-----------------------------------------------------------------------------
(* paginate after the turn                                                 *)

\* Mutant: only a click's URL is looked up, a link's was before it was followed.
Cycle_Clicks == page.url \in visited /\ intended = None /\ page.url # from

\* A link that is redirected to a URL seen before, or a click that leads to one.
Cycle ==
    /\ page.url \in visited
    /\ page.url # IF intended # None THEN intended ELSE from

Arrived ==
    /\ at = "arrived"
    /\ slow' = (slow \/ heading # None)
    /\ IF page.block THEN Stop("blocked") /\ UNCHANGED visited
       ELSE IF Cycle THEN Stop("cycle_detected") /\ UNCHANGED visited
       ELSE GoOn("look") /\ visited' = visited \cup {page.url}
    /\ UNCHANGED <<mode, shown, steps, begun, previous, current, count, streaks, intended,
                   from, kept, delivered, looked, excused, counted, overlap, gathered, richer>>

LookAtPage ==
    /\ at = "look" /\ current' = Snapshot
    /\ IF PageProgressed(previous, Snapshot)
         THEN /\ GoOn("gather") /\ looked' = page.cards
              /\ counted' = counted \cup page.cards
              /\ overlap' = (overlap \/ page.cards \cap counted # {})
         ELSE Stop("no_progress") /\ UNCHANGED <<looked, counted, overlap>>
    /\ UNCHANGED <<mode, shown, steps, begun, previous, count, streaks, turn, kept, delivered,
                   excused, slow, gathered, richer>>

\* A first page that has few cards and no next page may still be loading.
Settle ==
    /\ at = "thin" /\ current' = Snapshot
    /\ IF SnapshotProgressed(previous, Snapshot)
         THEN GoOn("thin_gather") /\ counted' = page.cards /\ looked' = page.cards
         ELSE Stop("not_found") /\ UNCHANGED <<counted, looked>>
    /\ UNCHANGED <<mode, shown, steps, begun, previous, count, streaks, turn, kept, delivered,
                   excused, overlap, slow, gathered, richer>>

GatherSettled ==
    /\ at = "thin_gather" /\ AppendFragment /\ gathered' = gathered \cup {page.url}
    /\ progressed' = TRUE /\ previous' = current /\ count' = current.count /\ GoOn("loop")
    /\ UNCHANGED <<mode, shown, steps, begun, current, best, weak, marginal, turn,
                   delivered, counted, overlap, slow, richer>>

-----------------------------------------------------------------------------
(* Progress                                                                *)

\* _paginate_fragment_budget_reached, asked when the target is met or not set
BudgetReached(n) == mode = "paginate" /\ size' >= Capacity /\ (Target > 0 => n >= Target)

\* The cards of a step that made progress are kept and the step is judged.
Gather ==
    /\ at = "gather" /\ AppendFragment /\ gathered' = gathered \cup {page.url}
    /\ LET total == IF mode = "paginate" THEN count + current.count ELSE current.count
       IN  /\ count' = total
           /\ best' = Larger(best, Gain)
           /\ marginal' = IF MarginalGain(best') THEN marginal + 1 ELSE 0
           /\ IF TargetReached(total) THEN Stop("target_records_reached")
              ELSE IF BudgetReached(total) THEN Stop("fragment_budget_reached")
              ELSE IF marginal' > StreakMax THEN Stop("marginal_gain")
              ELSE GoOn("loop")
    /\ weak' = 0 /\ progressed' = TRUE
    /\ previous' = current
    /\ UNCHANGED <<mode, shown, steps, begun, current, turn, delivered, counted, overlap, slow,
                   richer>>

-----------------------------------------------------------------------------
(* _select_primary_browser_html: the fragments or the page as it is now.   *)

\* Mutant: a page with enough cards is preferred whatever the fragments hold.
PrefersPage_Enough(now, then) ==
    \/ now > then \/ count >= Enough
    \/ stop \in {"not_found", "no_progress", "click_failed", "blocked"}

\* now, then: the links to details in the page and in the fragments.
PrefersPage(now, then) ==
    \/ now > then
    \/ ~(progressed /\ (count >= Enough \/ then >= Larger(2, now)))
       /\ \/ count >= Enough
          \/ /\ stop \in {"not_found", "no_progress", "click_failed", "blocked"}
             /\ ~(stop = "blocked" /\ then >= Larger(2, Enough))

\* The links counted are those of the whole HTML: of the cards, if the site's are
\* known to lead to details, and any others, which a fragment of cards has not.
Deliver ==
    /\ at = "stopped" /\ at' = "done"
    /\ \E marked \in {0, 1}, there, here \in 0 .. MaxOthers :
          LET now  == marked * Cardinality(page.cards) + there
              then == marked * size + here
          IN  /\ fallback = None => here = 0
              /\ delivered' = IF PrefersPage(now, then) THEN page.cards ELSE held
              /\ richer' = (now > then)
    /\ UNCHANGED <<mode, shown, stop, steps, begun, previous, current, count, streaks, turn,
                   kept, looked, excused, counted, overlap, slow, gathered>>

-----------------------------------------------------------------------------

Step ==
    \/ Open \/ OpenFirstPage \/ Count \/ KeepFirstPage
    \/ LimitReached \/ Act \/ ClickFails \/ NotFound \/ FollowLink \/ ClickNext
    \/ OutOfTime \/ LookAfterScroll \/ LookAfterClick \/ AwaitGain \/ AwaitLastGain \/ GatherLast
    \/ Arrived \/ LookAtPage \/ Settle \/ GatherSettled \/ Gather
    \/ Deliver

Finished == at \in {"done", "raised"} /\ UNCHANGED traversalVars

TraversalNext == Step \/ Raises \/ Arrive \/ Commit \/ Deadline \/ Finished

TraversalSpec == TraversalInit /\ [][TraversalNext]_traversalVars

-----------------------------------------------------------------------------

TraversalTypeOK ==
    /\ page \in [url: Pages, cards: SUBSET Cards, content: 0 .. MaxChanges, block: BOOLEAN]
    /\ seen \subseteq held /\ held \subseteq Cards /\ delivered \subseteq Cards
    /\ visited \subseteq Pages /\ steps \in 0 .. Cap

\* Safety.  The card_count that a traversal ends with, by which it judges
\* whether max_records is reached, is of cards that it has kept: not more of
\* them were counted than are in the fragments.  Excused: cards that had gone
\* from the page when those counted were to be kept, cards that came between the
\* first fragment and the first snapshot of scroll and load_more, cards that a
\* full fragment had no room for, pages that repeat cards, and navigations that
\* commit after the traversal has stopped waiting for them.
CountIsKept ==
    at = "stopped" /\ ~overlap /\ ~slow => count <= Cardinality(held \cup excused)

\* Safety.  No page is gathered twice, though links lead back and servers
\* redirect: what a turn adds is from a URL that nothing was added from before, or
\* from the one at which a click stayed.  Excused: navigations that commit after
\* the traversal has stopped waiting for them.
NoPageTwice ==
    [][at = "gather" /\ at' \notin {"gather", "raised"} /\ mode = "paginate" /\ ~slow =>
          page.url \notin gathered \/ (intended = None /\ page.url = from)]_traversalVars

\* Safety.  When a traversal that made progress stops because max_records is
\* reached, the HTML that the fetch goes on with has that many cards, whatever
\* the page shows by then and whatever a snapshot missed.  Excused: what
\* CountIsKept excuses, and a page with more links to details than the fragments,
\* which is taken although they may be of a menu.
TargetIsDelivered ==
    at = "done" /\ stop = "target_records_reached" /\ progressed /\ ~overlap /\ ~slow /\ ~richer
        => Target <= Cardinality(delivered \cup excused)

\* docs/backend-architecture.md:257: "traversal stop reasons remain diagnostic
\* when the first rendered listing page is already usable".  Does not hold: when
\* the second page is a challenge, the challenge is what is delivered.
UsableFirstPageIsDelivered ==
    at = "done" /\ stop = "blocked" /\ count >= Enough => delivered # {}
=============================================================================
