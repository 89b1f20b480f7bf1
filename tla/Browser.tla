------------------------------ MODULE Browser ------------------------------
(***************************************************************************)
(* The dashboard page and what it is served: the tailer that broadcasts    *)
(* and ingests a batch of log lines under the store's write lock, the      *)
(* queries that wait for that lock, the event stream that does not, and    *)
(* the page's own state: the values it knows, its feed, and the session    *)
(* archive it loads page by page. The dashboard may be restarted under an  *)
(* open page; it then reads the log again from its start.                  *)
(*                                                                         *)
(* An event is known by its line in the log. The log is taken as it is     *)
(* appended to; its rotation is the subject of LogTail.                    *)
(***************************************************************************)
EXTENDS Store

CONSTANTS
    Fed,           \* the kinds of event the modelled log holds
    MaxLines,      \* bound on the lines of the log
    BroadcastCap,  \* BROADCAST_CAPACITY
    FeedCap,       \* FEED_CAP
    FeedLimit,     \* events the first feed asks for
    PageLimit,     \* sessionArchive.limit
    MaxRequests,   \* bound on the page requests in flight
    MaxMishaps     \* bound on the restarts of the dashboard and overlapping requests

ASSUME BrowserAssumption ==
    /\ Fed \subseteq Kinds
    /\ {BroadcastCap, FeedCap, FeedLimit, PageLimit} \subseteq Nat \ {0}
    /\ {MaxLines, MaxRequests, MaxMishaps} \subseteq Nat

VARIABLES
    log,         \* the lines of attacks.json
    upto,        \* the last line of the batch being ingested
    broadcast,   \* the last line that was sent to the streams
    run,         \* dashboard restarts so far
    stage,       \* of the page's boot: "known", "feed", "stream"
    streaming,   \* the EventSource is connected
    live,        \* events sent and not yet taken by the page
    values,      \* the page's `known`
    feed,        \* state.feed, newest first
    flagged,     \* history: the values some event was flagged NEW for
    backlog,     \* history: the values ingested when the page read the known ones
    items,       \* sessionArchive.items
    offset,      \* sessionArchive.offset
    total,       \* sessionArchive.total
    more,        \* the button for another page is shown
    requests,    \* calls of loadSessions that wait for their answer
    overlapped,  \* history: a page was asked for while another was on its way
    steady       \* history: the sessions archived ever since the first page

store == vars
tailer == <<log, upto, broadcast, run>>
stream == <<streaming, live>>
chain == <<stage, values, flagged, backlog>>
archive == <<items, offset, total, more, requests, overlapped>>
page == <<stream, chain, feed, archive, steady>>

-----------------------------------------------------------------------------
(* The dashboard *)

Mishaps == run + (IF overlapped THEN 1 ELSE 0)

\* A line of the log, as it stands in a stream or a feed of this run.
Item(n) == [run |-> run, line |-> n]

AppendLine ==
    /\ Len(log) < MaxLines
    /\ \E k \in Fed, id \in Ids, w \in Words : log' = Append(log, Event(k, id, w, hour))
    /\ UNCHANGED <<store, upto, broadcast, run, page>>

\* Mutant: the store is locked for each line, after the line was sent.
LockedPerLine == FALSE

\* The write lock is held from the first line of a batch to its last.
Locked == upto > Len(ingested)

\* One turn of tail_attacks_log: the complete lines it found.
TakeBatch ==
    /\ upto = Len(ingested) /\ Len(log) > upto
    /\ \E n \in upto + 1 .. Len(log) : upto' = n
    /\ UNCHANGED <<store, log, broadcast, run, page>>

\* Mutant: a stream that lags is given the oldest events again.
BacklogRepeating(items_sent) ==
    LET all == live \o items_sent
    IN  IF Len(all) > BroadcastCap THEN SubSeq(all, 1, BroadcastCap - 1) \o <<Head(all)>> ELSE all

\* A stream that lags loses its oldest events.
Backlog(items_sent) ==
    LET all == live \o items_sent
    IN  SubSeq(all, IF Len(all) > BroadcastCap THEN Len(all) - BroadcastCap + 1 ELSE 1, Len(all))

\* live.send, then store.ingest, line by line.
Send ==
    /\ broadcast = Len(ingested) /\ broadcast < upto
    /\ broadcast' = broadcast + 1
    /\ live' = IF streaming THEN Backlog(<<Item(broadcast + 1)>>) ELSE live
    /\ UNCHANGED <<store, log, upto, run, streaming, chain, feed, archive, steady>>

Fold ==
    /\ broadcast > Len(ingested)
    /\ ingest(log[broadcast])
    /\ steady' = steady \cap DOMAIN sessions'
    /\ UNCHANGED <<tailer, stream, chain, feed, archive>>

\* The process is started again, with an empty store and from the first line.
RestartDashboard ==
    /\ Mishaps < MaxMishaps
    /\ run' = run + 1
    /\ StoreEmptied
    /\ upto' = 0 /\ broadcast' = 0
    /\ streaming' = FALSE /\ live' = <<>>
    /\ steady' = {}
    /\ UNCHANGED <<log, chain, feed, archive>>

Take(s, n) == SubSeq(s, 1, IF Len(s) < n THEN Len(s) ELSE n)

\* recent_events: the newest first.
recent_events(limit) == Take([i \in 1..Len(recent) |-> Item(Len(ingested) + 1 - i)], limit)

\* known_values: full commands, and the user names and passwords counted.
known_values ==
    {<<"CommandRun", w>> : w \in known["CommandRun"]}
    \cup {<<"CredentialHarvest", w>> : w \in DOMAIN word_counts["CredentialHarvest"]}

\* rev() of an iterator.
Reverse(s) == [i \in 1..Len(s) |-> s[Len(s) - i + 1]]

\* Mutant: the archive is listed from its oldest session on.
SessionsOldestFirst(from) == Take(SubSeq(session_order, from + 1, Len(session_order)), PageLimit)

\* Store::sessions without a search: a page of the archive, newest first.
sessions_page(from) ==
    Take(SubSeq(Reverse(session_order), from + 1, Len(session_order)), PageLimit)

-----------------------------------------------------------------------------
(* The feed of the page *)

Valued(e) == e.kind \in {"CommandRun", "CredentialHarvest"}
Value(it) == <<log[it.line].kind, log[it.line].word>>
ValuesOf(its) == {Value(its[i]) : i \in {j \in 1..Len(its) : Valued(log[its[j].line])}}

\* pushEvents: each event is marked, then all go in front of the feed.
pushEvents(its) ==
    /\ flagged' = flagged \cup (ValuesOf(its) \ values)
    /\ values' = values \cup ValuesOf(its)
    /\ feed' = Take(its \o feed, FeedCap)

\* Mutant: the known values are asked for when the feed has been filled.
FeedFirst(now) == IF now = "known" THEN "feed" ELSE IF now = "feed" THEN "known" ELSE now

\* loadKnownValues().then(loadInitialFeed).then(connectStream)
BootStep(now) == now

\* A request that fails is passed over.
loadKnownValues ==
    /\ stage # "stream" /\ BootStep(stage) = "known"
    /\ stage' = IF stage = "known" THEN "feed" ELSE "stream"
    /\ \/ /\ ~Locked
          /\ values' = values \cup known_values
          /\ backlog' = {<<e.kind, e.word>> : e \in {x \in Range(ingested) : Valued(x)}}
       \/ UNCHANGED <<values, backlog>>
    /\ UNCHANGED <<store, tailer, stream, feed, flagged, archive, steady>>

loadInitialFeed ==
    /\ stage # "stream" /\ BootStep(stage) = "feed"
    /\ stage' = IF stage = "known" THEN "feed" ELSE "stream"
    /\ \/ ~Locked /\ pushEvents(recent_events(FeedLimit))
       \/ UNCHANGED <<flagged, values, feed>>
    /\ UNCHANGED <<store, tailer, stream, backlog, archive, steady>>

\* The EventSource connects, and connects again whenever it was cut off.
connectStream ==
    /\ stage = "stream" /\ ~streaming
    /\ streaming' = TRUE /\ live' = <<>>
    /\ UNCHANGED <<store, tailer, chain, feed, archive, steady>>

CutOff ==
    /\ streaming
    /\ streaming' = FALSE /\ live' = <<>>
    /\ UNCHANGED <<store, tailer, chain, feed, archive, steady>>

Push ==
    /\ live # <<>>
    /\ pushEvents(<<Head(live)>>)
    /\ live' = Tail(live)
    /\ UNCHANGED <<store, tailer, streaming, stage, backlog, archive, steady>>

-----------------------------------------------------------------------------
(* The session archive of the page: loadSessions *)

Ask(from, first) ==
    /\ Len(requests) < MaxRequests
    /\ requests # <<>> /\ ~overlapped => Mishaps < MaxMishaps
    /\ requests' = Append(requests, [first |-> first, from |-> from, got |-> <<>>])
    /\ overlapped' = (requests # <<>> \/ (overlapped /\ ~first))

\* At boot, and after the search text has changed.
LoadFirst ==
    /\ Ask(0, TRUE)
    /\ items' = <<>> /\ offset' = 0
    /\ UNCHANGED <<store, tailer, stream, chain, feed, total, more, steady>>

\* The button is as the last rendering left it: it takes no notice of a page
\* that is on its way, or of a list that was emptied for a first page.
LoadMore ==
    /\ more
    /\ Ask(offset, FALSE)
    /\ UNCHANGED <<store, tailer, stream, chain, feed, items, offset, total, more, steady>>

\* The handler reads the archive; its answer is on its way.
AnswerPage(r) ==
    /\ ~Locked /\ requests[r].got = <<>>
    /\ requests' = [requests EXCEPT ![r].got =
                      <<[page |-> sessions_page(requests[r].from), total |-> Len(session_order)]>>]
    /\ steady' = IF requests[r].first THEN DOMAIN sessions ELSE steady
    /\ UNCHANGED <<store, tailer, stream, chain, feed, items, offset, total, more, overlapped>>

\* A request that is over is no longer in flight.
RemoveAt(s, i) == SubSeq(s, 1, i - 1) \o SubSeq(s, i + 1, Len(s))

TakePage(r) ==
    /\ requests[r].got # <<>>
    /\ LET data == requests[r].got[1] IN
       /\ items' = items \o data.page
       /\ offset' = offset + Len(data.page)
       /\ total' = data.total
       /\ more' = (items' # <<>> /\ Len(items') < total')
    /\ requests' = RemoveAt(requests, r)
    /\ UNCHANGED <<store, tailer, stream, chain, feed, overlapped, steady>>

\* A failed request changes nothing.
PageFails(r) ==
    /\ requests' = RemoveAt(requests, r)
    /\ UNCHANGED <<store, tailer, stream, chain, feed, items, offset, total, more, overlapped, steady>>

-----------------------------------------------------------------------------
BrowserInit ==
    /\ StoreInit
    /\ log = <<>> /\ upto = 0 /\ broadcast = 0 /\ run = 0
    /\ stage = "known" /\ streaming = FALSE /\ live = <<>>
    /\ values = {} /\ feed = <<>> /\ flagged = {} /\ backlog = {}
    /\ items = <<>> /\ offset = 0 /\ total = 0 /\ more = FALSE
    /\ requests = <<>> /\ overlapped = FALSE /\ steady = {}

Tailer == AppendLine \/ TakeBatch \/ Send \/ Fold \/ RestartDashboard
Feed == loadKnownValues \/ loadInitialFeed \/ connectStream \/ CutOff \/ Push
Pages ==
    \/ LoadFirst \/ LoadMore
    \/ \E r \in 1..Len(requests) : AnswerPage(r) \/ TakePage(r) \/ PageFails(r)

BrowserNext == Tailer \/ Feed \/ Pages

BrowserSpec == BrowserInit /\ [][BrowserNext]_<<store, tailer, page>>

-----------------------------------------------------------------------------
(* Properties *)

\* Of what one run of the dashboard has sent it the page shows no event twice,
\* and none before an event that came after it, across lagging and broken
\* streams: the stream is opened only after the first feed was read, and the
\* tailer sends each line once. It may miss events in between.
FeedOnceInOrder ==
    LET shown == Reverse(live) \o feed IN
    \A i, j \in 1..Len(shown) :
        i < j /\ shown[i].run = shown[j].run => shown[i].line > shown[j].line

\* Whatever the page asks for after it was shown an event takes that event into
\* account: an event is sent before it is ingested, but no query gets at the
\* store in between, so that the refresh of the map a SESSION_START triggers
\* finds the session.
AnswersCoverFeed ==
    ~Locked => \A i \in 1..Len(feed) : feed[i].run = run => feed[i].line <= Len(ingested)

BacklogOf(kind) == {v \in backlog : v[1] = kind}
CapOf(kind) == IF kind = "CommandRun" THEN KnownCap ELSE CounterCap

\* No value of the backlog is flagged NEW: none that the store had ingested when
\* the page read the known values, a later restart and the log read again
\* included, as long as the store was not asked to know more values than it
\* keeps. The comment at the boot of the page asks for its order of requests.
BacklogNotNew ==
    \A kind \in {"CommandRun", "CredentialHarvest"} :
        Cardinality(BacklogOf(kind)) <= CapOf(kind) => flagged \cap BacklogOf(kind) = {}

\* When the page offers no more of the archive it shows every session that was
\* there ever since its first page, whatever sessions have started and
\* been evicted meanwhile; unless two requests were on their way at once, which
\* ask for the same offset and move it twice.
PagesMissNothing ==
    ~overlapped /\ requests = <<>> /\ items # <<>> /\ ~more
        => steady \subseteq Range(items)
=============================================================================
