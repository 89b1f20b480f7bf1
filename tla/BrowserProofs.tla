--------------------------- MODULE BrowserProofs ---------------------------
(***************************************************************************)
(* What a page of the dashboard may rely on, for a log of any length, any  *)
(* capacity of the stream and the feed, any number of restarts and of      *)
(* requests.                                                               *)
(***************************************************************************)
EXTENDS Browser, ArchiveProofs

\* The provers of a leaf that names none, in turn, and the seconds each has.
USE SMTT(20), ZenonT(20), Z3T(20)

Lines == {Event(k, id, w, hour) : k \in Fed, id \in Ids, w \in Words}
Items == [run : Nat, line : Int]

FeedTypes ==
    /\ log \in Seq(Lines) /\ ingested \in Seq(Lines) /\ recent \in Seq(Lines)
    /\ upto \in Nat /\ broadcast \in Nat /\ run \in Nat
    /\ live \in Seq(Items) /\ feed \in Seq(Items)

\* Where the tailer stands in its batch.
Batch ==
    /\ Len(ingested) <= broadcast /\ broadcast <= Len(ingested) + 1
    /\ broadcast <= upto /\ upto <= Len(log)

\* Nothing was shown that has not been sent, and a stream is of this run.
Sent ==
    /\ \A i \in 1..Len(live) : live[i].run = run /\ live[i].line <= broadcast
    /\ \A i \in 1..Len(feed) : /\ feed[i].run <= run
                               /\ feed[i].run = run => feed[i].line <= broadcast

Ascending(s) ==
    \A i, j \in 1..Len(s) : i < j /\ s[i].run = s[j].run => s[i].line < s[j].line
Descending(s) ==
    \A i, j \in 1..Len(s) : i < j /\ s[i].run = s[j].run => s[i].line > s[j].line
After(s, t) ==
    \A i \in 1..Len(s), j \in 1..Len(t) : s[i].run = t[j].run => s[i].line > t[j].line

FeedInv ==
    /\ FeedTypes /\ Batch /\ Sent
    /\ Ascending(live) /\ Descending(feed) /\ After(live, feed)
    /\ stage # "stream" => feed = <<>>
    /\ ~streaming => live = <<>>
    /\ streaming => stage = "stream"

-----------------------------------------------------------------------------
(* Sequences *)

\* An item of a stream or a feed has a run and a line.
LEMMA ItemFields ==
    ASSUME NEW s \in Seq(Items)
    PROVE  \A i \in 1..Len(s) : s[i] \in Items /\ s[i].run \in Nat /\ s[i].line \in Int
  <1>1. \A i \in 1..Len(s) : s[i] \in Items
    OBVIOUS
  <1> QED BY <1>1 DEF Items

\* The feed is cut at its end, where its oldest events are.
LEMMA TakeIsPrefix ==
    ASSUME NEW S, NEW s \in Seq(S), NEW n \in Nat
    PROVE  /\ Take(s, n) \in Seq(S) /\ Len(Take(s, n)) <= Len(s)
           /\ \A i \in 1..Len(Take(s, n)) : i \in 1..Len(s) /\ Take(s, n)[i] = s[i]
  BY DEF Take

\* A stream that lags holds the end of what was sent.
LEMMA BacklogIsSuffix ==
    ASSUME live \in Seq(Items), NEW x \in Items
    PROVE  /\ Backlog(<<x>>) \in Seq(Items)
           /\ \E d \in Nat : \A i \in 1..Len(Backlog(<<x>>)) :
                i + d \in 1..(Len(live) + 1) /\ Backlog(<<x>>)[i] = Append(live, x)[i + d]
  <1> DEFINE all == live \o <<x>>
             d == IF Len(all) > BroadcastCap THEN Len(all) - BroadcastCap ELSE 0
  <1>1. /\ all \in Seq(Items) /\ Len(all) = Len(live) + 1 /\ Len(all) \in Nat
        /\ \A i \in 1..Len(all) : all[i] = Append(live, x)[i]
    OBVIOUS
  <1>2. BroadcastCap \in Nat \ {0}
    BY BrowserAssumption
  <1> HIDE DEF all
  <1>3. d \in Nat /\ d + 1 \in 1..Len(all) /\ Backlog(<<x>>) = SubSeq(all, d + 1, Len(all))
    BY <1>1, <1>2 DEF Backlog, all
  <1> HIDE DEF d
  <1>4. /\ SubSeq(all, d + 1, Len(all)) \in Seq(Items)
        /\ Len(SubSeq(all, d + 1, Len(all))) = Len(all) - d
        /\ \A i \in 1..(Len(all) - d) : SubSeq(all, d + 1, Len(all))[i] = all[i + d]
    BY <1>1, <1>3
  <1>5. \A i \in 1..Len(Backlog(<<x>>)) :
          i + d \in 1..(Len(live) + 1) /\ Backlog(<<x>>)[i] = Append(live, x)[i + d]
    <2> SUFFICES ASSUME NEW i \in 1..(Len(all) - d)
                 PROVE  /\ i + d \in 1..(Len(live) + 1)
                        /\ Backlog(<<x>>)[i] = Append(live, x)[i + d]
      BY <1>3, <1>4, Zenon
    <2>1. i + d \in 1..Len(all)
      BY <1>1, <1>3
    <2> QED BY <1>1, <1>3, <1>4, <2>1, Zenon
  <1> QED BY <1>3, <1>4, <1>5, Zenon

-----------------------------------------------------------------------------
(* Steps of the dashboard *)

\* A step that shows the page nothing.
LEMMA PageKept ==
    ASSUME FeedInv, FeedTypes', Batch', UNCHANGED <<run, broadcast, streaming, live, stage, feed>>
    PROVE  FeedInv'
  <1>1. Sent'
    BY DEF FeedInv, Sent
  <1> QED BY <1>1 DEF FeedInv, Ascending, Descending, After

\* A step that leaves the log, the tailer and the feed alone.
LEMMA FeedUntouched ==
    ASSUME FeedInv, UNCHANGED <<store, tailer, streaming, live, stage, feed>>
    PROVE  FeedInv'
  BY DEF FeedInv, FeedTypes, Batch, Sent, Ascending, Descending, After, Lines,
         store, vars, tailer

\* The gateway logs another line.
LEMMA AppendKeepsFeed ==
    ASSUME FeedInv, AppendLine
    PROVE  FeedInv'
  <1>1. PICK e \in Lines : log' = Append(log, e)
    BY DEF AppendLine, Lines
  <1>2. Lines' = Lines
    BY DEF AppendLine, store, vars, Lines
  <1>3. FeedTypes'
    BY <1>1, <1>2 DEF FeedInv, FeedTypes, AppendLine, store, vars, page, stream
  <1>4. Len(log') = Len(log) + 1 /\ Len(log) \in Nat
    BY <1>1 DEF FeedInv, FeedTypes
  <1>5. Batch'
    BY <1>4 DEF FeedInv, FeedTypes, Batch, AppendLine, store, vars
  <1> QED BY <1>3, <1>5, PageKept DEF AppendLine, page, stream, chain

\* A batch never goes beyond the log.
LEMMA BatchKeepsFeed ==
    ASSUME FeedInv, TakeBatch
    PROVE  FeedInv'
  <1>1. upto' \in Nat /\ upto < upto' /\ upto' <= Len(log) /\ upto' \in Int
    BY DEF TakeBatch, FeedInv, FeedTypes
  <1>2. FeedTypes'
    BY <1>1 DEF FeedInv, FeedTypes, TakeBatch, store, vars, page, stream, Lines
  <1>3. Batch'
    BY <1>1 DEF FeedInv, FeedTypes, Batch, TakeBatch, store, vars
  <1> QED BY <1>2, <1>3, PageKept DEF TakeBatch, page, stream, chain

\* What is sent comes after all that is in the stream and in the feed.
LEMMA SendKeepsFeed ==
    ASSUME FeedInv, Send
    PROVE  FeedInv'
  <1> DEFINE x == Item(broadcast + 1)
  <1>0. /\ x \in Items /\ x.run = run /\ x.line = broadcast + 1
        /\ broadcast \in Nat /\ broadcast' = broadcast + 1 /\ live \in Seq(Items)
        /\ run' = run /\ feed' = feed
    BY DEF Item, Items, FeedInv, FeedTypes, Send
  <1> HIDE DEF x
  <1>a. /\ \A i \in 1..Len(live) : live[i].run \in Nat /\ live[i].line \in Int
        /\ \A i \in 1..Len(feed) : feed[i].run \in Nat /\ feed[i].line \in Int
    BY ItemFields DEF FeedInv, FeedTypes
  <1>1. Batch'
    BY DEF FeedInv, FeedTypes, Batch, Send, store, vars
  <1>2. CASE ~streaming
    <2>0. live' = live
      BY <1>2 DEF Send
    <2>1. live' = live /\ live = <<>>
      BY <1>2, <2>0 DEF FeedInv
    <2>2. FeedTypes'
      <3>1. live' \in Seq(Items) /\ broadcast' \in Nat
        BY <1>0, <2>0
      <3> QED BY <1>0, <3>1 DEF FeedInv, FeedTypes, Send, store, vars, Lines
    <2>3. Sent'
      BY <1>0, <1>a, <2>1 DEF FeedInv, Sent
    <2>4. /\ Ascending(live)' /\ Descending(feed)' /\ After(live, feed)'
      <3>1. /\ Ascending(live)' = Ascending(live) /\ Descending(feed)' = Descending(feed)
            /\ After(live, feed)' = After(live, feed)
        BY <1>0, <2>0, Zenon DEF Ascending, Descending, After
      <3> QED BY <3>1, Zenon DEF FeedInv
    <2>5. stage' = stage /\ streaming' = streaming
      BY DEF Send, chain
    <2>6. (stage # "stream" => feed = <<>>) /\ (streaming => stage = "stream")
      BY DEF FeedInv
    <2> QED BY <1>0, <1>1, <2>1, <2>2, <2>3, <2>4, <2>5, <2>6, ZenonT(30) DEF FeedInv
  <1>3. CASE streaming
    <2>1. live' = Backlog(<<x>>)
      BY <1>3 DEF Send, x
    <2>2. PICK d \in Nat : \A i \in 1..Len(live') :
            i + d \in 1..(Len(live) + 1) /\ live'[i] = Append(live, x)[i + d]
      BY <1>0, <2>1, BacklogIsSuffix, Zenon
    <2>3. live' \in Seq(Items)
      BY <1>0, <2>1, BacklogIsSuffix
    <2>4. FeedTypes'
      BY <1>0, <2>3 DEF FeedInv, FeedTypes, Send, store, vars, Lines
    <2>5. \A k \in 1..(Len(live) + 1) :
            IF k = Len(live) + 1 THEN Append(live, x)[k] = x
            ELSE k \in 1..Len(live) /\ Append(live, x)[k] = live[k]
      BY <1>0
    <2>6. ASSUME NEW i \in 1..Len(live')
          PROVE  /\ live'[i].run = run /\ live'[i].line <= broadcast + 1
                 /\ live'[i].line \in Int
                 /\ \A j \in 1..Len(feed) :
                      live'[i].run = feed[j].run => live'[i].line > feed[j].line
      <3>1. CASE i + d = Len(live) + 1
        <4>1. live'[i] = x
          BY <2>2, <2>5, <3>1
        <4>2. \A j \in 1..Len(feed) :
                feed[j].run = run => feed[j].line \in Int /\ feed[j].line <= broadcast
          BY <1>a DEF FeedInv, Sent
        <4> QED BY <1>0, <4>1, <4>2
      <3>2. CASE i + d # Len(live) + 1
        <4>1. i + d \in 1..Len(live) /\ live'[i] = live[i + d]
          BY <2>2, <2>5, <3>2
        <4>2. live[i + d].line \in Int /\ live[i + d].line <= broadcast
          BY <4>1, <1>a DEF FeedInv, Sent
        <4>3. \A j \in 1..Len(feed) :
                live[i + d].run = feed[j].run => live[i + d].line > feed[j].line
          BY <4>1 DEF FeedInv, After
        <4>4. live[i + d].run = run
          BY <4>1 DEF FeedInv, Sent
        <4> QED BY <1>0, <4>1, <4>2, <4>3, <4>4
      <3> QED BY <3>1, <3>2
    <2>7. Ascending(live')
      <3> SUFFICES ASSUME NEW i \in 1..Len(live'), NEW j \in 1..Len(live'), i < j
                   PROVE  live'[i].line < live'[j].line
        BY DEF Ascending
      <3>1. i + d < j + d /\ i + d # Len(live) + 1
        BY <1>0, <2>2
      <3>2. i + d \in 1..Len(live) /\ live'[i] = live[i + d] /\ live[i + d].run = run
        BY <2>2, <2>5, <3>1 DEF FeedInv, Sent
      <3>3. live[i + d].line \in Int /\ live[i + d].line <= broadcast
        BY <1>a, <3>2 DEF FeedInv, Sent
      <3>4. CASE j + d = Len(live) + 1
        <4>1. live'[j] = x
          BY <2>2, <2>5, <3>4
        <4> QED BY <1>0, <3>2, <3>3, <4>1
      <3>5. CASE j + d # Len(live) + 1
        <4>1. j + d \in 1..Len(live) /\ live'[j] = live[j + d] /\ live[j + d].run = run
          BY <2>2, <2>5, <3>5 DEF FeedInv, Sent
        <4> QED BY <3>1, <3>2, <4>1 DEF FeedInv, Ascending
      <3> QED BY <3>4, <3>5
    <2>8. Sent'
      <3>1. \A i \in 1..Len(live') : live'[i].run = run' /\ live'[i].line <= broadcast'
        BY <1>0, <2>6
      <3>2. \A i \in 1..Len(feed) : /\ feed[i].run <= run /\ feed[i].line \in Int
                                    /\ feed[i].run = run => feed[i].line <= broadcast
        BY <1>a DEF FeedInv, Sent
      <3> QED BY <1>0, <3>1, <3>2 DEF Sent
    <2>9. After(live', feed')
      BY <1>0, <2>6 DEF After
    <2> QED BY <1>0, <1>1, <1>3, <2>4, <2>7, <2>8, <2>9 DEF FeedInv, Descending, Send, chain
  <1> QED BY <1>2, <1>3

\* ingest catches up with what was sent.
LEMMA FoldKeepsFeed ==
    ASSUME FeedInv, Fold
    PROVE  FeedInv'
  <1>0. /\ UNCHANGED <<log, upto, broadcast, run, streaming, live, stage, feed, hour>>
        /\ ingested' = Append(ingested, log[broadcast]) /\ recent' = PushRecent(log[broadcast])
    BY DEF Fold, ingest, tailer, stream, chain
  <1>1. broadcast = Len(ingested) + 1 /\ broadcast \in 1..Len(log)
    BY DEF FeedInv, FeedTypes, Batch, Fold
  <1>2. log[broadcast] \in Lines /\ Lines' = Lines
    BY <1>0, <1>1 DEF FeedInv, FeedTypes, Lines
  <1>3. ingested' \in Seq(Lines) /\ Len(ingested') = Len(ingested) + 1
    BY <1>0, <1>2 DEF FeedInv, FeedTypes
  <1>4. recent' \in Seq(Lines)
    <2>0. recent \in Seq(Lines)
      BY DEF FeedInv, FeedTypes
    <2>1. Append(recent, log[broadcast]) \in Seq(Lines)
      BY <1>2, <2>0
    <2>2. Append(recent, log[broadcast]) # <<>>
      BY <1>2, <2>0, AppendProperties
    <2>3. Tail(Append(recent, log[broadcast])) \in Seq(Lines)
      BY <2>1, <2>2
    <2> QED BY <1>0, <2>1, <2>3 DEF PushRecent
  <1>5. FeedTypes'
    BY <1>0, <1>2, <1>3, <1>4 DEF FeedInv, FeedTypes
  <1>6. Batch'
    BY <1>0, <1>1, <1>3 DEF FeedInv, FeedTypes, Batch
  <1> QED BY <1>0, <1>5, <1>6, PageKept

\* Another run: what is in the feed is of an earlier one.
LEMMA RestartKeepsFeed ==
    ASSUME FeedInv, RestartDashboard
    PROVE  FeedInv'
  <1>0. /\ run' = run + 1 /\ upto' = 0 /\ broadcast' = 0 /\ live' = <<>> /\ streaming' = FALSE
        /\ ingested' = <<>> /\ recent' = <<>>
        /\ UNCHANGED <<log, feed, stage, hour>>
    BY DEF RestartDashboard, StoreEmptied, chain
  <1>1. FeedTypes'
    BY <1>0 DEF FeedInv, FeedTypes, Lines
  <1>2. Batch'
    BY <1>0 DEF FeedInv, FeedTypes, Batch
  <1>3. Sent'
    <2>1. \A i \in 1..Len(feed) : feed[i].run \in Nat /\ feed[i].run <= run /\ run \in Nat
      BY ItemFields DEF FeedInv, FeedTypes, Sent
    <2>2. Len(live') = 0
      BY <1>0
    <2> QED BY <1>0, <2>1, <2>2 DEF Sent
  <1>4. Ascending(live') /\ After(live', feed') /\ Descending(feed')
    BY <1>0 DEF FeedInv, Ascending, After, Descending
  <1> QED BY <1>0, <1>1, <1>2, <1>3, <1>4 DEF FeedInv

-----------------------------------------------------------------------------
(* Steps of the page *)

\* recent_events: lines of this run that were ingested, the newest first.
LEMMA RecentDescends ==
    ASSUME FeedInv
    PROVE  /\ recent_events(FeedLimit) \in Seq(Items)
           /\ Descending(recent_events(FeedLimit))
           /\ \A i \in 1..Len(recent_events(FeedLimit)) :
                /\ recent_events(FeedLimit)[i].run = run
                /\ recent_events(FeedLimit)[i].line <= Len(ingested)
  <1> DEFINE all == [i \in 1..Len(recent) |-> Item(Len(ingested) + 1 - i)]
             s == recent_events(FeedLimit)
  <1>0. Len(recent) \in Nat /\ Len(ingested) \in Nat /\ run \in Nat
    BY DEF FeedInv, FeedTypes
  <1>1. \A i \in 1..Len(recent) : /\ all[i] \in Items /\ all[i].run = run
                                  /\ all[i].line = Len(ingested) + 1 - i
    BY <1>0 DEF Item, Items
  <1>2. all \in [1..Len(recent) -> Items]
    BY <1>1
  <1> HIDE DEF all
  <1>3. all \in Seq(Items) /\ Len(all) = Len(recent)
    BY <1>0, <1>2, FunctionIsSeq
  <1>4. s = Take(all, FeedLimit) /\ FeedLimit \in Nat
    BY BrowserAssumption DEF recent_events, all
  <1> HIDE DEF s
  <1>5. /\ s \in Seq(Items)
        /\ \A i \in 1..Len(s) : i \in 1..Len(recent) /\ s[i] = all[i]
    BY <1>3, <1>4, TakeIsPrefix
  <1>6. \A i \in 1..Len(s) : s[i].run = run /\ s[i].line = Len(ingested) + 1 - i
    BY <1>1, <1>5
  <1>7. Descending(s) /\ \A i \in 1..Len(s) : s[i].line <= Len(ingested)
    BY <1>0, <1>6 DEF Descending
  <1> QED BY <1>5, <1>6, <1>7 DEF s

\* The first feed goes into a feed that is empty, before any stream is open.
LEMMA InitialFeedKeeps ==
    ASSUME FeedInv, loadInitialFeed
    PROVE  FeedInv'
  <1>0. /\ UNCHANGED <<store, tailer, streaming, live>>
        /\ feed = <<>> /\ ~streaming /\ live = <<>>
        /\ UNCHANGED <<log, ingested, recent, hour, upto, broadcast, run>>
    BY DEF loadInitialFeed, FeedInv, store, vars, tailer, stream
  <1>1. Batch'
    BY <1>0 DEF FeedInv, Batch
  <1>2. CASE UNCHANGED feed
    <2>1. FeedTypes'
      BY <1>0, <1>2 DEF FeedInv, FeedTypes, Lines
    <2>2. Sent' /\ Ascending(live') /\ Descending(feed') /\ After(live', feed')
      BY <1>0, <1>2 DEF FeedInv, Sent, Ascending, Descending, After
    <2> QED BY <1>0, <1>1, <1>2, <2>1, <2>2 DEF FeedInv
  <1>3. CASE pushEvents(recent_events(FeedLimit))
    <2> DEFINE s == recent_events(FeedLimit)
    <2>0. /\ s \in Seq(Items) /\ Descending(s)
          /\ \A i \in 1..Len(s) : s[i].run = run /\ s[i].line <= Len(ingested)
      BY RecentDescends
    <2> HIDE DEF s
    <2>1. feed' = Take(s, FeedCap) /\ FeedCap \in Nat
      <3>1. feed' = Take(s \o <<>>, FeedCap)
        BY <1>0, <1>3 DEF pushEvents, s
      <3>2. s \o <<>> = s
        BY <2>0
      <3> QED BY <3>1, <3>2, BrowserAssumption
    <2>2. /\ feed' \in Seq(Items)
          /\ \A i \in 1..Len(feed') : i \in 1..Len(s) /\ feed'[i] = s[i]
      BY <2>0, <2>1, TakeIsPrefix
    <2>3. FeedTypes'
      BY <1>0, <2>2 DEF FeedInv, FeedTypes, Lines
    <2>4. Descending(feed')
      BY <2>0, <2>2 DEF Descending
    <2>5. \A i \in 1..Len(feed') : feed'[i].run = run /\ feed'[i].line <= broadcast
      <3>1. Len(ingested) \in Nat /\ broadcast \in Nat /\ Len(ingested) <= broadcast
        BY DEF FeedInv, FeedTypes, Batch
      <3>2. \A i \in 1..Len(feed') : feed'[i].line \in Int
        BY <2>2, ItemFields
      <3> QED BY <2>0, <2>2, <3>1, <3>2
    <2>6. Sent'
      <3>1. Len(live') = 0 /\ run' = run /\ broadcast' = broadcast /\ run \in Nat
        BY <1>0 DEF FeedInv, FeedTypes
      <3> QED BY <2>5, <3>1 DEF Sent
    <2>7. Ascending(live') /\ After(live', feed')
      BY <1>0 DEF Ascending, After
    <2>8. stage' = "stream" \/ feed' = <<>>
      BY <1>0, <1>3 DEF loadInitialFeed, BootStep
    <2> QED BY <1>0, <1>1, <2>3, <2>4, <2>6, <2>7, <2>8 DEF FeedInv
  <1> QED BY <1>2, <1>3 DEF loadInitialFeed

\* The oldest event of the stream becomes the newest of the feed.
LEMMA PushKeepsFeed ==
    ASSUME FeedInv, Push
    PROVE  FeedInv'
  <1> DEFINE x == Head(live)
             shown == <<x>> \o feed
  <1>0. /\ UNCHANGED <<log, ingested, recent, hour, upto, broadcast, run, streaming, stage>>
        /\ live \in Seq(Items) /\ feed \in Seq(Items) /\ live # <<>> /\ live' = Tail(live)
        /\ feed' = Take(shown, FeedCap) /\ FeedCap \in Nat
    BY BrowserAssumption DEF Push, pushEvents, FeedInv, FeedTypes, store, vars, tailer
  <1>1. /\ x = live[1] /\ x \in Items /\ 1 \in 1..Len(live)
        /\ Len(live') = Len(live) - 1 /\ live' \in Seq(Items) /\ Len(live) \in Nat
        /\ \A i \in 1..Len(live') : i + 1 \in 1..Len(live) /\ live'[i] = live[i + 1]
    BY <1>0
  <1>2. /\ shown \in Seq(Items) /\ Len(shown) = Len(feed) + 1 /\ Len(feed) \in Nat
        /\ shown[1] = x
        /\ \A i \in 1..Len(shown) : i # 1 => i - 1 \in 1..Len(feed) /\ shown[i] = feed[i - 1]
    BY <1>0, <1>1
  <1> HIDE DEF x, shown
  <1>3. /\ feed' \in Seq(Items)
        /\ \A i \in 1..Len(feed') : i \in 1..Len(shown) /\ feed'[i] = shown[i]
    BY <1>0, <1>2, TakeIsPrefix
  <1>a. /\ \A i \in 1..Len(live) : live[i].run \in Nat /\ live[i].line \in Int
        /\ \A i \in 1..Len(feed) : feed[i].run \in Nat /\ feed[i].line \in Int
    BY <1>0, ItemFields
  <1>4. FeedTypes' /\ Batch'
    <2>1. Lines' = Lines
      BY <1>0 DEF Lines
    <2>2. FeedTypes'
      BY <1>0, <1>1, <1>3, <2>1 DEF FeedInv, FeedTypes
    <2>3. Batch'
      BY <1>0 DEF FeedInv, Batch
    <2> QED BY <2>2, <2>3
  <1>5. ASSUME NEW i \in 1..Len(feed')
        PROVE  IF i = 1 THEN feed'[i] = live[1]
               ELSE i - 1 \in 1..Len(feed) /\ feed'[i] = feed[i - 1]
    BY <1>1, <1>2, <1>3
  <1>6. Sent'
    <2>1. \A i \in 1..Len(live') : live'[i].run = run' /\ live'[i].line <= broadcast'
      BY <1>0, <1>1 DEF FeedInv, Sent
    <2>2. \A i \in 1..Len(feed') : /\ feed'[i].run <= run'
                                   /\ feed'[i].run = run' => feed'[i].line <= broadcast'
      <3> SUFFICES ASSUME NEW i \in 1..Len(feed')
                   PROVE  /\ feed'[i].run <= run
                          /\ feed'[i].run = run => feed'[i].line <= broadcast
        BY <1>0
      <3>1. CASE i = 1
        <4>1. feed'[i] = live[1]
          BY <1>5, <3>1
        <4>2. live[1].run = run /\ live[1].line <= broadcast
          BY <1>1 DEF FeedInv, Sent
        <4>3. live[1].run \in Nat
          BY <1>1, <1>a
        <4> QED BY <4>1, <4>2, <4>3
      <3>2. CASE i # 1
        BY <1>5, <3>2 DEF FeedInv, Sent
      <3> QED BY <3>1, <3>2
    <2> QED BY <2>1, <2>2 DEF Sent
  <1>7. Ascending(live')
    <2> SUFFICES ASSUME NEW i \in 1..Len(live'), NEW j \in 1..Len(live'), i < j,
                        live'[i].run = live'[j].run
                 PROVE  live'[i].line < live'[j].line
      BY DEF Ascending
    <2>1. i + 1 < j + 1
      BY <1>1
    <2> QED BY <1>1, <2>1 DEF FeedInv, Ascending
  <1>8. Descending(feed')
    <2> SUFFICES ASSUME NEW i \in 1..Len(feed'), NEW j \in 1..Len(feed'), i < j,
                        feed'[i].run = feed'[j].run
                 PROVE  feed'[i].line > feed'[j].line
      BY DEF Descending
    <2>1. j # 1 /\ j - 1 \in 1..Len(feed) /\ feed'[j] = feed[j - 1]
      BY <1>5
    <2>2. CASE i = 1
      BY <1>1, <1>5, <2>1, <2>2 DEF FeedInv, After
    <2>3. CASE i # 1
      <3>1. i - 1 \in 1..Len(feed) /\ feed'[i] = feed[i - 1]
        BY <1>5, <2>3
      <3>2. i - 1 < j - 1
        OBVIOUS
      <3> QED BY <2>1, <3>1, <3>2 DEF FeedInv, Descending
    <2> QED BY <2>2, <2>3
  <1>9. After(live', feed')
    <2> SUFFICES ASSUME NEW i \in 1..Len(live'), NEW j \in 1..Len(feed'),
                        live'[i].run = feed'[j].run
                 PROVE  live'[i].line > feed'[j].line
      BY DEF After
    <2>1. i + 1 \in 1..Len(live) /\ live'[i] = live[i + 1] /\ 1 < i + 1
      BY <1>1
    <2>2. CASE j = 1
      <3>1. feed'[j] = live[1]
        BY <1>5, <2>2
      <3>2. live[1].line < live[i + 1].line
        BY <1>1, <2>1, <3>1 DEF FeedInv, Ascending
      <3> QED BY <1>1, <1>a, <2>1, <3>1, <3>2
    <2>3. CASE j # 1
      <3>1. j - 1 \in 1..Len(feed) /\ feed'[j] = feed[j - 1]
        BY <1>5, <2>3
      <3> QED BY <2>1, <3>1 DEF FeedInv, After
    <2> QED BY <2>2, <2>3
  <1>10. streaming /\ stage = "stream"
    BY <1>0 DEF FeedInv
  <1> QED BY <1>0, <1>4, <1>6, <1>7, <1>8, <1>9, <1>10 DEF FeedInv

\* The stream is opened, or cut off: either way nothing waits in it.
LEMMA StreamKeepsFeed ==
    ASSUME FeedInv, connectStream \/ CutOff
    PROVE  FeedInv'
  <1>0. /\ UNCHANGED <<log, ingested, recent, hour, upto, broadcast, run, feed, stage>>
        /\ live' = <<>> /\ stage = "stream"
    BY DEF connectStream, CutOff, FeedInv, store, vars, tailer, chain
  <1>1. FeedTypes' /\ Batch'
    BY <1>0 DEF FeedInv, FeedTypes, Batch, Lines
  <1>a. \A i \in 1..Len(live') : FALSE
    BY <1>0
  <1>2. Sent'
    BY <1>0, <1>a DEF FeedInv, Sent
  <1>3. Ascending(live') /\ After(live', feed')
    BY <1>a DEF Ascending, After
  <1>4. Descending(feed')
    BY <1>0 DEF FeedInv, Descending
  <1> QED BY <1>0, <1>1, <1>2, <1>3, <1>4 DEF FeedInv

\* The known values are asked for while the feed is empty.
LEMMA KnownKeepsFeed ==
    ASSUME FeedInv, loadKnownValues
    PROVE  FeedInv'
  <1>0. /\ UNCHANGED <<log, ingested, recent, hour, upto, broadcast, run, feed, streaming, live>>
        /\ stage = "known" /\ stage' = "feed"
    BY DEF loadKnownValues, BootStep, store, vars, tailer, stream
  <1>1. FeedTypes' /\ Batch'
    BY <1>0 DEF FeedInv, FeedTypes, Batch, Lines
  <1>2. Sent'
    BY <1>0 DEF FeedInv, Sent
  <1>3. Ascending(live') /\ After(live', feed') /\ Descending(feed')
    BY <1>0 DEF FeedInv
  <1> QED BY <1>0, <1>1, <1>2, <1>3 DEF FeedInv

-----------------------------------------------------------------------------
(* All steps *)

\* A page that was just opened shows nothing.
LEMMA FeedInvInit == BrowserInit => FeedInv
  <1> SUFFICES ASSUME BrowserInit PROVE FeedInv
    OBVIOUS
  <1>1. FeedTypes
    BY DEF BrowserInit, StoreInit, FeedTypes
  <1>2. Batch /\ Sent
    BY DEF BrowserInit, StoreInit, Batch, Sent
  <1>3. live = <<>> /\ feed = <<>> /\ ~streaming
    BY DEF BrowserInit
  <1>4. (\A i \in 1..Len(live) : FALSE) /\ (\A i \in 1..Len(feed) : FALSE)
    BY <1>3
  <1>5. Ascending(live) /\ Descending(feed) /\ After(live, feed)
    BY <1>4 DEF Ascending, Descending, After
  <1> QED BY <1>1, <1>2, <1>3, <1>5 DEF FeedInv

\* One step of the dashboard or of the page.
LEMMA FeedInvStep ==
    ASSUME FeedInv, [BrowserNext]_<<store, tailer, page>>
    PROVE  FeedInv'
  <1>1. CASE Tailer
    BY <1>1, AppendKeepsFeed, BatchKeepsFeed, SendKeepsFeed, FoldKeepsFeed, RestartKeepsFeed
       DEF Tailer
  <1>2. CASE Feed
    BY <1>2, KnownKeepsFeed, InitialFeedKeeps, StreamKeepsFeed, PushKeepsFeed DEF Feed
  \* The pages of the archive are apart from the feed.
  <1>3. CASE Pages
    <2>1. UNCHANGED <<store, tailer, stream, chain, feed>>
      BY <1>3, Zenon DEF Pages, LoadFirst, LoadMore, AnswerPage, TakePage, PageFails
    <2> QED BY <2>1, FeedUntouched DEF stream, chain
  <1>4. CASE UNCHANGED <<store, tailer, page>>
    BY <1>4, FeedUntouched DEF page, stream, chain
  <1> QED BY <1>1, <1>2, <1>3, <1>4 DEF BrowserNext

\* The stream on top of the feed is one descending sequence.
LEMMA FeedInvOrders ==
    ASSUME FeedInv
    PROVE  FeedOnceInOrder
  <1> DEFINE n == Len(live)
             shown == Reverse(live) \o feed
  <1>0. n \in Nat /\ Len(feed) \in Nat /\ live \in Seq(Items) /\ feed \in Seq(Items)
    BY DEF FeedInv, FeedTypes
  <1>a. /\ \A i \in 1..n : live[i].run \in Nat /\ live[i].line \in Int
        /\ \A i \in 1..Len(feed) : feed[i].run \in Nat /\ feed[i].line \in Int
    BY <1>0, ItemFields
  <1>1. /\ Reverse(live) \in [1..n -> Items]
        /\ \A i \in 1..n : n - i + 1 \in 1..n /\ Reverse(live)[i] = live[n - i + 1]
    <2>1. \A i \in 1..n : n - i + 1 \in 1..n
      BY <1>0
    <2>2. \A i \in 1..n : live[i] \in Items
      BY <1>0, ItemFields
    <2> QED BY <2>1, <2>2 DEF Reverse
  <1>2. Reverse(live) \in Seq(Items) /\ Len(Reverse(live)) = n
    BY <1>0, <1>1, FunctionIsSeq
  <1>3. /\ Len(shown) = n + Len(feed)
        /\ \A i \in 1..Len(shown) :
             IF i <= n THEN shown[i] = Reverse(live)[i]
             ELSE i - n \in 1..Len(feed) /\ shown[i] = feed[i - n]
    BY <1>0, <1>2
  <1> HIDE DEF shown
  <1> SUFFICES ASSUME NEW i \in 1..Len(shown), NEW j \in 1..Len(shown), i < j,
                      shown[i].run = shown[j].run
               PROVE  shown[i].line > shown[j].line
    BY DEF FeedOnceInOrder, shown
  <1>4. CASE j <= n
    <2>1. i <= n /\ i \in 1..n /\ j \in 1..n
      BY <1>0, <1>3, <1>4
    <2>2. shown[i] = live[n - i + 1] /\ shown[j] = live[n - j + 1]
      BY <1>1, <1>3, <1>4, <2>1
    <2>3. n - j + 1 < n - i + 1 /\ n - i + 1 \in 1..n /\ n - j + 1 \in 1..n
      BY <1>0, <2>1
    <2>4. live[n - j + 1].line < live[n - i + 1].line
      BY <2>2, <2>3 DEF FeedInv, Ascending
    <2> QED BY <1>a, <2>2, <2>3, <2>4
  <1>5. CASE i <= n /\ ~(j <= n)
    <2>0. i \in 1..n
      BY <1>0, <1>5
    <2>1. shown[i] = live[n - i + 1] /\ n - i + 1 \in 1..n
      BY <1>1, <1>3, <1>5, <2>0
    <2>2. j - n \in 1..Len(feed) /\ shown[j] = feed[j - n]
      BY <1>3, <1>5
    <2> QED BY <2>1, <2>2, Zenon DEF FeedInv, After
  <1>6. CASE ~(i <= n)
    <2>1. i - n \in 1..Len(feed) /\ shown[i] = feed[i - n]
      BY <1>3, <1>6
    <2>2. j - n \in 1..Len(feed) /\ shown[j] = feed[j - n] /\ i - n < j - n
      BY <1>0, <1>3, <1>6
    <2> QED BY <2>1, <2>2 DEF FeedInv, Descending
  <1> QED BY <1>4, <1>5, <1>6

\* FeedOnceInOrder: however the stream lags or breaks and the dashboard restarts,
\* pushEvents puts no event of a run into the feed twice or out of order.
THEOREM FeedOrdered == BrowserSpec => []FeedOnceInOrder
  <1>1. FeedInv /\ [BrowserNext]_<<store, tailer, page>> => FeedInv'
    BY FeedInvStep
  <1>2. FeedInv => FeedOnceInOrder
    BY FeedInvOrders
  <1> QED BY FeedInvInit, <1>1, <1>2, PTL DEF BrowserSpec

\* AnswersCoverFeed: tail_attacks_log sends under the write lock it ingests under,
\* so that a query finds in the store whatever the page was shown before it.
THEOREM FeedAnswered == BrowserSpec => []AnswersCoverFeed
  <1>1. FeedInv /\ [BrowserNext]_<<store, tailer, page>> => FeedInv'
    BY FeedInvStep
  <1>2. FeedInv => AnswersCoverFeed
    <2> SUFFICES ASSUME FeedInv, ~Locked, NEW i \in 1..Len(feed), feed[i].run = run
                 PROVE  feed[i].line <= Len(ingested)
      BY DEF AnswersCoverFeed
    <2>1. broadcast <= Len(ingested) /\ broadcast \in Nat /\ Len(ingested) \in Nat
      BY DEF FeedInv, FeedTypes, Batch, Locked
    <2>2. feed[i].line \in Int /\ feed[i].line <= broadcast
      BY ItemFields DEF FeedInv, FeedTypes, Sent
    <2> QED BY <2>1, <2>2
  <1> QED BY FeedInvInit, <1>1, <1>2, PTL DEF BrowserSpec

\* A restart empties the archive and its order alike.
LEMMA ArchiveInvServed == BrowserSpec => []ArchiveInv
  <1>1. BrowserInit => ArchiveInv
    BY EmptyArchive DEF BrowserInit, StoreInit
  <1>2. ArchiveInv /\ [BrowserNext]_<<store, tailer, page>> => ArchiveInv'
    <2> SUFFICES ASSUME ArchiveInv, [BrowserNext]_<<store, tailer, page>>
                 PROVE  ArchiveInv'
      OBVIOUS
    <2>1. CASE Fold
      BY <2>1, IngestKeeps DEF Fold
    <2>2. CASE RestartDashboard
      <3>1. session_order' = <<>> /\ sessions' = <<>>
        BY <2>2 DEF RestartDashboard, StoreEmptied
      <3> QED BY <3>1, StoreAssumption DEF ArchiveInv, ArchiveConsistent, Range
    <2>3. CASE UNCHANGED store
      BY <2>3 DEF store, vars, ArchiveInv, ArchiveConsistent
    <2> QED BY <2>1, <2>2, <2>3, ZenonT(30)
            DEF BrowserNext, Tailer, Feed, Pages, AppendLine, TakeBatch, Send, loadKnownValues,
                loadInitialFeed, connectStream, CutOff, Push, LoadFirst, LoadMore, AnswerPage,
                TakePage, PageFails
  <1> QED BY <1>1, <1>2, PTL DEF BrowserSpec

\* ArchiveConsistent, over restarts that empty the store and read the log again.
THEOREM ArchiveServed == BrowserSpec => []ArchiveConsistent
  <1>1. ArchiveInv => ArchiveConsistent
    BY DEF ArchiveInv
  <1> QED BY <1>1, ArchiveInvServed, PTL

-----------------------------------------------------------------------------
(* The values the page knows *)

ValueKinds == {"CommandRun", "CredentialHarvest"}

\* The values of a kind the store keeps, and all that events brought it.
Held(kind) == IF kind = "CommandRun" THEN known[kind] ELSE DOMAIN word_counts[kind]
Said(kind) == {ingested[i].word : i \in {j \in 1..Len(ingested) : ingested[j].kind = kind}}

\* A set that is kept within a cap is complete, or full.
Filled(held, said, cap) ==
    /\ IsFiniteSet(held) /\ held \subseteq said
    /\ held = said \/ Cardinality(held) >= cap

HeldInv ==
    /\ DOMAIN known = {"CommandRun", "PayloadCaptured"}
    /\ DOMAIN word_counts = {"CommandRun", "CredentialHarvest", "SessionStart"}
    /\ \A kind \in ValueKinds : Filled(Held(kind), Said(kind), CapOf(kind))

\* The page knows the whole of a backlog that is not too large, from the moment
\* it read it.
NewInv ==
    /\ stage = "known" => flagged = {} /\ backlog = {}
    /\ \A kind \in ValueKinds : Cardinality(BacklogOf(kind)) <= CapOf(kind) =>
         BacklogOf(kind) \subseteq values /\ flagged \cap BacklogOf(kind) = {}

\* The store is changed by the tailer and by a restart only.
LEMMA StoreSteps ==
    ASSUME [BrowserNext]_<<store, tailer, page>>
    PROVE  Fold \/ RestartDashboard \/ UNCHANGED store
  BY ZenonT(30)
     DEF BrowserNext, Tailer, Feed, Pages, AppendLine, TakeBatch, Send, loadKnownValues,
         loadInitialFeed, connectStream, CutOff, Push, LoadFirst, LoadMore, AnswerPage,
         TakePage, PageFails

\* insert_capped turns a value away only when its set is full.
LEMMA InsertFills ==
    ASSUME NEW held, NEW said, NEW cap \in Nat, NEW w, Filled(held, said, cap)
    PROVE  Filled(insert_capped(held, w, cap), said \cup {w}, cap)
  <1> DEFINE new == insert_capped(held, w, cap)
  <1>1. IsFiniteSet(held) /\ held \subseteq said /\ (held = said \/ Cardinality(held) >= cap)
    BY DEF Filled
  <1>2. IsFiniteSet(held \cup {w}) /\ Cardinality(held) \in Nat
    BY <1>1, FS_AddElement, FS_CardinalityType, ZenonT(30)
  <1>3. CASE w \in held \/ Cardinality(held) < cap
    <2>1. new = held \cup {w}
      BY <1>3 DEF insert_capped
    <2>2. Cardinality(held) <= Cardinality(held \cup {w}) /\ Cardinality(held \cup {w}) \in Nat
      BY <1>2, FS_Subset, FS_CardinalityType
    <2>3. held = said \/ Cardinality(held \cup {w}) >= cap
      BY <1>1, <1>2, <2>2
    <2> HIDE DEF new
    <2> QED BY <1>1, <1>2, <2>1, <2>3 DEF Filled, new
  <1>4. CASE ~(w \in held \/ Cardinality(held) < cap)
    <2>1. new = held
      BY <1>4, ZenonT(30) DEF insert_capped
    <2>2. Cardinality(held) >= cap
      BY <1>2, <1>4
    <2> QED BY <1>1, <2>1, <2>2 DEF Filled
  <1> QED BY <1>3, <1>4

\* The keys of a counter are kept as a capped set is.
LEMMA BumpInserts ==
    ASSUME NEW map, NEW key, NEW cap
    PROVE  DOMAIN bump_capped(map, key, cap) = insert_capped(DOMAIN map, key, cap)
  BY BumpFacts, Zenon DEF insert_capped

\* store.ingest takes the value of an event in, or its set is full.
LEMMA HeldStep ==
    ASSUME FeedInv, HeldInv, [BrowserNext]_<<store, tailer, page>>
    PROVE  HeldInv'
  <1>c. \A kind \in ValueKinds : CapOf(kind) \in Nat
    BY StoreAssumption DEF CapOf
  <1>1. CASE Fold
    <2>1. PICK e : ingest(e)
      BY <1>1, Zenon DEF Fold
    <2>2. /\ ingested' = Append(ingested, e)
          /\ word_counts' = IF Counts(e)
                              THEN [word_counts EXCEPT ![e.kind] = bump_capped(@, e.word, CounterCap)]
                              ELSE word_counts
          /\ known' = IF e.kind \in DOMAIN known
                        THEN [known EXCEPT ![e.kind] = insert_capped(@, e.word, KnownCap)]
                        ELSE known
      BY <2>1, Zenon DEF ingest
    <2>3. DOMAIN known' = DOMAIN known /\ DOMAIN word_counts' = DOMAIN word_counts
      BY <2>2, Zenon
    <2> DEFINE n == Len(ingested)
    <2>4. /\ n \in Nat /\ Len(ingested') = n + 1 /\ ingested'[n + 1] = e
          /\ \A i \in 1..n : ingested'[i] = ingested[i]
      <3> DEFINE S == Lines \cup {e}
      <3>1. ingested \in Seq(Lines)
        BY DEF FeedInv, FeedTypes
      <3>2. ingested \in Seq(S) /\ e \in S
        BY <3>1
      <3> HIDE DEF S
      <3>3. /\ Len(ingested) \in Nat /\ Len(Append(ingested, e)) = Len(ingested) + 1
            /\ Append(ingested, e)[Len(ingested) + 1] = e
            /\ \A i \in 1..Len(ingested) : Append(ingested, e)[i] = ingested[i]
        BY <3>2
      <3>4. ingested' = Append(ingested, e)
        BY <2>2, ZenonT(30)
      <3> QED BY <3>3, <3>4, ZenonT(30)
    <2>5. \A i \in 1..(n + 1) : i \in 1..n \/ i = n + 1
      BY <2>4
    <2>6. n + 1 \in 1..(n + 1) /\ \A i \in 1..n : i \in 1..(n + 1)
      BY <2>4
    <2>7. \A kind : /\ e.kind = kind => Said(kind)' = Said(kind) \cup {e.word}
                    /\ e.kind # kind => Said(kind)' = Said(kind)
      BY <2>4, <2>5, <2>6 DEF Said
    <2>8. /\ e.kind = "CommandRun" =>
               Held("CommandRun")' = insert_capped(Held("CommandRun"), e.word, KnownCap)
          /\ e.kind # "CommandRun" => Held("CommandRun")' = Held("CommandRun")
      BY <2>2 DEF HeldInv, Held
    <2>9. /\ e.kind = "CredentialHarvest" =>
               Held("CredentialHarvest")' =
                 insert_capped(Held("CredentialHarvest"), e.word, CounterCap)
          /\ e.kind # "CredentialHarvest" => Held("CredentialHarvest")' = Held("CredentialHarvest")
      <3>1. e.kind = "CredentialHarvest" => Counts(e)
        BY DEF Counts, HeldInv
      <3>2. e.kind = "CredentialHarvest" =>
              word_counts'["CredentialHarvest"]
                = bump_capped(word_counts["CredentialHarvest"], e.word, CounterCap)
        BY <2>2, <3>1 DEF HeldInv
      <3>3. e.kind # "CredentialHarvest" =>
              word_counts'["CredentialHarvest"] = word_counts["CredentialHarvest"]
        BY <2>2 DEF HeldInv
      <3> QED BY <3>2, <3>3, BumpInserts, ZenonT(30) DEF Held
    <2>10. Filled(Held("CommandRun"), Said("CommandRun"), KnownCap) /\ KnownCap \in Nat
      BY StoreAssumption DEF HeldInv, ValueKinds, CapOf
    <2>11. /\ Filled(Held("CredentialHarvest"), Said("CredentialHarvest"), CounterCap)
           /\ CounterCap \in Nat
      BY StoreAssumption DEF HeldInv, ValueKinds, CapOf
    <2>12. Filled(Held("CommandRun")', Said("CommandRun")', KnownCap)
      <3>1. Filled(insert_capped(Held("CommandRun"), e.word, KnownCap),
                   Said("CommandRun") \cup {e.word}, KnownCap)
        BY <2>10, InsertFills
      <3>2. CASE e.kind = "CommandRun"
        BY <2>7, <2>8, <3>1, <3>2, ZenonT(30)
      <3>3. CASE e.kind # "CommandRun"
        BY <2>7, <2>8, <2>10, <3>3, ZenonT(30)
      <3> QED BY <3>2, <3>3, ZenonT(30)
    <2>13. Filled(Held("CredentialHarvest")', Said("CredentialHarvest")', CounterCap)
      <3>1. Filled(insert_capped(Held("CredentialHarvest"), e.word, CounterCap),
                   Said("CredentialHarvest") \cup {e.word}, CounterCap)
        BY <2>11, InsertFills
      <3>2. CASE e.kind = "CredentialHarvest"
        BY <2>7, <2>9, <3>1, <3>2, ZenonT(30)
      <3>3. CASE e.kind # "CredentialHarvest"
        BY <2>7, <2>9, <2>11, <3>3, ZenonT(30)
      <3> QED BY <3>2, <3>3, ZenonT(30)
    <2> QED BY <2>3, <2>12, <2>13 DEF HeldInv, ValueKinds, CapOf
  <1>2. CASE RestartDashboard
    <2>1. word_counts' = NoCounts /\ known' = NoneKnown /\ ingested' = <<>>
      BY <1>2, ZenonT(30) DEF RestartDashboard, StoreEmptied
    <2>2. \A kind \in ValueKinds : Held(kind)' = {} /\ Said(kind)' = {}
      BY <2>1 DEF Held, Said, NoCounts, NoneKnown, ValueKinds
    <2>3. Filled({}, {}, 0)
      BY FS_EmptySet DEF Filled
    <2>4. \A kind \in ValueKinds : Filled(Held(kind), Said(kind), CapOf(kind))'
      BY <2>2, <2>3 DEF Filled
    <2> QED BY <2>1, <2>4 DEF HeldInv, NoCounts, NoneKnown
  <1>3. CASE UNCHANGED store
    <2>1. known' = known /\ word_counts' = word_counts /\ ingested' = ingested
      BY <1>3, Zenon DEF store, vars
    <2>2. \A kind : Held(kind)' = Held(kind) /\ Said(kind)' = Said(kind)
      BY <2>1, ZenonT(30) DEF Held, Said
    <2> QED BY <2>1, <2>2, Zenon DEF HeldInv
  <1> QED BY <1>1, <1>2, <1>3, StoreSteps, ZenonT(30)

\* A full set that turned a value away is of fewer values than came.
LEMMA FilledWithinCap ==
    ASSUME NEW held, NEW said, NEW cap \in Nat, NEW kind, Filled(held, said, cap),
           IsFiniteSet(said), Cardinality({<<kind, w>> : w \in said}) <= cap
    PROVE  held = said
  <1> DEFINE B == {<<kind, w>> : w \in said}
             f == [w \in said |-> <<kind, w>>]
  <1>1. f \in Surjection(said, B)
    BY DEF Surjection
  <1>2. f \in Injection(said, B)
    BY DEF Injection, IsInjective
  <1>3. Cardinality(B) <= cap
    OBVIOUS
  <1> HIDE DEF B, f
  <1>4. Cardinality(B) = Cardinality(said)
    BY <1>1, <1>2, FS_Surjection, ZenonT(30)
  <1>5. /\ held \in SUBSET said /\ Cardinality(held) <= Cardinality(said)
        /\ Cardinality(said) = Cardinality(held) => said = held
    BY FS_Subset DEF Filled
  <1>6. Cardinality(said) \in Nat /\ Cardinality(held) \in Nat
    BY FS_CardinalityType, Zenon DEF Filled
  <1>7. held = said \/ Cardinality(held) >= cap
    BY Zenon DEF Filled
  <1> QED BY <1>3, <1>4, <1>5, <1>6, <1>7

\* known_values answers with every value ingested, within the caps.
LEMMA KnownIsComplete ==
    ASSUME FeedInv, HeldInv, NewInv, loadKnownValues
    PROVE  NewInv'
  <1>1. stage = "known" /\ stage' = "feed" /\ flagged' = flagged /\ flagged = {} /\ backlog = {}
    BY Zenon DEF loadKnownValues, BootStep, NewInv
  <1>2. CASE UNCHANGED <<values, backlog>>
    <2>1. \A kind : BacklogOf(kind)' = BacklogOf(kind)
      BY <1>2, Zenon DEF BacklogOf
    <2> QED BY <1>1, <1>2, <2>1 DEF NewInv
  <1>3. CASE /\ values' = values \cup known_values
             /\ backlog' = {<<e.kind, e.word>> : e \in {x \in Range(ingested) : Valued(x)}}
    <2> SUFFICES ASSUME NEW kind \in ValueKinds, Cardinality(BacklogOf(kind)') <= CapOf(kind)
                 PROVE  BacklogOf(kind)' \subseteq values'
      BY <1>1 DEF NewInv
    <2>1. /\ ingested \in Seq(Lines) /\ Len(ingested) \in Nat
          /\ Range(ingested) = {ingested[i] : i \in 1..Len(ingested)}
      BY DEF FeedInv, FeedTypes, Range
    <2>2. BacklogOf(kind)' = {<<kind, w>> : w \in Said(kind)}
      <3>1. \A x : x.kind = kind => Valued(x)
        BY DEF Valued, ValueKinds
      <3> QED BY <1>3, <2>1, <3>1 DEF BacklogOf, Said
    <2>3. IsFiniteSet(Said(kind))
      <3> DEFINE f == [i \in 1..Len(ingested) |-> ingested[i].word]
      <3>1. \A w \in Said(kind) : \E j \in 1..Len(ingested) : f[j] = w
        BY DEF Said
      <3> HIDE DEF f
      <3> QED BY <2>1, <3>1, NamedFinite, ZenonT(30)
    <2>4. CapOf(kind) \in Nat /\ Filled(Held(kind), Said(kind), CapOf(kind))
      BY StoreAssumption DEF CapOf, HeldInv
    <2>5. Held(kind) = Said(kind)
      BY <2>2, <2>3, <2>4, FilledWithinCap, ZenonT(30)
    <2>6. {<<kind, w>> : w \in Held(kind)} \subseteq known_values
      BY DEF Held, known_values, ValueKinds
    <2> QED BY <1>3, <2>2, <2>5, <2>6, ZenonT(30)
  <1> QED BY <1>2, <1>3, Zenon DEF loadKnownValues

\* pushEvents flags only what is not among the known values.
LEMMA PushFlagsUnknown ==
    ASSUME NewInv, NEW its, pushEvents(its), stage # "known", stage' # "known", backlog' = backlog
    PROVE  NewInv'
  <1>1. PICK V : flagged' = flagged \cup (V \ values) /\ values' = values \cup V
    BY Zenon DEF pushEvents
  <1>2. \A kind : BacklogOf(kind)' = BacklogOf(kind)
    BY Zenon DEF BacklogOf
  <1>3. \A kind \in ValueKinds : Cardinality(BacklogOf(kind)) <= CapOf(kind) =>
          BacklogOf(kind) \subseteq values' /\ flagged' \cap BacklogOf(kind) = {}
    BY <1>1, Zenon DEF NewInv
  <1> QED BY <1>2, <1>3, Zenon DEF NewInv

\* Where the values of the page change.
LEMMA NewStep ==
    ASSUME FeedInv, HeldInv, NewInv, [BrowserNext]_<<store, tailer, page>>
    PROVE  NewInv'
  <1>1. CASE loadKnownValues
    BY <1>1, KnownIsComplete
  <1>2. CASE UNCHANGED chain
    <2>1. UNCHANGED <<stage, values, flagged, backlog>>
      BY <1>2, Zenon DEF chain
    <2> QED BY <2>1, Zenon DEF NewInv, BacklogOf
  <1>3. CASE loadInitialFeed
    <2>1. stage = "feed" /\ stage' = "stream" /\ backlog' = backlog
      BY <1>3 DEF loadInitialFeed, BootStep
    <2>2. CASE UNCHANGED <<flagged, values, feed>>
      BY <2>1, <2>2 DEF NewInv, BacklogOf
    <2>3. CASE pushEvents(recent_events(FeedLimit))
      <3>1. stage # "known" /\ stage' # "known"
        BY <2>1
      <3> QED BY <2>1, <2>3, <3>1, PushFlagsUnknown, ZenonT(30)
    <2> QED BY <1>3, <2>2, <2>3, ZenonT(30) DEF loadInitialFeed
  <1>4. CASE Push
    <2>1. stage = "stream" /\ stage' = "stream" /\ backlog' = backlog
      BY <1>4, Zenon DEF Push, FeedInv
    <2>2. stage # "known" /\ stage' # "known"
      BY <2>1
    <2> QED BY <1>4, <2>1, <2>2, PushFlagsUnknown, ZenonT(30) DEF Push
  <1> QED BY <1>1, <1>2, <1>3, <1>4, ZenonT(30)
          DEF BrowserNext, Tailer, Feed, Pages, AppendLine, TakeBatch, Send, Fold, RestartDashboard,
              connectStream, CutOff, LoadFirst, LoadMore, AnswerPage, TakePage, PageFails, page

\* BacklogNotNew: the boot of the page asks for the known values before it fills
\* its feed and opens its stream, so that pushEvents flags no value as new that
\* was ingested before, over restarts of the dashboard included.
THEOREM BacklogIsOld == BrowserSpec => []BacklogNotNew
  <1>1. BrowserInit => HeldInv /\ NewInv
    <2> SUFFICES ASSUME BrowserInit PROVE HeldInv /\ NewInv
      OBVIOUS
    <2>1. word_counts = NoCounts /\ known = NoneKnown /\ ingested = <<>>
      BY ZenonT(30) DEF BrowserInit, StoreInit
    <2>2. \A kind \in ValueKinds : Held(kind) = {} /\ Said(kind) = {}
      <3>1. known["CommandRun"] = {}
        BY <2>1 DEF NoneKnown
      <3>2. DOMAIN word_counts["CredentialHarvest"] = {}
        BY <2>1 DEF NoCounts
      <3>3. \A kind : Said(kind) = {}
        BY <2>1 DEF Said
      <3> QED BY <3>1, <3>2, <3>3 DEF Held, ValueKinds
    <2>3. \A kind \in ValueKinds : Filled(Held(kind), Said(kind), CapOf(kind))
      BY <2>2, FS_EmptySet DEF Filled
    <2>4. HeldInv
      BY <2>1, <2>3 DEF HeldInv, NoCounts, NoneKnown
    <2>5. NewInv
      BY DEF BrowserInit, NewInv, BacklogOf
    <2> QED BY <2>4, <2>5
  <1>2. FeedInv /\ [BrowserNext]_<<store, tailer, page>> => FeedInv'
    BY FeedInvStep
  <1>3. FeedInv /\ HeldInv /\ [BrowserNext]_<<store, tailer, page>> => HeldInv'
    BY HeldStep
  <1>4. FeedInv /\ HeldInv /\ NewInv /\ [BrowserNext]_<<store, tailer, page>> => NewInv'
    BY NewStep
  <1>5. NewInv => BacklogNotNew
    BY Zenon DEF NewInv, BacklogNotNew, ValueKinds
  <1> QED BY FeedInvInit, <1>1, <1>2, <1>3, <1>4, <1>5, PTL DEF BrowserSpec

-----------------------------------------------------------------------------
(* The pages of the archive *)

IsSeq(s) == s \in Seq(Range(s))

\* Of the sessions S the page has each, or will meet it beyond its offset.
Covered(order, S, its, off) ==
    \A id \in S : id \in Range(its) \/ \E i \in 1..(Len(order) - off) : order[i] = id

\* The same, once an answer that is on its way is taken; and an answer that ends
\* the list completes it.
Promised(order, S, its, off, got) ==
    \/ got = <<>>
    \/ \E p, t :
         /\ got = <<[page |-> p, total |-> t]>> /\ IsSeq(p)
         /\ Covered(order, S, its \o p, off + Len(p))
         /\ ~(off + Len(p) < t) => S \subseteq Range(its \o p)

\* While requests do not overlap, there is at most one, and it asks for what the
\* page has not got yet.
PageInv ==
    /\ steady \subseteq DOMAIN sessions
    /\ ~overlapped =>
         /\ IsSeq(items) /\ offset = Len(items)
         /\ Covered(session_order, steady, items, offset)
         /\ items # <<>> /\ ~more => steady \subseteq Range(items)
         /\ \/ requests = <<>>
            \/ \E f, g : /\ requests = <<[first |-> f, from |-> offset, got |-> g]>>
                         /\ f => items = <<>>
                         /\ Promised(session_order, steady, items, offset, g)

\* Two lists in one.
LEMMA ConcatRange ==
    ASSUME NEW s, IsSeq(s), NEW t, IsSeq(t)
    PROVE  /\ IsSeq(s \o t) /\ Range(s \o t) = Range(s) \cup Range(t)
           /\ Len(s \o t) = Len(s) + Len(t) /\ Len(s) \in Nat /\ Len(t) \in Nat
  <1> DEFINE S == Range(s) \cup Range(t)
             u == s \o t
  <1>1. s \in Seq(S) /\ t \in Seq(S)
    BY SeqDef DEF IsSeq
  <1>2. /\ DOMAIN s = 1..Len(s) /\ DOMAIN t = 1..Len(t) /\ Len(s) \in Nat /\ Len(t) \in Nat
        /\ Range(s) = {s[i] : i \in 1..Len(s)} /\ Range(t) = {t[i] : i \in 1..Len(t)}
    <2>1. /\ DOMAIN s = 1..Len(s) /\ Len(s) \in Nat
          /\ DOMAIN t = 1..Len(t) /\ Len(t) \in Nat
      <3> HIDE DEF S
      <3> QED BY <1>1, LenProperties, ZenonT(30)
    <2> QED BY <2>1, Zenon DEF Range
  <1>3. /\ u \in Seq(S) /\ Len(u) = Len(s) + Len(t) /\ DOMAIN u = 1..Len(u)
        /\ \A i \in 1..Len(u) : u[i] = IF i <= Len(s) THEN s[i] ELSE t[i - Len(s)]
    <2>1. s \o t \in Seq(S) /\ Len(s \o t) = Len(s) + Len(t)
          /\ \A i \in 1..(Len(s) + Len(t)) : (s \o t)[i] = IF i <= Len(s) THEN s[i] ELSE t[i - Len(s)]
      <3> HIDE DEF S
      <3> QED BY <1>1, ConcatProperties, ZenonT(30)
    <2> HIDE DEF S
    <2> QED BY <2>1, LenProperties
  <1> HIDE DEF u
  <1>4. \A i \in 1..Len(s) : i \in 1..Len(u) /\ u[i] = s[i]
    <2>1. Len(s) \in Nat /\ Len(t) \in Nat /\ Len(u) = Len(s) + Len(t)
      BY <1>2, <1>3, Zenon
    <2>2. \A i \in 1..Len(s) : i \in 1..Len(u) /\ i <= Len(s)
      BY <2>1
    <2> QED BY <1>3, <2>2, Zenon
  <1>5. ASSUME NEW i \in 1..Len(t)
        PROVE  i + Len(s) \in 1..Len(u) /\ u[i + Len(s)] = t[i]
    <2>1. /\ i + Len(s) \in 1..Len(u) /\ ~(i + Len(s) <= Len(s))
          /\ (i + Len(s)) - Len(s) = i
      BY <1>2, <1>3
    <2>2. u[i + Len(s)] = t[(i + Len(s)) - Len(s)]
      BY <1>3, <2>1, ZenonT(30)
    <2> QED BY <2>1, <2>2
  <1>6. \A i \in 1..Len(u) : \/ i \in 1..Len(s) /\ u[i] = s[i]
                             \/ i - Len(s) \in 1..Len(t) /\ u[i] = t[i - Len(s)]
    BY <1>2, <1>3
  <1>7. Range(u) = {u[i] : i \in 1..Len(u)}
    BY <1>3, Zenon DEF Range
  <1>8. Range(u) = S
    BY <1>2, <1>4, <1>5, <1>6, <1>7, ZenonT(30)
  <1> QED BY <1>2, <1>3, <1>8, ZenonT(30) DEF IsSeq, u

\* A new session moves those the page will meet by no more than it moves the
\* offset's place; one that is evicted is not waited for.
LEMMA ArchiveMoves ==
    ASSUME ArchiveInv, NEW e, Archived(e), NEW S, NEW its, NEW off \in Nat,
           Covered(session_order, S, its, off)
    PROVE  Covered(session_order', S \cap DOMAIN sessions', its, off)
  <1> DEFINE n == Len(session_order)
  <1>1. CASE e.kind = "SessionStart" /\ e.id \notin DOMAIN sessions
    <2>1. archive_session_start(e.id)
      BY <1>1, Zenon DEF Archived
    <2>2. PICK d \in {0, 1} :
           /\ d = 1 <=> n = ArchiveCap
           /\ Len(session_order') = n + 1 - d /\ session_order'[n + 1 - d] = e.id
           /\ \A i \in 1..(n - d) : session_order'[i] = session_order[i + d]
           /\ d = 0 => DOMAIN sessions' = DOMAIN sessions \cup {e.id}
           /\ d = 1 => DOMAIN sessions' = (DOMAIN sessions \ {session_order[1]}) \cup {e.id}
      BY <1>1, <2>1, NewSessionFacts, ZenonT(30)
    <2>3. n \in Nat /\ \A i \in 1..n : session_order[i] \in DOMAIN sessions
      BY LenProperties DEF ArchiveInv
    <2> SUFFICES ASSUME NEW id \in S, id \in DOMAIN sessions', id \notin Range(its)
                 PROVE  \E i \in 1..(Len(session_order') - off) : session_order'[i] = id
      BY Zenon DEF Covered
    <2>4. PICK i \in 1..(n - off) : session_order[i] = id
      BY ZenonT(30) DEF Covered
    <2>5. i \in 1..n
      BY <2>3
    <2>6. id # e.id
      BY <1>1, <2>3, <2>4, <2>5, ZenonT(30)
    <2>7. d = 1 => i # 1
      BY <2>2, <2>4, <2>6
    <2>8. i - d \in 1..(n - d) /\ i - d \in 1..(Len(session_order') - off) /\ (i - d) + d = i
      <3>1. n \in Nat /\ i \in 1..n /\ i \in 1..(n - off) /\ d \in {0, 1} /\ (d = 1 => i # 1)
        BY <2>3, <2>5, <2>7, ZenonT(30)
      <3>2. Len(session_order') = n + 1 - d
        BY <2>2, Zenon
      <3> HIDE DEF n
      <3> QED BY <3>1, <3>2
    <2>9. session_order'[i - d] = session_order[(i - d) + d]
      BY <2>2, <2>8, ZenonT(30)
    <2> QED BY <2>4, <2>8, <2>9, ZenonT(30)
  <1>2. CASE ~(e.kind = "SessionStart" /\ e.id \notin DOMAIN sessions)
    <2>1. session_order' = session_order
      BY <1>2, OrderKept, Zenon
    <2> QED BY <2>1, Zenon DEF Covered
  <1> QED BY <1>1, <1>2

\* sessions_page answers with what lies next to the offset.
LEMMA PageCovers ==
    ASSUME ArchiveInv, NEW S, NEW its, IsSeq(its), NEW off \in Nat, off = Len(its),
           Covered(session_order, S, its, off)
    PROVE  Promised(session_order, S, its, off,
                    <<[page |-> sessions_page(off), total |-> Len(session_order)]>>)
  <1> DEFINE n == Len(session_order)
             rev == Reverse(session_order)
             p == sessions_page(off)
             L == Len(p)
  <1>1. session_order \in Seq(DOMAIN sessions) /\ n \in Nat /\ PageLimit \in Nat \ {0}
    BY BrowserAssumption DEF ArchiveInv
  <1>2. rev \in Seq(DOMAIN sessions) /\ Len(rev) = n
        /\ \A k \in 1..n : rev[k] = session_order[n - k + 1]
    <2>1. \A k \in 1..n : n - k + 1 \in 1..n
      BY <1>1
    <2>2. rev \in [1..n -> DOMAIN sessions] /\ \A k \in 1..n : rev[k] = session_order[n - k + 1]
      BY <1>1, <2>1 DEF Reverse
    <2>3. rev \in Seq(DOMAIN sessions)
      BY <1>1, <2>2, FunctionIsSeq, Zenon
    <2>4. DOMAIN rev = 1..n
      BY <2>2, Zenon
    <2>5. Len(rev) = n
      <3> HIDE DEF rev, n
      <3> QED BY <1>1, <2>3, <2>4
    <2> QED BY <2>2, <2>3, <2>5, ZenonT(30)
  <1> DEFINE q == SubSeq(rev, off + 1, n)
  <1>3. p = Take(q, PageLimit)
    BY ZenonT(30) DEF sessions_page
  <1> HIDE DEF p, rev
  <1>4. /\ q \in Seq(DOMAIN sessions) /\ Len(q) \in Nat
        /\ Len(q) = IF off + 1 <= n THEN n - off ELSE 0
        /\ \A k \in 1..Len(q) : q[k] = rev[off + k]
    BY <1>1, <1>2
  <1> HIDE DEF q
  <1>5. /\ p \in Seq(DOMAIN sessions) /\ L <= Len(q) /\ L \in Nat
        /\ \A k \in 1..L : k \in 1..Len(q) /\ p[k] = q[k]
    <2>0. q \in Seq(DOMAIN sessions)
      BY <1>4
    <2>1. PageLimit \in Nat
      BY <1>1
    <2>2. /\ p \in Seq(DOMAIN sessions) /\ L <= Len(q)
          /\ \A k \in 1..L : k \in 1..Len(q) /\ p[k] = q[k]
      <3> DEFINE t == Take(q, PageLimit)
      <3>1. /\ t \in Seq(DOMAIN sessions) /\ Len(t) <= Len(q)
            /\ \A k \in 1..Len(t) : k \in 1..Len(q) /\ t[k] = q[k]
        BY <2>0, <2>1, TakeIsPrefix
      <3> HIDE DEF t
      <3>2. p = t
        BY <1>3 DEF t
      <3> QED BY <3>1, <3>2, ZenonT(30)
    <2>3. L \in Nat
      BY <2>2, LenProperties, ZenonT(30)
    <2> QED BY <2>2, <2>3, ZenonT(30)
  <1>6. IsSeq(p)
    BY <1>5, SeqDef DEF IsSeq, Range
  <1>7. \A i \in 1..(n - off) : i \in 1..(n - (off + L)) \/ session_order[i] \in Range(p)
    <2> SUFFICES ASSUME NEW i \in 1..(n - off), i \notin 1..(n - (off + L))
                 PROVE  session_order[i] \in Range(p)
      OBVIOUS
    <2> DEFINE k == n - off - i + 1
    <2>1. k \in 1..L /\ off + k \in 1..n /\ n - (off + k) + 1 = i
      BY <1>1, <1>4, <1>5
    <2> HIDE DEF k
    <2>2. p[k] = session_order[i]
      <3>1. k \in 1..Len(q) /\ p[k] = q[k]
        BY <1>5, <2>1, Zenon
      <3>2. q[k] = rev[off + k]
        BY <1>4, <3>1, Zenon
      <3>3. rev[off + k] = session_order[n - (off + k) + 1]
        BY <1>2, <2>1, ZenonT(30)
      <3> QED BY <2>1, <3>1, <3>2, <3>3, ZenonT(30)
    <2>3. k \in DOMAIN p
      BY <1>5, <2>1, LenProperties
    <2> QED BY <2>2, <2>3, ZenonT(30) DEF Range
  <1>8. Range(its \o p) = Range(its) \cup Range(p)
    BY <1>6, ConcatRange, Zenon
  <1>9. Covered(session_order, S, its \o p, off + L)
    <2> SUFFICES ASSUME NEW id \in S, id \notin Range(its \o p)
                 PROVE  \E i \in 1..(n - (off + L)) : session_order[i] = id
      BY Zenon DEF Covered
    <2>1. id \notin Range(its) /\ id \notin Range(p)
      BY <1>8, Zenon
    <2>2. PICK i \in 1..(n - off) : session_order[i] = id
      BY <2>1, Zenon DEF Covered
    <2> QED BY <1>7, <2>1, <2>2, ZenonT(30)
  <1>10. ~(off + L < n) => S \subseteq Range(its \o p)
    <2>1. ~(off + L < n) => \A i \in 1..(n - (off + L)) : FALSE
      BY <1>1, <1>5
    <2> QED BY <1>9, <2>1, ZenonT(30) DEF Covered
  <1> QED BY <1>6, <1>9, <1>10, ZenonT(30) DEF Promised, p

\* What follows when the page and its request stay and the archive changes.
LEMMA PromiseMoves ==
    ASSUME ArchiveInv, NEW e, Archived(e), NEW S, NEW its, NEW off \in Nat, NEW got,
           Promised(session_order, S, its, off, got)
    PROVE  Promised(session_order', S \cap DOMAIN sessions', its, off, got)
  <1>1. ASSUME NEW p, NEW t, got = <<[page |-> p, total |-> t]>>, IsSeq(p),
               Covered(session_order, S, its \o p, off + Len(p)),
               ~(off + Len(p) < t) => S \subseteq Range(its \o p)
        PROVE  Promised(session_order', S \cap DOMAIN sessions', its, off, got)
    <2>1. off + Len(p) \in Nat
      <3>1. Len(p) \in Nat
        BY <1>1, LenProperties, Zenon DEF IsSeq
      <3> QED BY <3>1
    <2>2. Covered(session_order', S \cap DOMAIN sessions', its \o p, off + Len(p))
      BY <1>1, <2>1, ArchiveMoves, ZenonT(30)
    <2> QED BY <1>1, <2>2, Zenon DEF Promised
  <1> QED BY <1>1, Zenon DEF Promised

\* The tailer and a restart.
LEMMA DashboardKeepsPages ==
    ASSUME ArchiveInv, PageInv, Fold \/ RestartDashboard
    PROVE  PageInv'
  <1>0. UNCHANGED <<items, offset, more, requests, overlapped>>
    BY Zenon DEF Fold, RestartDashboard, archive
  <1>n. ~overlapped => offset \in Nat
    BY LenProperties, Zenon DEF PageInv, IsSeq
  <1>1. CASE Fold
    <2>1. PICK e : ingest(e)
      BY <1>1, Zenon DEF Fold
    <2>2. Archived(e) /\ steady' = steady \cap DOMAIN sessions'
      BY <1>1, <2>1, ZenonT(30) DEF ingest, Fold
    <2>3. ~overlapped => Covered(session_order', steady', items, offset)
      BY <1>n, <2>2, ArchiveMoves, ZenonT(30) DEF PageInv
    <2>4. ASSUME ~overlapped, NEW g, Promised(session_order, steady, items, offset, g)
          PROVE  Promised(session_order', steady', items, offset, g)
      BY <1>n, <2>2, <2>4, PromiseMoves, ZenonT(30)
    <2> QED BY <1>0, <2>2, <2>3, <2>4, ZenonT(30) DEF PageInv
  <1>2. CASE RestartDashboard
    <2>1. steady' = {}
      BY <1>2, Zenon DEF RestartDashboard
    <2>2. \A its, off : Covered(session_order', steady', its, off)
      BY <2>1, Zenon DEF Covered
    <2>3. ASSUME NEW g, Promised(session_order, steady, items, offset, g)
          PROVE  Promised(session_order', steady', items, offset, g)
      BY <2>1, <2>2, <2>3, ZenonT(30) DEF Promised
    <2> QED BY <1>0, <2>1, <2>2, <2>3, ZenonT(30) DEF PageInv
  <1> QED BY <1>1, <1>2

\* The request for a page.
LEMMA AskKeepsPages ==
    ASSUME ArchiveInv, PageInv, LoadFirst \/ LoadMore
    PROVE  PageInv'
  <1>0. UNCHANGED <<sessions, session_order, more, steady>>
    BY Zenon DEF LoadFirst, LoadMore, store, vars
  <1>1. CASE LoadFirst
    <2>1. /\ requests' = Append(requests, [first |-> TRUE, from |-> 0, got |-> <<>>])
          /\ overlapped' = (requests # <<>> \/ (overlapped /\ ~TRUE))
          /\ items' = <<>> /\ offset' = 0
      BY <1>1, Zenon DEF LoadFirst, Ask
    <2>2. ~overlapped' => requests' = <<[first |-> TRUE, from |-> offset', got |-> <<>>]>>
      <3>1. ~overlapped' => requests = <<>>
        BY <2>1, Zenon
      <3>2. \A x : Append(<<>>, x) = <<x>>
        OBVIOUS
      <3> QED BY <2>1, <3>1, <3>2, ZenonT(30)
    <2>3. IsSeq(<<>>) /\ 0 = Len(<<>>)
      BY DEF IsSeq
    <2>4. Covered(session_order, steady, <<>>, 0)
      <3>1. /\ DOMAIN session_order = 1..Len(session_order)
            /\ Len(session_order) - 0 = Len(session_order)
        BY LenProperties DEF ArchiveInv
      <3>2. \A id \in steady : \E i \in 1..Len(session_order) : session_order[i] = id
        BY <3>1, Zenon DEF PageInv, ArchiveInv, ArchiveConsistent, Range
      <3> QED BY <3>1, <3>2, ZenonT(30) DEF Covered
    <2>5. Promised(session_order, steady, <<>>, 0, <<>>)
      BY Zenon DEF Promised
    <2> QED BY <1>0, <2>1, <2>2, <2>3, <2>4, <2>5, ZenonT(30) DEF PageInv
  <1>2. CASE LoadMore
    <2>1. /\ requests' = Append(requests, [first |-> FALSE, from |-> offset, got |-> <<>>])
          /\ overlapped' = (requests # <<>> \/ (overlapped /\ ~FALSE))
          /\ items' = items /\ offset' = offset
      BY <1>2, Zenon DEF LoadMore, Ask
    <2>2. ~overlapped' =>
            requests' = <<[first |-> FALSE, from |-> offset', got |-> <<>>]>> /\ ~overlapped
      <3>1. ~overlapped' => requests = <<>> /\ ~overlapped
        BY <2>1, Zenon
      <3>2. \A x : Append(<<>>, x) = <<x>>
        OBVIOUS
      <3> QED BY <2>1, <3>1, <3>2, ZenonT(30)
    <2>3. Promised(session_order, steady, items, offset, <<>>)
      BY Zenon DEF Promised
    <2> QED BY <1>0, <2>1, <2>2, <2>3, ZenonT(30) DEF PageInv
  <1> QED BY <1>1, <1>2

\* The answer, and what the page makes of it.
LEMMA AnswerKeepsPages ==
    ASSUME ArchiveInv, PageInv, NEW r \in 1..Len(requests),
           AnswerPage(r) \/ TakePage(r) \/ PageFails(r)
    PROVE  PageInv'
  <1>0. UNCHANGED <<sessions, session_order, overlapped>>
    BY Zenon DEF AnswerPage, TakePage, PageFails, store, vars
  <1>1. CASE overlapped
    <2>1. steady' = steady \/ steady' = DOMAIN sessions
      BY Zenon DEF AnswerPage, TakePage, PageFails
    <2> QED BY <1>0, <1>1, <2>1, ZenonT(30) DEF PageInv
  <1>2. CASE ~overlapped
    <2>1. /\ IsSeq(items) /\ offset = Len(items)
          /\ Covered(session_order, steady, items, offset)
          /\ items # <<>> /\ ~more => steady \subseteq Range(items)
      BY <1>2, Zenon DEF PageInv
    <2>2. requests # <<>>
      <3>1. requests = <<>> => Len(requests) = 0
        OBVIOUS
      <3> QED BY <3>1
    <2>3. PICK f, g : /\ requests = <<[first |-> f, from |-> offset, got |-> g]>>
                      /\ f => items = <<>>
                      /\ Promised(session_order, steady, items, offset, g)
      BY <1>2, <2>2, ZenonT(30) DEF PageInv
    <2>4. /\ r = 1 /\ requests[r].first = f /\ requests[r].from = offset /\ requests[r].got = g
      BY <2>3
    <2>5. RemoveAt(requests, r) = <<>>
      BY <2>3, <2>4 DEF RemoveAt
    <2>6. CASE PageFails(r)
      BY <1>0, <2>1, <2>5, <2>6, ZenonT(30) DEF PageFails, PageInv
    <2>7. CASE TakePage(r)
      <3>1. g # <<>>
        BY <2>4, <2>7, Zenon DEF TakePage
      <3>2. PICK p, t :
              /\ g = <<[page |-> p, total |-> t]>> /\ IsSeq(p)
              /\ Covered(session_order, steady, items \o p, offset + Len(p))
              /\ ~(offset + Len(p) < t) => steady \subseteq Range(items \o p)
        BY <2>3, <3>1, ZenonT(30) DEF Promised
      <3>3. g[1].page = p /\ g[1].total = t
        BY <3>2
      <3>4. /\ items' = items \o p /\ offset' = offset + Len(p)
            /\ more' = (items' # <<>> /\ Len(items') < t)
            /\ requests' = <<>> /\ steady' = steady
        BY <2>4, <2>5, <2>7, <3>3, ZenonT(30) DEF TakePage
      <3>5. IsSeq(items \o p) /\ Len(items \o p) = Len(items) + Len(p)
        BY <2>1, <3>2, ConcatRange, ZenonT(30)
      <3>6. items' # <<>> /\ ~more' => steady' \subseteq Range(items')
        BY <2>1, <3>2, <3>4, <3>5, ZenonT(30)
      <3> QED BY <1>0, <2>1, <3>2, <3>4, <3>5, <3>6, ZenonT(30) DEF PageInv
    <2>8. CASE AnswerPage(r)
      <3>1. /\ requests' = [requests EXCEPT ![r].got =
                              <<[page |-> sessions_page(offset), total |-> Len(session_order)]>>]
            /\ steady' = IF f THEN DOMAIN sessions ELSE steady
            /\ UNCHANGED <<items, offset, more>>
        BY <2>4, <2>8, ZenonT(30) DEF AnswerPage
      <3>2. PICK d : d = <<[page |-> sessions_page(offset), total |-> Len(session_order)]>>
        BY Zenon
      <3>3. requests' = <<[first |-> f, from |-> offset', got |-> d]>>
        BY <2>3, <2>4, <3>1, <3>2
      <3>4. Covered(session_order, steady', items, offset)
        <4>1. CASE f
          <5>1. items = <<>> /\ Len(session_order) - offset = Len(session_order)
            <6>1. items = <<>> /\ offset = 0
              BY <2>1, <2>3, <4>1
            <6>2. Len(session_order) \in Nat
              BY LenProperties DEF ArchiveInv
            <6> QED BY <6>1, <6>2
          <5>2. DOMAIN session_order = 1..Len(session_order)
            BY LenProperties DEF ArchiveInv
          <5> QED BY <3>1, <4>1, <5>1, <5>2, ZenonT(30)
                  DEF Covered, ArchiveInv, ArchiveConsistent, Range
        <4>2. CASE ~f
          BY <2>1, <3>1, <4>2, ZenonT(30)
        <4> QED BY <4>1, <4>2
      <3>5. offset \in Nat
        BY <2>1, LenProperties, Zenon DEF IsSeq
      <3>6. Promised(session_order, steady', items, offset, d)
        BY <2>1, <3>2, <3>4, <3>5, PageCovers, ZenonT(30)
      <3>7. steady' \subseteq DOMAIN sessions
        BY <3>1, Zenon DEF PageInv
      <3>8. items # <<>> /\ ~more => steady' \subseteq Range(items)
        BY <2>1, <2>3, <3>1, ZenonT(30)
      <3> QED BY <1>0, <2>1, <2>3, <3>1, <3>3, <3>4, <3>6, <3>7, <3>8, ZenonT(30) DEF PageInv
    <2> QED BY <2>6, <2>7, <2>8
  <1> QED BY <1>1, <1>2

\* One step, seen from the pages.
LEMMA PageStep ==
    ASSUME ArchiveInv, PageInv, [BrowserNext]_<<store, tailer, page>>
    PROVE  PageInv'
  <1>1. CASE UNCHANGED <<store, archive, steady>>
    <2>1. UNCHANGED <<sessions, session_order, items, offset, more, requests, overlapped, steady>>
      BY <1>1, Zenon DEF store, vars, archive
    <2> QED BY <2>1 DEF PageInv
  <1>2. CASE Pages
    BY <1>2, AskKeepsPages, AnswerKeepsPages, ZenonT(30) DEF Pages
  <1>3. Pages \/ Fold \/ RestartDashboard \/ UNCHANGED <<store, archive, steady>>
    BY Zenon
       DEF BrowserNext, Tailer, Feed, AppendLine, TakeBatch, Send, loadKnownValues,
           loadInitialFeed, connectStream, CutOff, Push, page
  <1> QED BY <1>1, <1>2, <1>3, DashboardKeepsPages, ZenonT(30)

\* PagesMissNothing: loadSessions pages by an offset into a list that grows at
\* its front and is cut at its end, and still meets every session that stayed,
\* for any page size, any cap and any number of pages.
THEOREM PagesComplete == BrowserSpec => []PagesMissNothing
  <1>1. BrowserInit => PageInv
    <2> SUFFICES ASSUME BrowserInit PROVE PageInv
      OBVIOUS
    <2>1. steady = {} /\ items = <<>> /\ offset = 0 /\ requests = <<>>
      BY Zenon DEF BrowserInit
    <2>2. IsSeq(<<>>) /\ 0 = Len(<<>>)
      BY DEF IsSeq
    <2> QED BY <2>1, <2>2, ZenonT(30) DEF PageInv, Covered
  <1>2. ArchiveInv /\ PageInv /\ [BrowserNext]_<<store, tailer, page>> => PageInv'
    BY PageStep
  <1>3. PageInv => PagesMissNothing
    BY Zenon DEF PageInv, PagesMissNothing
  <1> QED BY <1>1, <1>2, <1>3, ArchiveInvServed, PTL DEF BrowserSpec

=============================================================================
