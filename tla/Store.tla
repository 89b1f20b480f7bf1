-------------------------------- MODULE Store --------------------------------
(***************************************************************************)
(* The dashboard's in-memory aggregation: counters capped in the number of *)
(* their keys, the ring of recent events, and the archive of sessions with *)
(* its eviction. Events are folded in one at a time.                       *)
(*                                                                         *)
(* An event is its kind, its session, its source address, the hour it was  *)
(* sent in and one word: the verb of a command, the user name and password *)
(* of a credential, a value of an IOC, the place a session comes from.     *)
(***************************************************************************)
EXTENDS Integers, Sequences, FiniteSets, Functions

CONSTANTS
    Ids,          \* session ids
    Addr,         \* the source address of each session
    Words,        \* the words events carry
    Placeless,    \* the addresses GeoIP finds no place for
    RecentCap,    \* RECENT_CAP
    ArchiveCap,   \* SESSION_ARCHIVE_CAP
    CounterCap,   \* COUNTER_CAP
    KnownCap,     \* COMMAND_CAP and IOC_CAP
    HourlyWindow, \* HOURLY_WINDOW_HOURS
    MaxHour       \* bound on the clock, in hours

\* The kernel probes that would send the other kinds of event are not built.
Kinds == {"SessionStart", "SessionEnd", "CommandRun", "CredentialHarvest", "PayloadCaptured"}

ASSUME StoreAssumption ==
    /\ Addr \in [Ids -> Range(Addr)] /\ Words # {}
    /\ RecentCap \in Nat \ {0} /\ ArchiveCap \in Nat \ {0}
    /\ CounterCap \in Nat \ {0} /\ KnownCap \in Nat \ {0}
    /\ Placeless \subseteq Range(Addr)
    /\ HourlyWindow \in Nat /\ MaxHour \in Nat

VARIABLES
    totals,          \* total_sessions, total_commands, ... by kind of event
    unique_ips, ip_counts,
    word_counts,     \* command_counts, username_counts and password_counts,
                     \* country_counts: one counter per kind of event
    geo_points,      \* sessions per cell of the map
    hourly_activity,
    known,           \* known_full_commands, known_*_iocs: one set per kind
    recent,
    sessions,        \* the archive: a function on the ids it holds
    session_order,
    hour,            \* Utc::now, in hours
    ingested         \* history: every event ingested

vars == <<totals, unique_ips, ip_counts, word_counts, geo_points, hourly_activity, known,
          recent, sessions, session_order, hour, ingested>>

Event(kind, id, word, ts) ==
    [kind |-> kind, id |-> id, ip |-> Addr[id], word |-> word, ts |-> ts]

-----------------------------------------------------------------------------

\* Mutant: a full map makes room by forgetting a key.
BumpEvicting(map, key, cap) ==
    IF key \in DOMAIN map THEN [map EXCEPT ![key] = @ + 1]
    ELSE LET kept == IF Cardinality(DOMAIN map) < cap THEN DOMAIN map
                     ELSE DOMAIN map \ {CHOOSE k \in DOMAIN map : TRUE}
         IN  [k \in kept \cup {key} |-> IF k = key THEN 1 ELSE map[k]]

bump_capped(map, key, cap) ==
    IF key \in DOMAIN map THEN [map EXCEPT ![key] = @ + 1]
    ELSE IF Cardinality(DOMAIN map) < cap
           THEN [k \in DOMAIN map \cup {key} |-> IF k = key THEN 1 ELSE map[k]]
           ELSE map

\* An entry of a map that has no cap.
Bumped(map, key) == bump_capped(map, key, Cardinality(DOMAIN map) + 1)

\* Mutant: old hours are dropped before the event is counted, not after.
BumpHourPruningFirst(ts) ==
    LET recent_hours == {h \in DOMAIN hourly_activity : h >= hour - HourlyWindow}
    IN  Bumped(Restrict(hourly_activity, recent_hours), ts)

\* bump_hour: count the event, then drop the hours that left the window.
bump_hour(ts) ==
    LET counted == Bumped(hourly_activity, ts)
    IN  Restrict(counted, {h \in DOMAIN counted : h >= hour - HourlyWindow})

insert_capped(set, val, cap) ==
    IF val \in set \/ Cardinality(set) < cap THEN set \cup {val} ELSE set

NewRecord == [ended |-> FALSE, user |-> FALSE, commands |-> 0, payloads |-> 0]

\* Mutant: the record of an evicted session is left in the map.
EvictedLeaking(order) == sessions

\* The records left once the archive is cut to its cap.
Evicted(order) ==
    IF Len(order) > ArchiveCap THEN Restrict(sessions, DOMAIN sessions \ {order[1]})
    ELSE sessions

\* Mutant: a full archive takes no new session.
ArchiveRefusing(id) ==
    IF id \notin DOMAIN sessions /\ Len(session_order) >= ArchiveCap
      THEN UNCHANGED <<session_order, sessions>>
      ELSE /\ session_order' = IF id \in DOMAIN sessions THEN session_order
                               ELSE Append(session_order, id)
           /\ sessions' = [i \in DOMAIN sessions \cup {id} |->
                             IF i = id THEN NewRecord ELSE sessions[i]]

archive_session_start(id) ==
    LET order == IF id \in DOMAIN sessions THEN session_order
                 ELSE Append(session_order, id)
        kept == Evicted(order)
    IN  /\ session_order' = IF Len(order) > ArchiveCap THEN Tail(order) ELSE order
        /\ sessions' = [i \in DOMAIN kept \cup {id} |-> IF i = id THEN NewRecord ELSE kept[i]]

\* Mutant: a command is counted only until the session has ended.
UpdatedUntilEnd(rec, kind) ==
    CASE kind = "SessionEnd" -> [rec EXCEPT !.ended = TRUE]
      [] kind = "CommandRun" /\ ~rec.ended -> [rec EXCEPT !.commands = @ + 1]
      [] kind = "CredentialHarvest" -> [rec EXCEPT !.user = TRUE]
      [] kind = "PayloadCaptured" -> [rec EXCEPT !.payloads = @ + 1]
      [] OTHER -> rec

\* What an event other than a start does to the record of its session.
Updated(rec, kind) ==
    CASE kind = "SessionEnd" -> [rec EXCEPT !.ended = TRUE]
      [] kind = "CommandRun" -> [rec EXCEPT !.commands = @ + 1]
      [] kind = "CredentialHarvest" -> [rec EXCEPT !.user = TRUE]
      [] kind = "PayloadCaptured" -> [rec EXCEPT !.payloads = @ + 1]
      [] OTHER -> rec

Archived(e) ==
    \/ e.kind = "SessionStart" /\ archive_session_start(e.id)
    \/ /\ e.kind # "SessionStart" /\ UNCHANGED session_order
       /\ sessions' = IF e.id \in DOMAIN sessions
                        THEN [sessions EXCEPT ![e.id] = Updated(@, e.kind)]
                        ELSE sessions

PushRecent(e) ==
    LET all == Append(recent, e)
    IN  IF Len(all) > RecentCap THEN Tail(all) ELSE all

\* The word of the event is one its counter takes in: any but a start that
\* tells no place.
Counts(e) == e.kind \in DOMAIN word_counts /\ (e.kind = "SessionStart" => e.ip \notin Placeless)

ingest(e) ==
    /\ hourly_activity' = bump_hour(e.ts)
    /\ unique_ips' = insert_capped(unique_ips, e.ip, CounterCap)
    /\ ip_counts' = bump_capped(ip_counts, e.ip, CounterCap)
    /\ totals' = [totals EXCEPT ![e.kind] = @ + 1]
    /\ word_counts' = IF Counts(e)
                        THEN [word_counts EXCEPT ![e.kind] = bump_capped(@, e.word, CounterCap)]
                        ELSE word_counts
    /\ geo_points' = IF e.kind = "SessionStart" /\ Counts(e) THEN Bumped(geo_points, e.word)
                     ELSE geo_points
    /\ known' = IF e.kind \in DOMAIN known
                  THEN [known EXCEPT ![e.kind] = insert_capped(@, e.word, KnownCap)]
                  ELSE known
    /\ Archived(e)
    /\ recent' = PushRecent(e)
    /\ ingested' = Append(ingested, e)
    /\ UNCHANGED hour

NoCounts == [k \in {"CommandRun", "CredentialHarvest", "SessionStart"} |-> <<>>]
NoneKnown == [k \in {"CommandRun", "PayloadCaptured"} |-> {}]

StoreInit ==
    /\ totals = [k \in Kinds |-> 0]
    /\ unique_ips = {} /\ ip_counts = <<>> /\ word_counts = NoCounts
    /\ geo_points = <<>> /\ hourly_activity = <<>> /\ known = NoneKnown
    /\ recent = <<>> /\ sessions = <<>> /\ session_order = <<>>
    /\ hour = 0 /\ ingested = <<>>

\* A dashboard that is started again has Store::default().
StoreEmptied ==
    /\ totals' = [k \in Kinds |-> 0]
    /\ unique_ips' = {} /\ ip_counts' = <<>> /\ word_counts' = NoCounts
    /\ geo_points' = <<>> /\ hourly_activity' = <<>> /\ known' = NoneKnown
    /\ recent' = <<>> /\ sessions' = <<>> /\ session_order' = <<>>
    /\ ingested' = <<>>
    /\ UNCHANGED hour

HourPasses ==
    /\ hour < MaxHour
    /\ hour' = hour + 1
    /\ UNCHANGED <<totals, unique_ips, ip_counts, word_counts, geo_points, hourly_activity,
                   known, recent, sessions, session_order, ingested>>

-----------------------------------------------------------------------------
(* Properties *)

Occurrences(P(_)) == Cardinality({i \in 1..Len(ingested) : P(ingested[i])})

\* Whatever evictions and repeated starts came before, the archive lists each
\* session it has a record of exactly once, and no other, within its cap.
ArchiveConsistent ==
    /\ Range(session_order) = DOMAIN sessions
    /\ \A i, j \in 1..Len(session_order) : session_order[i] = session_order[j] => i = j
    /\ Len(session_order) <= ArchiveCap

LastStart(id) ==
    CHOOSE i \in 1..Len(ingested) :
        /\ ingested[i].kind = "SessionStart" /\ ingested[i].id = id
        /\ \A j \in (i + 1)..Len(ingested) :
             ~(ingested[j].kind = "SessionStart" /\ ingested[j].id = id)

Since(id, kind) ==
    Cardinality({i \in LastStart(id)..Len(ingested) :
                   ingested[i].kind = kind /\ ingested[i].id = id})

\* The record of an archived session tells what happened to that session since
\* it was last started, and nothing of any other.
RecordsExact ==
    \A id \in DOMAIN sessions :
        sessions[id] = [ended |-> Since(id, "SessionEnd") > 0,
                        user |-> Since(id, "CredentialHarvest") > 0,
                        commands |-> Since(id, "CommandRun"),
                        payloads |-> Since(id, "PayloadCaptured")]

\* A key a counter tracks is counted exactly, from its first occurrence on,
\* however many other keys the cap has turned away; and the addresses counted
\* as unique are the ones that are tracked.
TrackedCountsExact ==
    /\ \A k \in DOMAIN word_counts : \A w \in DOMAIN word_counts[k] :
         word_counts[k][w] = Occurrences(LAMBDA e : e.kind = k /\ e.word = w /\ Counts(e))
    /\ \A a \in DOMAIN ip_counts : ip_counts[a] = Occurrences(LAMBDA e : e.ip = a)
    /\ unique_ips = DOMAIN ip_counts
    /\ \A w \in DOMAIN word_counts["SessionStart"] :
         geo_points[w] = word_counts["SessionStart"][w]

\* However late the lines of the log are read, the activity shown for an hour
\* of the window counts every event ingested from it, and no more hours are
\* held than the window has.
HourlyExact ==
    /\ Cardinality(DOMAIN hourly_activity) <= HourlyWindow + 1
    /\ \A h \in 0..hour : h >= hour - HourlyWindow =>
         (IF h \in DOMAIN hourly_activity THEN hourly_activity[h] ELSE 0)
           = Occurrences(LAMBDA e : e.ts = h)
=============================================================================
