--------------------------- MODULE ArchiveProofs ---------------------------
(***************************************************************************)
(* What the store makes of events, for every cap.  Any event keeps the     *)
(* session archive consistent and the counters what their keys and caps    *)
(* make them; the page's proofs build on that too.  From the events of the *)
(* gateway, for any number of sessions, come a consistent archive that     *)
(* forgets the oldest first, exact records, exact counters and exact hours.*)
(***************************************************************************)
EXTENDS Archive, SequenceTheorems, FiniteSetTheorems, TLAPS

\* The provers of a leaf that names none, in turn, and the seconds each has.
USE SMTT(20), ZenonT(20), Z3T(20)

-----------------------------------------------------------------------------
(* Any event *)

\* The order in which sessions are forgotten lists archived sessions only.
ArchiveInv == session_order \in Seq(DOMAIN sessions) /\ ArchiveConsistent

\* A function on 1..n is a sequence.
LEMMA FunctionIsSeq ==
    ASSUME NEW S, NEW n \in Nat, NEW f \in [1..n -> S]
    PROVE  f \in Seq(S)
  BY SeqDef

\* What finitely many events name is finite.
LEMMA NamedFinite ==
    ASSUME NEW n \in Nat, NEW f, NEW S, \A o \in S : \E j \in 1..n : f[j] = o
    PROVE  IsFiniteSet(S)
  <1> DEFINE T == {f[j] : j \in 1..n}
             g == [j \in 1..n |-> f[j]]
  <1>1. IsFiniteSet(1..n)
    BY FS_Interval
  <1>2. g \in Surjection(1..n, T)
    BY DEF Surjection
  <1>3. S \in SUBSET T
    OBVIOUS
  <1> HIDE DEF T, g
  <1>4. IsFiniteSet(T)
    BY <1>1, <1>2, FS_Surjection
  <1> QED BY <1>3, <1>4, FS_Subset, Zenon

\* Store::default() has an empty archive.
LEMMA EmptyArchive ==
    ASSUME session_order = <<>>, sessions = <<>>
    PROVE  ArchiveInv
  BY StoreAssumption DEF ArchiveInv, ArchiveConsistent, Range

\* archive_session_start with a session the archive has no record of: it goes to
\* the end of the order, and the oldest leaves if there is one too many.
LEMMA NewSessionKeeps ==
    ASSUME ArchiveInv, NEW id, id \notin DOMAIN sessions, archive_session_start(id)
    PROVE  ArchiveInv'
  <1> DEFINE order == Append(session_order, id)
             n == Len(session_order)
  <1>0. /\ session_order \in Seq(DOMAIN sessions)
        /\ Range(session_order) = DOMAIN sessions
        /\ \A i, j \in 1..n : session_order[i] = session_order[j] => i = j
        /\ n \in Nat /\ n <= ArchiveCap /\ ArchiveCap \in Nat \ {0}
    BY StoreAssumption DEF ArchiveInv, ArchiveConsistent
  <1>1. /\ order \in Seq(DOMAIN sessions \cup {id}) /\ Len(order) = n + 1
        /\ order[n + 1] = id /\ \A i \in 1..n : order[i] = session_order[i]
    BY <1>0
  <1>2. \A i, j \in 1..(n + 1) : order[i] = order[j] => i = j
    <2> SUFFICES ASSUME NEW i \in 1..(n + 1), NEW j \in 1..(n + 1), order[i] = order[j]
                 PROVE  i = j
      OBVIOUS
    <2>1. \A k \in 1..n : order[k] \in DOMAIN sessions
      BY <1>0, <1>1
    <2>2. (i \in 1..n \/ i = n + 1) /\ (j \in 1..n \/ j = n + 1)
      BY <1>0
    <2> HIDE DEF order
    <2>3. CASE i \in 1..n /\ j \in 1..n
      BY <1>0, <1>1, <2>3
    <2>4. CASE i = n + 1 \/ j = n + 1
      BY <1>1, <2>1, <2>2, <2>4
    <2> QED BY <2>2, <2>3, <2>4
  <1>3. CASE n < ArchiveCap
    <2>1. session_order' = order /\ DOMAIN sessions' = DOMAIN sessions \cup {id}
      BY <1>0, <1>1, <1>3 DEF archive_session_start, Evicted
    <2>2. Range(order) = DOMAIN sessions \cup {id}
      BY <1>0, <1>1 DEF Range
    <2> HIDE DEF order
    <2> QED BY <1>0, <1>1, <1>2, <1>3, <2>1, <2>2 DEF ArchiveInv, ArchiveConsistent
  <1>4. CASE n = ArchiveCap
    <2>1. /\ session_order' = Tail(order)
          /\ DOMAIN sessions' = (DOMAIN sessions \ {order[1]}) \cup {id}
      BY <1>0, <1>1, <1>4 DEF archive_session_start, Evicted, Restrict
    <2>2. /\ Len(Tail(order)) = n /\ \A i \in 1..n : Tail(order)[i] = order[i + 1]
          /\ Tail(order) \in Seq(DOMAIN sessions \cup {id})
      BY <1>0, <1>1
    <2>3. Range(Tail(order)) = {order[i] : i \in 2..(n + 1)}
      <3>1. DOMAIN Tail(order) = 1..n
        BY <2>2
      <3>2. \A i \in 2..(n + 1) : i - 1 \in 1..n /\ (i - 1) + 1 = i
        BY <1>0
      <3>3. \A i \in 1..n : i + 1 \in 2..(n + 1)
        BY <1>0
      <3> HIDE DEF order
      <3>4. \A i \in 1..n : Tail(order)[i] \in {order[k] : k \in 2..(n + 1)}
        BY <2>2, <3>3
      <3>5. \A k \in 2..(n + 1) : order[k] = Tail(order)[k - 1]
        BY <2>2, <3>2
      <3>6. Range(Tail(order)) = {Tail(order)[i] : i \in 1..n}
        BY <3>1, Zenon DEF Range
      <3> QED BY <3>2, <3>4, <3>5, <3>6, Zenon
    <2>4. {order[i] : i \in 2..(n + 1)} = (DOMAIN sessions \ {order[1]}) \cup {id}
      <3>1. DOMAIN sessions = {order[i] : i \in 1..n}
        <4>1. DOMAIN session_order = 1..n
          BY <1>0
        <4>2. DOMAIN sessions = {session_order[i] : i \in 1..n}
          BY <1>0, <4>1 DEF Range
        <4> HIDE DEF order
        <4> QED BY <1>1, <4>2
      <3>2. 1 \in 1..n
        BY <1>0, <1>4
      <3> HIDE DEF order
      <3>3. \A i \in 2..(n + 1) : order[i] # order[1] /\ (i \in 1..n \/ i = n + 1)
        BY <1>0, <1>2
      <3>4. \A i \in 1..n : i = 1 \/ i \in 2..(n + 1)
        BY <1>0
      <3>5. n + 1 \in 2..(n + 1)
        BY <1>0, <1>4
      <3> QED BY <1>1, <3>1, <3>2, <3>3, <3>4, <3>5
    <2>5. \A i, j \in 1..n : Tail(order)[i] = Tail(order)[j] => i = j
      <3> HIDE DEF order
      <3> QED BY <1>0, <1>2, <2>2
    <2> HIDE DEF order
    <2>6. Tail(order) \in Seq(DOMAIN sessions')
      <3>1. \A i \in 1..n : i + 1 \in 2..(n + 1)
        BY <1>0
      <3>2. \A i \in 1..n : Tail(order)[i] \in DOMAIN sessions'
        BY <2>1, <2>2, <2>4, <3>1
      <3>3. Tail(order) \in [1..n -> DOMAIN sessions \cup {id}]
        BY <2>2, LenProperties, Zenon
      <3>4. Tail(order) \in [1..n -> DOMAIN sessions']
        BY <3>2, <3>3, Zenon
      <3> QED BY <1>0, <3>4, FunctionIsSeq, Zenon
    <2> QED BY <1>0, <1>4, <2>1, <2>2, <2>3, <2>4, <2>5, <2>6 DEF ArchiveInv, ArchiveConsistent
  <1> QED BY <1>0, <1>3, <1>4

\* What that start leaves of the order: all of it, or all but its head when the
\* archive is full, and the new session behind.
LEMMA NewSessionFacts ==
    ASSUME ArchiveInv, NEW id, id \notin DOMAIN sessions, archive_session_start(id)
    PROVE  \E d \in {0, 1} :
             /\ d = 1 <=> Len(session_order) = ArchiveCap
             /\ Len(session_order') = Len(session_order) + 1 - d
             /\ session_order'[Len(session_order) + 1 - d] = id
             /\ \A i \in 1..(Len(session_order) - d) : session_order'[i] = session_order[i + d]
             /\ d = 0 => DOMAIN sessions' = DOMAIN sessions \cup {id}
             /\ d = 1 => DOMAIN sessions' = (DOMAIN sessions \ {session_order[1]}) \cup {id}
  <1> DEFINE order == Append(session_order, id)
             n == Len(session_order)
  <1>0. /\ session_order \in Seq(DOMAIN sessions)
        /\ n \in Nat /\ n <= ArchiveCap /\ ArchiveCap \in Nat \ {0}
    BY StoreAssumption DEF ArchiveInv, ArchiveConsistent
  <1>1. /\ order \in Seq(DOMAIN sessions \cup {id}) /\ Len(order) = n + 1
        /\ order[n + 1] = id /\ \A i \in 1..n : order[i] = session_order[i]
    BY <1>0
  <1>2. CASE n < ArchiveCap
    <2>1. session_order' = order /\ DOMAIN sessions' = DOMAIN sessions \cup {id}
      BY <1>0, <1>1, <1>2 DEF archive_session_start, Evicted
    <2> HIDE DEF order
    <2> WITNESS 0 \in {0, 1}
    <2> QED BY <1>0, <1>1, <1>2, <2>1
  <1>3. CASE n = ArchiveCap
    <2>1. /\ session_order' = Tail(order)
          /\ DOMAIN sessions' = (DOMAIN sessions \ {order[1]}) \cup {id}
      BY <1>0, <1>1, <1>3 DEF archive_session_start, Evicted, Restrict
    <2>2. Len(Tail(order)) = n /\ \A i \in 1..n : Tail(order)[i] = order[i + 1]
      BY <1>0, <1>1
    <2> HIDE DEF order
    <2>3. \A i \in 1..(n - 1) : i \in 1..n /\ i + 1 \in 1..n
      BY <1>0
    <2>4. n \in 1..n /\ 1 \in 1..n /\ n + 1 - 1 = n
      BY <1>0, <1>3
    <2> WITNESS 1 \in {0, 1}
    <2> QED BY <1>1, <1>3, <2>1, <2>2, <2>3, <2>4
  <1> QED BY <1>0, <1>2, <1>3

\* Any event but the start of an unknown session leaves the order as it is.
LEMMA OrderKept ==
    ASSUME ArchiveInv, NEW e, Archived(e), ~(e.kind = "SessionStart" /\ e.id \notin DOMAIN sessions)
    PROVE  session_order' = session_order /\ DOMAIN sessions' = DOMAIN sessions
  <1>1. CASE e.kind = "SessionStart"
    <2>1. Len(session_order) \in Nat /\ ArchiveCap \in Nat /\ Len(session_order) <= ArchiveCap
      BY StoreAssumption DEF ArchiveInv, ArchiveConsistent
    <2>2. ~(Len(session_order) > ArchiveCap)
      BY <2>1
    <2> QED BY <1>1, <2>2, Zenon DEF Archived, archive_session_start, Evicted
  <1>2. CASE e.kind # "SessionStart"
    BY <1>2 DEF Archived
  <1> QED BY <1>1, <1>2

\* Any event keeps the archive consistent: a start, a start of a session that
\* is archived already, and what only changes a record.
LEMMA IngestKeeps ==
    ASSUME ArchiveInv, NEW e, ingest(e)
    PROVE  ArchiveInv'
  <1>1. CASE e.kind = "SessionStart" /\ e.id \notin DOMAIN sessions
    BY <1>1, NewSessionKeeps DEF ingest, Archived
  <1>2. CASE ~(e.kind = "SessionStart" /\ e.id \notin DOMAIN sessions)
    <2>1. session_order' = session_order /\ DOMAIN sessions' = DOMAIN sessions
      BY <1>2, OrderKept, Zenon DEF ingest
    <2> QED BY <2>1 DEF ArchiveInv, ArchiveConsistent
  <1> QED BY <1>1, <1>2

-----------------------------------------------------------------------------
(* The counters *)

\* What a counter holds is exact: c[k] is the number of times key k occurred.
Exact(map, c) ==
    /\ IsFiniteSet(DOMAIN map) /\ DOMAIN map \subseteq DOMAIN c
    /\ \A k \in DOMAIN map : map[k] = c[k] /\ c[k] > 0

\* A counter passes over a key that occurred only because it was full.
Capped(map, cap, c) ==
    /\ Exact(map, c)
    /\ \A k \in DOMAIN c \ DOMAIN map : c[k] > 0 => Cardinality(DOMAIN map) >= cap

\* A map without a cap passes over none.
Complete(map, c) ==
    /\ Exact(map, c)
    /\ \A k \in DOMAIN c \ DOMAIN map : c[k] = 0

\* The occurrences after one more of key.
Again(c, key) == [c EXCEPT ![key] = @ + 1]

\* A map with no keys is a counter of what never occurred.
LEMMA EmptyCounter ==
    ASSUME NEW cap, NEW K, NEW c, c = [k \in K |-> 0]
    PROVE  Capped(<<>>, cap, c) /\ Complete(<<>>, c)
  BY FS_EmptySet DEF Capped, Complete, Exact

\* Where bump_capped finds room for its key, and what it then holds.
LEMMA BumpFacts ==
    ASSUME NEW map, NEW key, NEW cap
    PROVE  LET new == bump_capped(map, key, cap) IN
           /\ DOMAIN new = IF key \in DOMAIN map \/ Cardinality(DOMAIN map) < cap
                             THEN DOMAIN map \cup {key} ELSE DOMAIN map
           /\ \A k \in DOMAIN map : k # key => new[k] = map[k]
           /\ key \in DOMAIN map => new[key] = map[key] + 1
           /\ key \notin DOMAIN map /\ Cardinality(DOMAIN map) < cap => new[key] = 1
  <1>1. CASE key \in DOMAIN map
    BY <1>1, Zenon DEF bump_capped
  <1>2. CASE key \notin DOMAIN map /\ Cardinality(DOMAIN map) < cap
    BY <1>2 DEF bump_capped
  <1>3. CASE key \notin DOMAIN map /\ ~(Cardinality(DOMAIN map) < cap)
    BY <1>3 DEF bump_capped
  <1> QED BY <1>1, <1>2, <1>3

\* Another occurrence of a key keeps a counter exact, whatever the cap, as long
\* as a key it takes in anew had not occurred before.
LEMMA BumpExact ==
    ASSUME NEW K, NEW c \in [K -> Nat], NEW map, NEW key \in K, NEW cap,
           Exact(map, c),
           key \notin DOMAIN map /\ Cardinality(DOMAIN map) < cap => c[key] = 0
    PROVE  Exact(bump_capped(map, key, cap), Again(c, key))
  <1> DEFINE new == bump_capped(map, key, cap)
             d == Again(c, key)
  <1>1. /\ DOMAIN new = IF key \in DOMAIN map \/ Cardinality(DOMAIN map) < cap
                          THEN DOMAIN map \cup {key} ELSE DOMAIN map
        /\ \A k \in DOMAIN map : k # key => new[k] = map[k]
        /\ key \in DOMAIN map => new[key] = map[key] + 1
        /\ key \notin DOMAIN map /\ Cardinality(DOMAIN map) < cap => new[key] = 1
    BY BumpFacts, Zenon
  <1> HIDE DEF new
  <1>2. /\ IsFiniteSet(DOMAIN map) /\ DOMAIN map \subseteq K /\ DOMAIN c = K /\ DOMAIN d = K
        /\ \A k \in DOMAIN map : map[k] = c[k] /\ c[k] > 0
    BY DEF Exact, Again
  <1>3. IsFiniteSet(DOMAIN new)
    <2>1. DOMAIN new = DOMAIN map \cup {key} \/ DOMAIN new = DOMAIN map
      BY <1>1
    <2> QED BY <1>2, <2>1, FS_AddElement, ZenonT(30)
  <1>4. d[key] = c[key] + 1 /\ \A k \in K : k # key => d[k] = c[k]
    BY DEF Again
  <1> HIDE DEF d
  <1>5. ASSUME NEW k \in DOMAIN new
        PROVE  new[k] = d[k] /\ d[k] > 0
    <2>1. CASE k # key
      BY <1>1, <1>2, <1>4, <1>5, <2>1
    <2>2. CASE k = key /\ key \in DOMAIN map
      BY <1>1, <1>2, <1>4, <2>2
    <2>3. CASE k = key /\ key \notin DOMAIN map
      BY <1>1, <1>4, <1>5, <2>3
    <2> QED BY <2>1, <2>2, <2>3
  <1>6. DOMAIN new \subseteq K
    BY <1>1, <1>2
  <1> QED BY <1>2, <1>3, <1>5, <1>6 DEF Exact, new, d

\* bump_capped keeps a counter exact for the keys it tracks.
LEMMA BumpKeepsCapped ==
    ASSUME NEW K, NEW c \in [K -> Nat], NEW map, NEW key \in K, NEW cap \in Nat,
           Capped(map, cap, c)
    PROVE  Capped(bump_capped(map, key, cap), cap, Again(c, key))
  <1> DEFINE new == bump_capped(map, key, cap)
             d == Again(c, key)
  <1>1. /\ DOMAIN new = IF key \in DOMAIN map \/ Cardinality(DOMAIN map) < cap
                          THEN DOMAIN map \cup {key} ELSE DOMAIN map
    BY BumpFacts, Zenon
  <1>2. /\ Exact(map, c) /\ IsFiniteSet(DOMAIN map) /\ DOMAIN map \subseteq K
        /\ DOMAIN c = K /\ DOMAIN d = K
        /\ \A k \in K \ DOMAIN map : c[k] > 0 => Cardinality(DOMAIN map) >= cap
    BY DEF Capped, Exact, Again
  <1>3. Cardinality(DOMAIN map) \in Nat
    BY <1>2, FS_CardinalityType
  <1>4. key \notin DOMAIN map /\ Cardinality(DOMAIN map) < cap => c[key] = 0
    BY <1>2, <1>3
  <1>5. Exact(new, d)
    BY <1>2, <1>4, BumpExact, Zenon
  <1> HIDE DEF new
  <1>6. Cardinality(DOMAIN new) \in Nat /\ Cardinality(DOMAIN new) >= Cardinality(DOMAIN map)
    <2>1. IsFiniteSet(DOMAIN new) /\ DOMAIN map \in SUBSET DOMAIN new
      BY <1>1, <1>5 DEF Exact
    <2> QED BY <1>3, <2>1, FS_Subset, FS_CardinalityType
  <1>7. ASSUME NEW k \in K \ DOMAIN new, d[k] > 0
        PROVE  Cardinality(DOMAIN new) >= cap
    <2>1. CASE k # key
      <3>1. c[k] > 0 /\ k \in K \ DOMAIN map
        BY <1>1, <1>7, <2>1 DEF Again
      <3> QED BY <1>2, <1>3, <1>6, <3>1
    <2>2. CASE k = key
      BY <1>1, <1>3, <1>6, <1>7, <2>2
    <2> QED BY <2>1, <2>2
  <1> QED BY <1>2, <1>5, <1>7 DEF Capped, new

\* A map without a cap takes in every key that occurs.
LEMMA BumpKeepsComplete ==
    ASSUME NEW K, NEW c \in [K -> Nat], NEW map, NEW key \in K,
           Complete(map, c)
    PROVE  Complete(Bumped(map, key), Again(c, key))
  <1> DEFINE cap == Cardinality(DOMAIN map) + 1
             new == bump_capped(map, key, cap)
             d == Again(c, key)
  <1>1. /\ Exact(map, c) /\ IsFiniteSet(DOMAIN map)
        /\ DOMAIN c = K /\ DOMAIN d = K
        /\ \A k \in K \ DOMAIN map : c[k] = 0
    BY DEF Complete, Exact, Again
  <1>2. Cardinality(DOMAIN map) < cap
    BY <1>1, FS_CardinalityType
  <1> HIDE DEF cap
  <1>3. DOMAIN new = DOMAIN map \cup {key}
    BY <1>2, BumpFacts, Zenon
  <1>c. key \notin DOMAIN map /\ Cardinality(DOMAIN map) < cap => c[key] = 0
    BY <1>1
  <1>4. Exact(new, d)
    BY <1>1, <1>c, BumpExact, Zenon
  <1> HIDE DEF new
  <1>5. \A k \in K \ DOMAIN new : d[k] = 0
    BY <1>1, <1>3 DEF Again
  <1> QED BY <1>1, <1>4, <1>5 DEF Complete, Bumped, new, cap

-----------------------------------------------------------------------------
(* The events of the gateway *)

\* Only the store's ingest touches the archive, and it keeps it in order.
LEMMA ArchiveInvKept == Spec => []ArchiveInv
  <1>1. Init => ArchiveInv
    BY EmptyArchive DEF Init, StoreInit
  <1>2. ArchiveInv /\ [Next]_<<vars, gateway>> => ArchiveInv'
    <2> SUFFICES ASSUME ArchiveInv, [Next]_<<vars, gateway>>
                 PROVE  ArchiveInv'
      OBVIOUS
    <2>1. CASE Ingest
      BY <2>1, IngestKeeps DEF Ingest
    <2>2. CASE UNCHANGED <<session_order, sessions>>
      BY <2>2 DEF ArchiveInv, ArchiveConsistent
    <2>3. ASSUME NEW id \in Ids, Authenticate(id) \/ shell_request(id) \/ Command(id)
                                 \/ Teardown(id) \/ Drop(id)
          PROVE  UNCHANGED <<session_order, sessions>>
      BY <2>3, Zenon DEF Authenticate, shell_request, Command, Teardown, Drop, Emit, EmitWord, vars
    <2> QED BY <2>1, <2>2, <2>3 DEF Next, HourPasses, vars
  <1> QED BY <1>1, <1>2, PTL DEF Spec

\* ArchiveConsistent: in whatever order sessions start, start again, end, are
\* lost and are evicted, archive_session_start keeps the map of records and the
\* order of eviction in step.
THEOREM ArchiveKept == Spec => []ArchiveConsistent
  <1>1. ArchiveInv => ArchiveConsistent
    BY DEF ArchiveInv
  <1> QED BY <1>1, ArchiveInvKept, PTL

-----------------------------------------------------------------------------
(* The flow of the events *)

\* The events sent by hour h.
EventType(h) == [kind : Kinds, id : Ids, ip : Range(Addr), word : Words, ts : 0..h]

FlowInv ==
    /\ hour \in Nat
    /\ ingested \in Seq(EventType(hour)) /\ pipe \in Seq(EventType(hour))

\* A sequence over a set is one over any larger set.
LEMMA SeqMono ==
    ASSUME NEW S, NEW T, S \subseteq T, NEW s \in Seq(S)
    PROVE  s \in Seq(T)
  BY SeqDef

\* What a session sends is stamped with an hour that has come.
LEMMA EmitFlows ==
    ASSUME FlowInv, NEW id \in Ids, NEW kinds \in Seq(Kinds), NEW w \in Words,
           EmitWord(id, kinds, w)
    PROVE  FlowInv'
  <1> DEFINE n == Len(kinds)
  <1>1. PICK ts \in 0..hour : pipe' = pipe \o [i \in 1..n |-> Event(kinds[i], id, w, ts)]
    BY Zenon DEF EmitWord
  <1> DEFINE new == [i \in 1..n |-> Event(kinds[i], id, w, ts)]
  <1>2. n \in Nat /\ \A i \in 1..n : kinds[i] \in Kinds
    BY LenProperties, Zenon
  <1> HIDE DEF n
  <1>3. Addr[id] \in Range(Addr)
    BY StoreAssumption, Zenon
  <1>4. \A i \in 1..n : Event(kinds[i], id, w, ts) \in EventType(hour)
    BY <1>2, <1>3 DEF Event, EventType
  <1>5. new \in [1..n -> EventType(hour)]
    BY <1>4, Zenon
  <1> HIDE DEF new
  <1>6. new \in Seq(EventType(hour))
    BY <1>2, <1>5, FunctionIsSeq, Zenon
  <1>7. pipe' \in Seq(EventType(hour))
    BY <1>1, <1>6, ConcatProperties, Zenon DEF FlowInv, new, n
  <1> QED BY <1>7 DEF FlowInv, EmitWord, vars

\* Every event between a session and the store, and every one ingested, is of
\* the kinds the gateway sends and of an hour that has come.
LEMMA FlowStep ==
    ASSUME FlowInv
    PROVE  [Next]_<<vars, gateway>> => FlowInv'
  <1>w. (CHOOSE w \in Words : TRUE) \in Words
    BY StoreAssumption, Zenon
  <1>1. \A id \in Ids : Authenticate(id) => FlowInv'
    <2>1. <<"CredentialHarvest">> \in Seq(Kinds)
      BY DEF Kinds
    <2> QED BY <1>w, <2>1, EmitFlows, Zenon DEF Authenticate, Emit
  <1>2. \A id \in Ids : shell_request(id) => FlowInv'
    <2>1. <<"SessionStart">> \in Seq(Kinds)
      BY DEF Kinds
    <2> QED BY <1>w, <2>1, EmitFlows, Zenon DEF shell_request, Emit
  <1>3. \A id \in Ids : Command(id) => FlowInv'
    <2>1. <<"CommandRun">> \in Seq(Kinds)
      BY DEF Kinds
    <2> QED BY <2>1, EmitFlows, Zenon DEF Command
  <1>p. \A n \in Nat : [i \in 1..n |-> "PayloadCaptured"] \in Seq(Kinds)
    <2> SUFFICES ASSUME NEW n \in Nat PROVE [i \in 1..n |-> "PayloadCaptured"] \in Seq(Kinds)
      OBVIOUS
    <2>1. [i \in 1..n |-> "PayloadCaptured"] \in [1..n -> Kinds]
      BY DEF Kinds
    <2> QED BY <2>1, FunctionIsSeq, Zenon
  <1>n. \A n \in 0..MaxPayloads : n \in Nat
    BY ArchiveAssumption
  <1>4. \A id \in Ids : Teardown(id) => FlowInv'
    <2>1. <<"SessionEnd">> \in Seq(Kinds)
      BY DEF Kinds
    <2>2. \A n \in 0..MaxPayloads :
            <<"SessionEnd">> \o [i \in 1..n |-> "PayloadCaptured"] \in Seq(Kinds)
      BY <1>p, <1>n, <2>1, ConcatProperties, Zenon
    <2> QED BY <1>w, <2>2, EmitFlows, Zenon DEF Teardown, Emit
  <1>5. \A id \in Ids : Drop(id) => FlowInv'
    <2> SUFFICES ASSUME NEW id \in Ids, Drop(id) PROVE FlowInv'
      OBVIOUS
    <2>1. PICK n \in IF is_ended[id] THEN {0} ELSE 0..MaxPayloads :
            Emit(id, [i \in 1..n |-> "PayloadCaptured"])
      BY Zenon DEF Drop
    <2>2. n \in Nat
      BY <1>n
    <2> QED BY <1>w, <1>p, <2>1, <2>2, EmitFlows, Zenon DEF Emit
  <1>6. Ingest => FlowInv'
    <2> SUFFICES ASSUME Ingest PROVE FlowInv'
      OBVIOUS
    <2>1. /\ pipe # <<>> /\ pipe' = Tail(pipe) /\ ingested' = Append(ingested, Head(pipe))
          /\ hour' = hour
      BY Zenon DEF Ingest, ingest
    <2>2. Head(pipe) \in EventType(hour) /\ Tail(pipe) \in Seq(EventType(hour))
      BY <2>1, HeadTailProperties, Zenon DEF FlowInv
    <2>3. ingested' \in Seq(EventType(hour))
      BY <2>1, <2>2, AppendProperties, Zenon DEF FlowInv
    <2> QED BY <2>1, <2>2, <2>3, Zenon DEF FlowInv
  <1>7. HourPasses /\ UNCHANGED gateway => FlowInv'
    <2> SUFFICES ASSUME HourPasses, UNCHANGED gateway PROVE FlowInv'
      OBVIOUS
    <2>1. hour' = hour + 1 /\ hour' \in Nat /\ ingested' = ingested /\ pipe' = pipe
      BY DEF HourPasses, gateway, FlowInv
    <2>2. EventType(hour) \subseteq EventType(hour')
      BY <2>1 DEF EventType, FlowInv
    <2> QED BY <2>1, <2>2, SeqMono, Zenon DEF FlowInv
  <1>8. UNCHANGED <<vars, gateway>> => FlowInv'
    BY Zenon DEF FlowInv, vars, gateway
  <1> QED BY <1>1, <1>2, <1>3, <1>4, <1>5, <1>6, <1>7, <1>8, Zenon DEF Next

\* Whatever reaches store.ingest is an event of the gateway.
LEMMA FlowKept == Spec => []FlowInv
  <1>1. Init => FlowInv
    BY DEF Init, StoreInit, FlowInv
  <1>2. FlowInv /\ [Next]_<<vars, gateway>> => FlowInv'
    BY FlowStep
  <1> QED BY <1>1, <1>2, PTL DEF Spec

-----------------------------------------------------------------------------
(* The counters *)

\* What the store has ingested of each address, word and hour.
IpAt(a) == {i \in 1..Len(ingested) : ingested[i].ip = a}
WordAt(k, w) == {i \in 1..Len(ingested) :
                   ingested[i].kind = k /\ ingested[i].word = w /\ Counts(ingested[i])}
HourAt(h) == {i \in 1..Len(ingested) : ingested[i].ts = h}

IpCounts == [a \in Range(Addr) |-> Cardinality(IpAt(a))]
WordCounts(k) == [w \in Words |-> Cardinality(WordAt(k, w))]

Worded == {"CommandRun", "CredentialHarvest", "SessionStart"}

\* The counters are exact for what they track, pass over a key only when they
\* are full, and the map of the places, which has no cap, passes over none.
CountInv ==
    /\ DOMAIN word_counts = Worded
    /\ \A k \in Worded : Capped(word_counts[k], CounterCap, WordCounts(k))
    /\ Capped(ip_counts, CounterCap, IpCounts)
    /\ unique_ips = DOMAIN ip_counts
    /\ Complete(geo_points, WordCounts("SessionStart"))

\* Ingesting an event puts it after those ingested before.
LEMMA IngestFacts ==
    ASSUME FlowInv, Ingest
    PROVE  \E e \in EventType(hour) :
             /\ ingest(e) /\ Len(ingested) \in Nat /\ Len(ingested') = Len(ingested) + 1
             /\ \A i \in 1..Len(ingested) : ingested'[i] = ingested[i]
             /\ ingested'[Len(ingested) + 1] = e
  <1>1. pipe # <<>> /\ ingest(Head(pipe)) /\ ingested' = Append(ingested, Head(pipe))
    BY Zenon DEF Ingest, ingest
  <1>2. Head(pipe) \in EventType(hour)
    BY <1>1, HeadTailProperties, Zenon DEF FlowInv
  <1>3. ingested \in Seq(EventType(hour)) /\ Len(ingested) \in Nat
    BY LenProperties, Zenon DEF FlowInv
  <1>4. /\ Len(ingested') = Len(ingested) + 1
        /\ \A i \in 1..Len(ingested) : ingested'[i] = ingested[i]
        /\ ingested'[Len(ingested) + 1] = Head(pipe)
    BY <1>1, <1>2, <1>3, AppendProperties
  <1> QED BY <1>1, <1>2, <1>3, <1>4, Zenon

\* One more place in the history counts once.
LEMMA OneMore ==
    ASSUME NEW n \in Nat, NEW S \in SUBSET (1..n)
    PROVE  /\ IsFiniteSet(S) /\ Cardinality(S) \in Nat
           /\ Cardinality(S \cup {n + 1}) = Cardinality(S) + 1
  <1>1. IsFiniteSet(1..n)
    BY FS_Interval
  <1>2. IsFiniteSet(S)
    BY <1>1, FS_Subset, Zenon
  <1>3. n + 1 \notin S
    OBVIOUS
  <1> QED BY <1>2, <1>3, FS_CardinalityType, FS_AddElement

\* A new event is one occurrence more of its address, of its hour and, if it
\* is counted, of its word, and changes no other number.
LEMMA CountsGrow ==
    ASSUME FlowInv, DOMAIN word_counts' = DOMAIN word_counts, NEW e \in EventType(hour),
           Len(ingested) \in Nat, Len(ingested') = Len(ingested) + 1,
           \A i \in 1..Len(ingested) : ingested'[i] = ingested[i],
           ingested'[Len(ingested) + 1] = e
    PROVE  /\ IpCounts \in [Range(Addr) -> Nat] /\ IpCounts' = Again(IpCounts, e.ip)
           /\ \A k : /\ WordCounts(k) \in [Words -> Nat]
                     /\ WordCounts(k)' = IF e.kind = k /\ Counts(e)
                                           THEN Again(WordCounts(k), e.word)
                                           ELSE WordCounts(k)
           /\ \A h : /\ Cardinality(HourAt(h)) \in Nat
                     /\ Cardinality(HourAt(h))' = IF e.ts = h THEN Cardinality(HourAt(h)) + 1
                                                  ELSE Cardinality(HourAt(h))
  <1> DEFINE n == Len(ingested)
  <1>1. \A i \in 1..(n + 1) : i \in 1..n \/ i = n + 1
    OBVIOUS
  <1>2. n + 1 \in 1..(n + 1) /\ \A i \in 1..n : i \in 1..(n + 1)
    OBVIOUS
  <1>3. \A a : /\ IpAt(a) \in SUBSET (1..n)
               /\ IpAt(a)' = IF e.ip = a THEN IpAt(a) \cup {n + 1} ELSE IpAt(a)
    BY <1>1, <1>2 DEF IpAt
  <1>4. \A h : /\ HourAt(h) \in SUBSET (1..n)
               /\ HourAt(h)' = IF e.ts = h THEN HourAt(h) \cup {n + 1} ELSE HourAt(h)
    BY <1>1, <1>2 DEF HourAt
  <1>5. \A k, w : /\ WordAt(k, w) \in SUBSET (1..n)
                  /\ WordAt(k, w)' = IF e.kind = k /\ e.word = w /\ Counts(e)
                                       THEN WordAt(k, w) \cup {n + 1} ELSE WordAt(k, w)
    BY <1>1, <1>2 DEF WordAt, Counts
  <1>6. e.ip \in Range(Addr) /\ e.word \in Words
    BY DEF EventType
  <1>7. IpCounts \in [Range(Addr) -> Nat] /\ IpCounts' = Again(IpCounts, e.ip)
    <2>1. \A a : /\ Cardinality(IpAt(a)) \in Nat
                 /\ Cardinality(IpAt(a)') = IF e.ip = a THEN Cardinality(IpAt(a)) + 1
                                            ELSE Cardinality(IpAt(a))
      BY <1>3, OneMore, Zenon
    <2> QED BY <1>6, <2>1 DEF IpCounts, Again
  <1>8. \A h : /\ Cardinality(HourAt(h)) \in Nat
               /\ Cardinality(HourAt(h)') = IF e.ts = h THEN Cardinality(HourAt(h)) + 1
                                            ELSE Cardinality(HourAt(h))
    BY <1>4, OneMore, Zenon
  <1>9. ASSUME NEW k
        PROVE  /\ WordCounts(k) \in [Words -> Nat]
               /\ WordCounts(k)' = IF e.kind = k /\ Counts(e)
                                     THEN Again(WordCounts(k), e.word)
                                     ELSE WordCounts(k)
    <2>1. \A w : /\ Cardinality(WordAt(k, w)) \in Nat
                 /\ Cardinality(WordAt(k, w)') =
                      IF e.kind = k /\ e.word = w /\ Counts(e)
                        THEN Cardinality(WordAt(k, w)) + 1 ELSE Cardinality(WordAt(k, w))
      BY <1>5, OneMore, Zenon
    <2>2. CASE e.kind = k /\ Counts(e)
      BY <1>6, <2>1, <2>2 DEF WordCounts, Again
    <2>3. CASE ~(e.kind = k /\ Counts(e))
      BY <2>1, <2>3 DEF WordCounts
    <2> QED BY <2>1, <2>2, <2>3 DEF WordCounts
  <1> QED BY <1>7, <1>8, <1>9, Zenon

\* A step other than an ingestion leaves the counters and the history alone.
LEMMA OnlyIngestCounts ==
    ASSUME [Next]_<<vars, gateway>>, ~Ingest
    PROVE  UNCHANGED <<totals, unique_ips, ip_counts, word_counts, geo_points, hourly_activity,
                       sessions, session_order, ingested>>
  <1>1. ASSUME NEW id \in Ids, Authenticate(id) \/ shell_request(id) \/ Command(id)
                               \/ Teardown(id) \/ Drop(id)
        PROVE  UNCHANGED vars
    BY <1>1, Zenon DEF Authenticate, shell_request, Command, Teardown, Drop, Emit, EmitWord
  <1> QED BY <1>1, Zenon DEF Next, HourPasses, vars

\* store.ingest keeps the counters exact, capped or not.
LEMMA CountStep ==
    ASSUME FlowInv, CountInv, [Next]_<<vars, gateway>>
    PROVE  CountInv'
  <1>1. CASE ~Ingest
    <2>1. UNCHANGED <<unique_ips, ip_counts, word_counts, geo_points, ingested>>
      BY <1>1, OnlyIngestCounts, Zenon
    <2>2. IpCounts' = IpCounts /\ \A k : WordCounts(k)' = WordCounts(k)
      BY <2>1 DEF IpCounts, IpAt, WordCounts, WordAt, Counts
    <2> QED BY <2>1, <2>2, Zenon DEF CountInv
  <1>2. CASE Ingest
    <2>1. PICK e \in EventType(hour) :
             /\ ingest(e) /\ Len(ingested) \in Nat /\ Len(ingested') = Len(ingested) + 1
             /\ \A i \in 1..Len(ingested) : ingested'[i] = ingested[i]
             /\ ingested'[Len(ingested) + 1] = e
      BY <1>2, IngestFacts, Zenon
    <2>2. /\ word_counts' = IF Counts(e)
                              THEN [word_counts EXCEPT ![e.kind] = bump_capped(@, e.word, CounterCap)]
                              ELSE word_counts
          /\ ip_counts' = bump_capped(ip_counts, e.ip, CounterCap)
          /\ unique_ips' = insert_capped(unique_ips, e.ip, CounterCap)
          /\ geo_points' = IF e.kind = "SessionStart" /\ Counts(e) THEN Bumped(geo_points, e.word)
                           ELSE geo_points
      BY <2>1, Zenon DEF ingest
    <2>3. DOMAIN word_counts = Worded /\ DOMAIN word_counts' = Worded
      BY <2>2, Zenon DEF CountInv
    <2>4. /\ IpCounts \in [Range(Addr) -> Nat] /\ IpCounts' = Again(IpCounts, e.ip)
          /\ \A k : /\ WordCounts(k) \in [Words -> Nat]
                    /\ WordCounts(k)' = IF e.kind = k /\ Counts(e)
                                          THEN Again(WordCounts(k), e.word)
                                          ELSE WordCounts(k)
      BY <2>1, <2>3, CountsGrow, Zenon
    <2>5. e.ip \in Range(Addr) /\ e.word \in Words /\ CounterCap \in Nat
      BY StoreAssumption DEF EventType
    <2>6. Capped(ip_counts', CounterCap, IpCounts')
      BY <2>2, <2>4, <2>5, BumpKeepsCapped, Zenon DEF CountInv
    <2>7. ASSUME NEW k \in Worded
          PROVE  Capped(word_counts'[k], CounterCap, WordCounts(k)')
      <3>1. Capped(word_counts[k], CounterCap, WordCounts(k))
        BY Zenon DEF CountInv
      <3>2. CASE e.kind = k /\ Counts(e)
        <4>1. word_counts'[k] = bump_capped(word_counts[k], e.word, CounterCap)
          BY <2>2, <2>3, <3>2, Zenon
        <4>2. WordCounts(k) \in [Words -> Nat] /\ WordCounts(k)' = Again(WordCounts(k), e.word)
          BY <2>4, <3>2, Zenon
        <4>3. Capped(bump_capped(word_counts[k], e.word, CounterCap), CounterCap,
                     Again(WordCounts(k), e.word))
          BY <2>5, <3>1, <4>2, BumpKeepsCapped, Zenon
        <4> QED BY <4>1, <4>2, <4>3, Zenon
      <3>3. CASE ~(e.kind = k /\ Counts(e))
        <4>1. word_counts'[k] = word_counts[k]
          BY <2>2, <2>3, <3>3, Zenon
        <4> QED BY <2>4, <3>1, <3>3, <4>1, Zenon
      <3> QED BY <3>2, <3>3
    <2>8. unique_ips' = DOMAIN ip_counts'
      <3>1. DOMAIN ip_counts' = IF e.ip \in DOMAIN ip_counts \/ Cardinality(DOMAIN ip_counts) < CounterCap
                                  THEN DOMAIN ip_counts \cup {e.ip} ELSE DOMAIN ip_counts
        BY <2>2, BumpFacts, Zenon
      <3>2. unique_ips = DOMAIN ip_counts
        BY Zenon DEF CountInv
      <3> QED BY <2>2, <3>1, <3>2, Zenon DEF insert_capped
    <2>9. Complete(geo_points', WordCounts("SessionStart")')
      <3>1. Complete(geo_points, WordCounts("SessionStart"))
        BY Zenon DEF CountInv
      <3>2. CASE e.kind = "SessionStart" /\ Counts(e)
        BY <2>2, <2>4, <2>5, <3>1, <3>2, BumpKeepsComplete, Zenon
      <3>3. CASE ~(e.kind = "SessionStart" /\ Counts(e))
        BY <2>2, <2>4, <3>1, <3>3, Zenon
      <3> QED BY <3>2, <3>3
    <2> QED BY <2>3, <2>6, <2>7, <2>8, <2>9, Zenon DEF CountInv
  <1> QED BY <1>1, <1>2

\* The counters stay exact in every reachable state.
LEMMA CountInvKept == Spec => []CountInv
  <1>1. Init => CountInv
    <2> SUFFICES ASSUME Init PROVE CountInv
      OBVIOUS
    <2>1. /\ ingested = <<>> /\ word_counts = NoCounts /\ ip_counts = <<>>
          /\ unique_ips = {} /\ geo_points = <<>>
      BY DEF Init, StoreInit
    <2>2. IpCounts = [a \in Range(Addr) |-> 0] /\ \A k : WordCounts(k) = [w \in Words |-> 0]
      <3>1. \A a : IpAt(a) = {}
        BY <2>1 DEF IpAt
      <3>2. \A k, w : WordAt(k, w) = {}
        BY <2>1 DEF WordAt
      <3> QED BY <3>1, <3>2, FS_EmptySet, Zenon DEF IpCounts, WordCounts
    <2>3. Capped(ip_counts, CounterCap, IpCounts)
      BY <2>1, <2>2, EmptyCounter, Zenon
    <2>4. Complete(geo_points, WordCounts("SessionStart"))
      BY <2>1, <2>2, EmptyCounter, Zenon
    <2>5. DOMAIN word_counts = Worded /\ \A k \in Worded : word_counts[k] = <<>>
      BY <2>1 DEF NoCounts, Worded
    <2>6. \A k \in Worded : Capped(word_counts[k], CounterCap, WordCounts(k))
      BY <2>2, <2>5, EmptyCounter, Zenon
    <2>7. unique_ips = DOMAIN ip_counts
      BY <2>1
    <2> QED BY <2>3, <2>4, <2>5, <2>6, <2>7 DEF CountInv
  <1>2. FlowInv /\ CountInv /\ [Next]_<<vars, gateway>> => CountInv'
    BY CountStep
  <1> QED BY <1>1, <1>2, FlowKept, PTL DEF Spec

\* TrackedCountsExact: for any number of sessions, addresses and words, and any
\* COUNTER_CAP, bump_capped turns away no key it has counted before.
THEOREM CountersKept == Spec => []TrackedCountsExact
  <1>1. CountInv => TrackedCountsExact
    <2> SUFFICES ASSUME CountInv PROVE TrackedCountsExact
      OBVIOUS
    <2>1. \A k \in DOMAIN word_counts : \A w \in DOMAIN word_counts[k] :
            w \in Words /\ word_counts[k][w] = Cardinality(WordAt(k, w)) /\ word_counts[k][w] > 0
      BY Zenon DEF CountInv, Capped, Exact, WordCounts
    <2>2. \A a \in DOMAIN ip_counts : ip_counts[a] = Cardinality(IpAt(a))
      BY Zenon DEF CountInv, Capped, Exact, IpCounts
    <2>3. \A w \in DOMAIN word_counts["SessionStart"] :
            geo_points[w] = word_counts["SessionStart"][w]
      <3> SUFFICES ASSUME NEW w \in DOMAIN word_counts["SessionStart"]
                   PROVE  geo_points[w] = word_counts["SessionStart"][w]
        OBVIOUS
      <3> DEFINE c == WordCounts("SessionStart")
      <3>1. "SessionStart" \in DOMAIN word_counts
        BY DEF CountInv, Worded
      <3>2. /\ w \in Words /\ w \in DOMAIN c
            /\ word_counts["SessionStart"][w] = c[w] /\ c[w] > 0
        BY <2>1, <3>1 DEF WordCounts
      <3>3. Complete(geo_points, c)
        BY Zenon DEF CountInv
      <3> HIDE DEF c
      <3>4. w \in DOMAIN geo_points
        BY <3>2, <3>3 DEF Complete
      <3> QED BY <3>2, <3>3, <3>4 DEF Complete, Exact
    <2>4. unique_ips = DOMAIN ip_counts
      BY DEF CountInv
    <2> QED BY <2>1, <2>2, <2>3, <2>4, Zenon DEF TrackedCountsExact, Occurrences, WordAt, IpAt
  <1> QED BY <1>1, CountInvKept, PTL

-----------------------------------------------------------------------------
(* The activity by hour *)

\* The hours held are those of the window as it was at the last ingestion, and
\* each hour that is still in the window has its count, or had no event.
HourInv ==
    /\ \E p \in 0..hour : DOMAIN hourly_activity \subseteq {h \in 0..p : h >= p - HourlyWindow}
    /\ \A h \in 0..hour : h >= hour - HourlyWindow =>
         /\ h \in DOMAIN hourly_activity => hourly_activity[h] = Cardinality(HourAt(h))
         /\ h \notin DOMAIN hourly_activity => Cardinality(HourAt(h)) = 0

\* bump_hour counts the event before it drops the hours that left the window,
\* and time moves the window past hours that are held.
LEMMA HourStep ==
    ASSUME FlowInv, CountInv, HourInv, [Next]_<<vars, gateway>>
    PROVE  HourInv'
  <1>a. hour \in Nat /\ HourlyWindow \in Nat
    BY StoreAssumption DEF FlowInv
  <1>1. CASE Ingest
    <2>1. PICK e \in EventType(hour) :
             /\ ingest(e) /\ Len(ingested) \in Nat /\ Len(ingested') = Len(ingested) + 1
             /\ \A i \in 1..Len(ingested) : ingested'[i] = ingested[i]
             /\ ingested'[Len(ingested) + 1] = e
      BY <1>1, IngestFacts, Zenon
    <2> DEFINE map == hourly_activity
               counted == Bumped(map, e.ts)
    <2>2. /\ hourly_activity' = Restrict(counted, {h \in DOMAIN counted : h >= hour - HourlyWindow})
          /\ hour' = hour
          /\ word_counts' = IF Counts(e)
                              THEN [word_counts EXCEPT ![e.kind] = bump_capped(@, e.word, CounterCap)]
                              ELSE word_counts
      BY <2>1, Zenon DEF ingest, bump_hour
    <2>3. DOMAIN word_counts' = DOMAIN word_counts
      BY <2>2, Zenon
    <2>4. \A h : /\ Cardinality(HourAt(h)) \in Nat
                 /\ Cardinality(HourAt(h))' = IF e.ts = h THEN Cardinality(HourAt(h)) + 1
                                              ELSE Cardinality(HourAt(h))
      BY <2>1, <2>3, CountsGrow, Zenon
    <2>5. e.ts \in 0..hour
      BY DEF EventType
    <2>6. DOMAIN map \subseteq 0..hour
      BY <1>a DEF HourInv
    <2>7. Cardinality(DOMAIN map) < Cardinality(DOMAIN map) + 1
      <3>1. IsFiniteSet(0..hour)
        BY <1>a, FS_Interval
      <3>2. Cardinality(DOMAIN map) \in Nat
        BY <2>6, <3>1, FS_Subset, FS_CardinalityType, Zenon
      <3> QED BY <3>2
    <2>8. /\ DOMAIN counted = DOMAIN map \cup {e.ts}
          /\ \A h \in DOMAIN map : h # e.ts => counted[h] = map[h]
          /\ e.ts \in DOMAIN map => counted[e.ts] = map[e.ts] + 1
          /\ e.ts \notin DOMAIN map => counted[e.ts] = 1
      <3> DEFINE cap == Cardinality(DOMAIN map) + 1
      <3>1. counted = bump_capped(map, e.ts, cap)
        BY Zenon DEF Bumped
      <3> HIDE DEF map, counted, cap
      <3>2. Cardinality(DOMAIN map) < cap
        BY <2>7 DEF cap
      <3>3. LET new == bump_capped(map, e.ts, cap) IN
            /\ DOMAIN new = IF e.ts \in DOMAIN map \/ Cardinality(DOMAIN map) < cap
                              THEN DOMAIN map \cup {e.ts} ELSE DOMAIN map
            /\ \A k \in DOMAIN map : k # e.ts => new[k] = map[k]
            /\ e.ts \in DOMAIN map => new[e.ts] = map[e.ts] + 1
            /\ e.ts \notin DOMAIN map /\ Cardinality(DOMAIN map) < cap => new[e.ts] = 1
        BY BumpFacts, Zenon
      <3> QED BY <3>1, <3>2, <3>3, Zenon
    <2> HIDE DEF map, counted
    <2>9. /\ DOMAIN hourly_activity' = {h \in DOMAIN counted : h >= hour - HourlyWindow}
          /\ \A h \in DOMAIN hourly_activity' : hourly_activity'[h] = counted[h]
      BY <2>2, Zenon DEF Restrict
    <2>10. hour \in 0..hour' /\ DOMAIN hourly_activity' \subseteq {h \in 0..hour : h >= hour - HourlyWindow}
      BY <1>a, <2>2, <2>5, <2>6, <2>8, <2>9
    <2>11. ASSUME NEW h \in 0..hour, h >= hour - HourlyWindow
           PROVE  /\ h \in DOMAIN hourly_activity' => hourly_activity'[h] = Cardinality(HourAt(h))'
                  /\ h \notin DOMAIN hourly_activity' => Cardinality(HourAt(h))' = 0
      <3>1. /\ h \in DOMAIN map => map[h] = Cardinality(HourAt(h))
            /\ h \notin DOMAIN map => Cardinality(HourAt(h)) = 0
        BY <2>11, Zenon DEF HourInv, map
      <3>2. h \in DOMAIN hourly_activity' <=> h \in DOMAIN counted
        BY <2>9, <2>11, Zenon
      <3>3. CASE h = e.ts
        <4>1. counted[h] = Cardinality(HourAt(h)) + 1 /\ h \in DOMAIN counted
          BY <2>4, <2>8, <3>1, <3>3
        <4> QED BY <2>4, <2>9, <3>2, <3>3, <4>1, Zenon
      <3>4. CASE h # e.ts
        <4>1. h \in DOMAIN counted <=> h \in DOMAIN map
          BY <2>8, <3>4, Zenon
        <4> QED BY <2>4, <2>8, <2>9, <3>1, <3>2, <3>4, <4>1, Zenon
      <3> QED BY <3>3, <3>4
    <2> QED BY <2>2, <2>10, <2>11, Zenon DEF HourInv
  <1>2. CASE ~Ingest
    <2>1. hourly_activity' = hourly_activity /\ ingested' = ingested
      BY <1>2, OnlyIngestCounts, Zenon
    <2>2. \A h : HourAt(h)' = HourAt(h)
      BY <2>1 DEF HourAt
    <2>3. hour' = hour \/ hour' = hour + 1
      <3>1. ASSUME NEW id \in Ids, Authenticate(id) \/ shell_request(id) \/ Command(id)
                                   \/ Teardown(id) \/ Drop(id)
            PROVE  UNCHANGED vars
        BY <3>1, Zenon DEF Authenticate, shell_request, Command, Teardown, Drop, Emit, EmitWord
      <3> QED BY <1>2, <3>1, Zenon DEF Next, HourPasses, vars
    <2>4. CASE hour' = hour
      BY <2>1, <2>2, <2>4, Zenon DEF HourInv
    <2>5. CASE hour' = hour + 1
      <3>1. HourAt(hour + 1) = {}
        <4>1. \A i \in 1..Len(ingested) : ingested[i] \in EventType(hour)
          BY LenProperties, Zenon DEF FlowInv
        <4>2. \A i \in 1..Len(ingested) : ingested[i].ts \in 0..hour
          BY <4>1 DEF EventType
        <4> QED BY <1>a, <4>2 DEF HourAt
      <3>2. Cardinality(HourAt(hour + 1)) = 0
        BY <3>1, FS_EmptySet, Zenon
      <3>3. PICK p \in 0..hour : DOMAIN hourly_activity \subseteq {h \in 0..p : h >= p - HourlyWindow}
        BY Zenon DEF HourInv
      <3>4. p \in 0..hour' /\ hour + 1 \notin DOMAIN hourly_activity
        BY <1>a, <2>5, <3>3
      <3>5. \A h \in 0..hour' : h = hour + 1 \/ h \in 0..hour
        BY <1>a, <2>5
      <3>6. \A h \in 0..hour : h >= hour' - HourlyWindow => h >= hour - HourlyWindow
        BY <1>a, <2>5
      <3> QED BY <2>1, <2>2, <3>2, <3>3, <3>4, <3>5, <3>6, Zenon DEF HourInv
    <2> QED BY <2>3, <2>4, <2>5
  <1> QED BY <1>1, <1>2

\* HourlyExact: however late events are ingested, and whatever the window,
\* bump_hour loses no event of an hour that is still shown.
THEOREM HoursKept == Spec => []HourlyExact
  <1>1. Init => HourInv
    <2> SUFFICES ASSUME Init PROVE HourInv
      OBVIOUS
    <2>1. ingested = <<>> /\ hourly_activity = <<>> /\ hour = 0
      BY DEF Init, StoreInit
    <2>2. \A h : HourAt(h) = {}
      BY <2>1 DEF HourAt
    <2>3. \A h : Cardinality(HourAt(h)) = 0
      BY <2>2, FS_EmptySet, Zenon
    <2> QED BY <2>1, <2>3 DEF HourInv
  <1>2. FlowInv /\ CountInv /\ HourInv /\ [Next]_<<vars, gateway>> => HourInv'
    BY HourStep
  <1>3. FlowInv /\ HourInv => HourlyExact
    <2> SUFFICES ASSUME FlowInv, HourInv PROVE HourlyExact
      OBVIOUS
    <2>1. PICK p \in 0..hour : DOMAIN hourly_activity \subseteq {h \in 0..p : h >= p - HourlyWindow}
      BY Zenon DEF HourInv
    <2>2. p \in Int /\ p - HourlyWindow \in Int /\ HourlyWindow \in Nat
          /\ ~(p - HourlyWindow > p) /\ p - (p - HourlyWindow) + 1 = HourlyWindow + 1
      BY StoreAssumption DEF FlowInv
    <2>3. IsFiniteSet((p - HourlyWindow)..p) /\ Cardinality((p - HourlyWindow)..p) = HourlyWindow + 1
      BY <2>2, FS_Interval, Zenon
    <2>4. DOMAIN hourly_activity \in SUBSET ((p - HourlyWindow)..p)
      BY <2>1, <2>2
    <2>5. Cardinality(DOMAIN hourly_activity) <= HourlyWindow + 1
      BY <2>3, <2>4, FS_Subset, Zenon
    <2> QED BY <2>5, Zenon DEF HourlyExact, HourInv, Occurrences, HourAt
  <1> QED BY <1>1, <1>2, <1>3, FlowKept, CountInvKept, PTL DEF Spec

-----------------------------------------------------------------------------
(* The records *)

\* The i-th event is the last start of a session.
IsLast(i, id) ==
    /\ ingested[i].kind = "SessionStart" /\ ingested[i].id = id
    /\ \A j \in (i + 1)..Len(ingested) :
         ~(ingested[j].kind = "SessionStart" /\ ingested[j].id = id)

Later(i, id, kind) == {j \in i..Len(ingested) : ingested[j].kind = kind /\ ingested[j].id = id}

\* What the events from the i-th on tell of a session.
Summary(i, id) == [ended |-> Cardinality(Later(i, id, "SessionEnd")) > 0,
                   user |-> Cardinality(Later(i, id, "CredentialHarvest")) > 0,
                   commands |-> Cardinality(Later(i, id, "CommandRun")),
                   payloads |-> Cardinality(Later(i, id, "PayloadCaptured"))]

\* A session that has a record was started, and its record is of what followed.
RecordInv ==
    \A id \in DOMAIN sessions : \E i \in 1..Len(ingested) :
        IsLast(i, id) /\ sessions[id] = Summary(i, id)

\* An event changes the record of its own session only, and removes others at
\* most.
LEMMA ArchivedFacts ==
    ASSUME NEW e, Archived(e), NEW id \in DOMAIN sessions'
    PROVE  /\ id # e.id => id \in DOMAIN sessions /\ sessions'[id] = sessions[id]
           /\ id = e.id /\ e.kind = "SessionStart" => sessions'[id] = NewRecord
           /\ id = e.id /\ e.kind # "SessionStart" =>
                id \in DOMAIN sessions /\ sessions'[id] = Updated(sessions[id], e.kind)
  <1>1. CASE e.kind = "SessionStart"
    <2> DEFINE order == IF e.id \in DOMAIN sessions THEN session_order
                        ELSE Append(session_order, e.id)
    <2>1. sessions' = [i \in DOMAIN Evicted(order) \cup {e.id} |->
                         IF i = e.id THEN NewRecord ELSE Evicted(order)[i]]
      BY <1>1, Zenon DEF Archived, archive_session_start
    <2> HIDE DEF order
    <2>2. \A i \in DOMAIN Evicted(order) : i \in DOMAIN sessions /\ Evicted(order)[i] = sessions[i]
      BY DEF Evicted, Restrict
    <2> QED BY <1>1, <2>1, <2>2, Zenon
  <1>2. CASE e.kind # "SessionStart"
    <2>1. sessions' = IF e.id \in DOMAIN sessions
                        THEN [sessions EXCEPT ![e.id] = Updated(@, e.kind)]
                        ELSE sessions
      BY <1>2, Zenon DEF Archived
    <2> QED BY <1>2, <2>1
  <1> QED BY <1>1, <1>2

\* The update of a record, field by field.
LEMMA UpdatedFacts ==
    ASSUME NEW ended, NEW user, NEW commands, NEW payloads
    PROVE  LET rec == [ended |-> ended, user |-> user, commands |-> commands, payloads |-> payloads]
           IN  /\ Updated(rec, "SessionEnd") =
                    [ended |-> TRUE, user |-> user, commands |-> commands, payloads |-> payloads]
               /\ Updated(rec, "CredentialHarvest") =
                    [ended |-> ended, user |-> TRUE, commands |-> commands, payloads |-> payloads]
               /\ Updated(rec, "CommandRun") =
                    [ended |-> ended, user |-> user, commands |-> commands + 1, payloads |-> payloads]
               /\ Updated(rec, "PayloadCaptured") =
                    [ended |-> ended, user |-> user, commands |-> commands, payloads |-> payloads + 1]
  BY Zenon DEF Updated

\* The record update of store.ingest, seen from the events: one more event of
\* the session is one more in the summary of what followed its start.
LEMMA SummaryGrows ==
    ASSUME FlowInv, NEW e \in EventType(hour),
           Len(ingested) \in Nat, Len(ingested') = Len(ingested) + 1,
           \A j \in 1..Len(ingested) : ingested'[j] = ingested[j],
           ingested'[Len(ingested) + 1] = e,
           NEW i \in 1..Len(ingested), NEW id
    PROVE  /\ id # e.id => Summary(i, id)' = Summary(i, id)
           /\ id = e.id /\ e.kind # "SessionStart" =>
                Summary(i, id)' = Updated(Summary(i, id), e.kind)
  <1> DEFINE n == Len(ingested)
             C(kind) == Cardinality(Later(i, id, kind))
  <1>1. \A j \in i..(n + 1) : (j \in i..n /\ j \in 1..n) \/ j = n + 1
    OBVIOUS
  <1>2. n + 1 \in i..(n + 1) /\ \A j \in i..n : j \in i..(n + 1)
    OBVIOUS
  <1>3. \A kind : /\ Later(i, id, kind) \in SUBSET (1..n)
                  /\ Later(i, id, kind)' = IF e.kind = kind /\ e.id = id
                                             THEN Later(i, id, kind) \cup {n + 1}
                                             ELSE Later(i, id, kind)
    BY <1>1, <1>2 DEF Later
  <1>4. \A kind : /\ C(kind) \in Nat
                  /\ e.kind = kind /\ e.id = id => C(kind)' = C(kind) + 1
                  /\ ~(e.kind = kind /\ e.id = id) => C(kind)' = C(kind)
    BY <1>3, OneMore, ZenonT(30)
  <1>5. /\ Summary(i, id) = [ended |-> C("SessionEnd") > 0, user |-> C("CredentialHarvest") > 0,
                             commands |-> C("CommandRun"), payloads |-> C("PayloadCaptured")]
        /\ Summary(i, id)' = [ended |-> C("SessionEnd")' > 0,
                              user |-> C("CredentialHarvest")' > 0,
                              commands |-> C("CommandRun")', payloads |-> C("PayloadCaptured")']
    BY DEF Summary
  <1>6. \A kind : C(kind)' = C(kind) + 1 => (C(kind)' > 0) = TRUE
    BY <1>4
  <1> HIDE DEF C
  <1>7. CASE id # e.id
    <2>1. /\ C("SessionEnd")' = C("SessionEnd") /\ C("CredentialHarvest")' = C("CredentialHarvest")
          /\ C("CommandRun")' = C("CommandRun") /\ C("PayloadCaptured")' = C("PayloadCaptured")
      BY <1>4, <1>7, Zenon
    <2> QED BY <1>5, <1>7, <2>1, Zenon
  <1>8. CASE id = e.id /\ e.kind # "SessionStart"
    <2>1. e.kind \in {"SessionEnd", "CommandRun", "CredentialHarvest", "PayloadCaptured"}
      BY <1>8 DEF EventType, Kinds
    <2> DEFINE a == C("SessionEnd") > 0
               u == C("CredentialHarvest") > 0
               c == C("CommandRun")
               p == C("PayloadCaptured")
    <2>s. Summary(i, id) = [ended |-> a, user |-> u, commands |-> c, payloads |-> p]
      BY <1>5, Zenon
    <2>u. LET rec == [ended |-> a, user |-> u, commands |-> c, payloads |-> p]
          IN  /\ Updated(rec, "SessionEnd") =
                   [ended |-> TRUE, user |-> u, commands |-> c, payloads |-> p]
              /\ Updated(rec, "CredentialHarvest") =
                   [ended |-> a, user |-> TRUE, commands |-> c, payloads |-> p]
              /\ Updated(rec, "CommandRun") =
                   [ended |-> a, user |-> u, commands |-> c + 1, payloads |-> p]
              /\ Updated(rec, "PayloadCaptured") =
                   [ended |-> a, user |-> u, commands |-> c, payloads |-> p + 1]
      <3> HIDE DEF a, u, c, p
      <3> QED BY UpdatedFacts
    <2>2. CASE e.kind = "SessionEnd"
      <3>1. /\ (C("SessionEnd")' > 0) = TRUE /\ C("CredentialHarvest")' = C("CredentialHarvest")
            /\ C("CommandRun")' = C("CommandRun") /\ C("PayloadCaptured")' = C("PayloadCaptured")
        BY <1>4, <1>6, <1>8, <2>2, Zenon
      <3> QED BY <1>5, <1>8, <2>s, <2>u, <2>2, <3>1, Zenon
    <2>3. CASE e.kind = "CommandRun"
      <3>1. /\ C("SessionEnd")' = C("SessionEnd") /\ C("CredentialHarvest")' = C("CredentialHarvest")
            /\ C("CommandRun")' = C("CommandRun") + 1 /\ C("PayloadCaptured")' = C("PayloadCaptured")
        BY <1>4, <1>8, <2>3, Zenon
      <3> QED BY <1>5, <1>8, <2>s, <2>u, <2>3, <3>1, Zenon
    <2>4. CASE e.kind = "CredentialHarvest"
      <3>1. /\ C("SessionEnd")' = C("SessionEnd") /\ (C("CredentialHarvest")' > 0) = TRUE
            /\ C("CommandRun")' = C("CommandRun") /\ C("PayloadCaptured")' = C("PayloadCaptured")
        BY <1>4, <1>6, <1>8, <2>4, Zenon
      <3> QED BY <1>5, <1>8, <2>s, <2>u, <2>4, <3>1, Zenon
    <2>5. CASE e.kind = "PayloadCaptured"
      <3>1. /\ C("SessionEnd")' = C("SessionEnd") /\ C("CredentialHarvest")' = C("CredentialHarvest")
            /\ C("CommandRun")' = C("CommandRun") /\ C("PayloadCaptured")' = C("PayloadCaptured") + 1
        BY <1>4, <1>8, <2>5, Zenon
      <3> QED BY <1>5, <1>8, <2>s, <2>u, <2>5, <3>1, Zenon
    <2> QED BY <1>8, <2>1, <2>2, <2>3, <2>4, <2>5, Zenon
  <1> QED BY <1>7, <1>8, Zenon

\* A start makes a new record; any other event is added to the record of its
\* session alone; an eviction takes records as they are.
LEMMA RecordStep ==
    ASSUME FlowInv, RecordInv, [Next]_<<vars, gateway>>
    PROVE  RecordInv'
  <1>1. CASE Ingest
    <2>1. PICK e \in EventType(hour) :
             /\ ingest(e) /\ Len(ingested) \in Nat /\ Len(ingested') = Len(ingested) + 1
             /\ \A i \in 1..Len(ingested) : ingested'[i] = ingested[i]
             /\ ingested'[Len(ingested) + 1] = e
      BY <1>1, IngestFacts, Zenon
    <2> DEFINE n == Len(ingested)
    <2>2. Archived(e)
      BY <2>1, Zenon DEF ingest
    <2> SUFFICES ASSUME NEW id \in DOMAIN sessions'
                 PROVE  \E i \in 1..Len(ingested') :
                          IsLast(i, id)' /\ sessions'[id] = Summary(i, id)'
      BY Zenon DEF RecordInv
    <2>3. CASE id = e.id /\ e.kind = "SessionStart"
      <3>1. sessions'[id] = NewRecord
        BY <2>2, <2>3, ArchivedFacts, Zenon
      <3>2. PICK m \in 1..Len(ingested') : m = n + 1
        BY <2>1
      <3>3. IsLast(m, id)'
        BY <2>1, <2>3, <3>2 DEF IsLast
      <3>4. \A kind : kind # "SessionStart" => Later(m, id, kind)' = {}
        BY <2>1, <2>3, <3>2 DEF Later
      <3>5. \A kind : kind # "SessionStart" => Cardinality(Later(m, id, kind))' = 0
        BY <3>4, FS_EmptySet, Zenon
      <3>6. /\ Cardinality(Later(m, id, "SessionEnd"))' = 0
            /\ Cardinality(Later(m, id, "CredentialHarvest"))' = 0
            /\ Cardinality(Later(m, id, "CommandRun"))' = 0
            /\ Cardinality(Later(m, id, "PayloadCaptured"))' = 0
        BY <3>5
      <3>7. (0 > 0) = FALSE
        OBVIOUS
      <3>8. Summary(m, id)' = NewRecord
        BY <3>6, <3>7, Zenon DEF Summary, NewRecord
      <3> QED BY <3>1, <3>3, <3>8, Zenon
    <2>4. CASE ~(id = e.id /\ e.kind = "SessionStart")
      <3>1. id \in DOMAIN sessions
        BY <2>2, <2>4, ArchivedFacts, Zenon
      <3>2. PICK i \in 1..n : IsLast(i, id) /\ sessions[id] = Summary(i, id)
        BY <3>1, Zenon DEF RecordInv
      <3>3. i \in 1..Len(ingested')
        BY <2>1
      <3>4. IsLast(i, id)'
        <4>1. \A j \in (i + 1)..(n + 1) : (j \in (i + 1)..n /\ j \in 1..n) \/ j = n + 1
          BY <2>1
        <4> QED BY <2>1, <2>4, <3>2, <4>1, Zenon DEF IsLast
      <3>5. sessions'[id] = Summary(i, id)'
        <4>1. /\ id # e.id => sessions'[id] = sessions[id]
              /\ id = e.id => sessions'[id] = Updated(sessions[id], e.kind)
          BY <2>2, <2>4, ArchivedFacts, Zenon
        <4>2. /\ id # e.id => Summary(i, id)' = Summary(i, id)
              /\ id = e.id => Summary(i, id)' = Updated(Summary(i, id), e.kind)
          BY <2>1, <2>4, SummaryGrows, Zenon
        <4> QED BY <3>2, <4>1, <4>2, Zenon
      <3> QED BY <3>3, <3>4, <3>5, Zenon
    <2> QED BY <2>3, <2>4, Zenon
  <1>2. CASE ~Ingest
    <2>1. sessions' = sessions /\ ingested' = ingested
      BY <1>2, OnlyIngestCounts, ZenonT(30)
    <2>2. \A i, id : (IsLast(i, id)' <=> IsLast(i, id)) /\ Summary(i, id)' = Summary(i, id)
      BY <2>1 DEF IsLast, Summary, Later
    <2> QED BY <2>1, <2>2, Zenon DEF RecordInv
  <1> QED BY <1>1, <1>2

\* RecordsExact: whatever was evicted, started again or ended before, the record
\* of an archived session counts its events since its last start.
THEOREM RecordsKept == Spec => []RecordsExact
  <1>1. Init => RecordInv
    BY DEF Init, StoreInit, RecordInv
  <1>2. FlowInv /\ RecordInv /\ [Next]_<<vars, gateway>> => RecordInv'
    BY RecordStep
  <1>3. FlowInv /\ RecordInv => RecordsExact
    <2> SUFFICES ASSUME FlowInv, RecordInv, NEW id \in DOMAIN sessions
                 PROVE  \E i : i = LastStart(id) /\ sessions[id] = Summary(i, id)
      BY Zenon DEF RecordsExact, Since, Summary, Later
    <2>1. PICK i \in 1..Len(ingested) : IsLast(i, id) /\ sessions[id] = Summary(i, id)
      BY Zenon DEF RecordInv
    <2>2. LastStart(id) \in 1..Len(ingested) /\ IsLast(LastStart(id), id)
      <3>1. LastStart(id) = CHOOSE k \in 1..Len(ingested) : IsLast(k, id)
        BY DEF LastStart, IsLast
      <3> QED BY <2>1, <3>1, Zenon
    <2>3. Len(ingested) \in Nat
      BY LenProperties, Zenon DEF FlowInv
    <2>4. \A j \in 1..Len(ingested) : \A k \in 1..Len(ingested) :
             j = k \/ k \in (j + 1)..Len(ingested) \/ j \in (k + 1)..Len(ingested)
      BY <2>3
    <2>5. i = LastStart(id)
      BY <2>1, <2>2, <2>4, Zenon DEF IsLast
    <2> QED BY <2>1, <2>5, Zenon
  <1> QED BY <1>1, <1>2, <1>3, FlowKept, PTL DEF Spec

-----------------------------------------------------------------------------
(* The order of eviction *)

\* Each archived session has a start, and those come in the order of eviction.
OrderInv ==
    /\ DOMAIN sessions \subseteq Ids
    /\ \E entry \in [DOMAIN sessions -> 1..Len(ingested)] :
         /\ \A id \in DOMAIN sessions : entry[id] \in Starts(id)
         /\ \A i, j \in 1..Len(session_order) :
              i < j => entry[session_order[i]] < entry[session_order[j]]

\* How the starts grow by an event.
LEMMA StartsGrow ==
    ASSUME NEW e, Len(ingested) \in Nat, Len(ingested') = Len(ingested) + 1,
           \A i \in 1..Len(ingested) : ingested'[i] = ingested[i],
           ingested'[Len(ingested) + 1] = e
    PROVE  \A o : /\ Starts(o) \subseteq Starts(o)' /\ Starts(o) \subseteq 1..Len(ingested)
                  /\ Starts(o)' \subseteq Nat
                  /\ e.kind = "SessionStart" /\ e.id = o => Len(ingested) + 1 \in Starts(o)'
                  /\ ~(e.kind = "SessionStart" /\ e.id = o) => Starts(o)' = Starts(o)
  <1> DEFINE n == Len(ingested)
  <1>1. \A i \in 1..(n + 1) : i \in 1..n \/ i = n + 1
    OBVIOUS
  <1>2. n + 1 \in 1..(n + 1) /\ \A i \in 1..n : i \in 1..(n + 1)
    OBVIOUS
  <1> QED BY <1>1, <1>2 DEF Starts

\* A new session enters behind all others, with the latest of all starts.
LEMMA OrderStep ==
    ASSUME FlowInv, ArchiveInv, OrderInv, [Next]_<<vars, gateway>>
    PROVE  OrderInv'
  <1>1. CASE Ingest
    <2>1. PICK e \in EventType(hour) :
             /\ ingest(e) /\ Len(ingested) \in Nat /\ Len(ingested') = Len(ingested) + 1
             /\ \A i \in 1..Len(ingested) : ingested'[i] = ingested[i]
             /\ ingested'[Len(ingested) + 1] = e
      BY <1>1, IngestFacts, ZenonT(30)
    <2> DEFINE N == Len(ingested)
               n == Len(session_order)
    <2>2. Archived(e) /\ e.id \in Ids
      BY <2>1 DEF ingest, EventType
    <2>3. \A o : /\ Starts(o) \subseteq Starts(o)'
                 /\ e.kind = "SessionStart" /\ e.id = o => N + 1 \in Starts(o)'
      BY <2>1, StartsGrow, Zenon
    <2>4. PICK entry \in [DOMAIN sessions -> 1..N] :
            /\ \A id \in DOMAIN sessions : entry[id] \in Starts(id)
            /\ \A i, j \in 1..n : i < j => entry[session_order[i]] < entry[session_order[j]]
      BY Zenon DEF OrderInv
    <2>5. \A k \in 1..N : k \in 1..Len(ingested')
      BY <2>1
    <2>6. CASE e.kind = "SessionStart" /\ e.id \notin DOMAIN sessions
      <3>1. archive_session_start(e.id)
        BY <2>2, <2>6, Zenon DEF Archived
      <3>2. PICK d \in {0, 1} :
             /\ d = 1 <=> n = ArchiveCap
             /\ Len(session_order') = n + 1 - d /\ session_order'[n + 1 - d] = e.id
             /\ \A i \in 1..(n - d) : session_order'[i] = session_order[i + d]
             /\ d = 0 => DOMAIN sessions' = DOMAIN sessions \cup {e.id}
             /\ d = 1 => DOMAIN sessions' = (DOMAIN sessions \ {session_order[1]}) \cup {e.id}
        BY <2>6, <3>1, NewSessionFacts, Zenon
      <3>3. \A k \in DOMAIN sessions' : k = e.id \/ k \in DOMAIN sessions
        BY <3>2
      <3>4. PICK m \in Nat : m = n + 1 - d /\ n \in Nat
        <4>1. n \in Nat
          BY LenProperties DEF ArchiveInv
        <4> HIDE DEF n
        <4>2. n + 1 - d \in Nat
          BY <4>1
        <4> QED BY <4>1, <4>2, Zenon
      <3> DEFINE new == [k \in DOMAIN sessions' |-> IF k = e.id THEN N + 1 ELSE entry[k]]
      <3>5. N + 1 \in 1..Len(ingested')
        BY <2>1
      <3>6. new \in [DOMAIN sessions' -> 1..Len(ingested')]
        BY <2>4, <2>5, <3>3, <3>5
      <3>7. \A id \in DOMAIN sessions' : new[id] \in Starts(id)'
        BY <2>3, <2>4, <2>6, <3>3, Zenon
      <3>8. ASSUME NEW i \in 1..m, NEW j \in 1..m, i < j
            PROVE  new[session_order'[i]] < new[session_order'[j]]
        <4>1. i \in 1..(n - d) /\ i + d \in 1..n /\ (j = m \/ (j \in 1..(n - d) /\ j + d \in 1..n))
              /\ i + d < j + d
          BY <3>4, <3>8
        <4>2. \A k \in 1..n : session_order[k] \in DOMAIN sessions
          BY LenProperties DEF ArchiveInv
        <4>3. \A k \in 1..m : session_order'[k] \in DOMAIN sessions'
          <5>1. ArchiveInv'
            BY <2>1, IngestKeeps, Zenon
          <5>2. session_order' \in Seq(DOMAIN sessions') /\ Len(session_order') = m
            BY <3>2, <3>4, <5>1 DEF ArchiveInv
          <5> QED BY <5>2, LenProperties, ZenonT(30)
        <4>4. /\ session_order'[i] = session_order[i + d]
              /\ new[session_order'[i]] = entry[session_order[i + d]]
              /\ entry[session_order[i + d]] \in 1..N
          BY <2>4, <2>6, <3>2, <4>1, <4>2, <4>3, Zenon
        <4>5. CASE j = m
          <5>1. new[session_order'[j]] = N + 1
            BY <3>2, <3>4, <4>3, <4>5, Zenon
          <5> HIDE DEF new
          <5> QED BY <2>1, <4>4, <5>1
        <4>6. CASE j \in 1..(n - d) /\ j + d \in 1..n
          <5>1. new[session_order'[j]] = entry[session_order[j + d]]
            BY <2>6, <3>2, <4>2, <4>3, <4>6, ZenonT(30)
          <5> QED BY <2>4, <4>1, <4>4, <4>6, <5>1, Zenon
        <4> QED BY <4>1, <4>5, <4>6, Zenon
      <3>9. DOMAIN sessions' \subseteq Ids
        BY <2>2, <3>3 DEF OrderInv
      <3>10. Len(session_order') = m
        BY <3>2, <3>4
      <3> HIDE DEF new
      <3> QED BY <3>6, <3>7, <3>8, <3>9, <3>10, Zenon DEF OrderInv
    <2>7. CASE ~(e.kind = "SessionStart" /\ e.id \notin DOMAIN sessions)
      <3>1. session_order' = session_order /\ DOMAIN sessions' = DOMAIN sessions
        BY <2>2, <2>7, OrderKept, Zenon
      <3>2. entry \in [DOMAIN sessions' -> 1..Len(ingested')]
        BY <2>4, <2>5, <3>1
      <3> QED BY <2>3, <2>4, <3>1, <3>2, Zenon DEF OrderInv
    <2> QED BY <2>6, <2>7, Zenon
  <1>2. CASE ~Ingest
    <2>1. sessions' = sessions /\ session_order' = session_order /\ ingested' = ingested
      BY <1>2, OnlyIngestCounts, Zenon
    <2>2. \A id : Starts(id)' = Starts(id)
      BY <2>1 DEF Starts
    <2> QED BY <2>1, <2>2, Zenon DEF OrderInv
  <1> QED BY <1>1, <1>2

\* The session an eviction forgets is the head of the order, so every session
\* left in the full archive started after it.
LEMMA ForgetStep ==
    ASSUME FlowInv, FlowInv', ArchiveInv, OrderInv, OldestForgottenFirst, Ingest
    PROVE  OldestForgottenFirst'
  <1>1. PICK e \in EventType(hour) :
           /\ ingest(e) /\ Len(ingested) \in Nat /\ Len(ingested') = Len(ingested) + 1
           /\ \A i \in 1..Len(ingested) : ingested'[i] = ingested[i]
           /\ ingested'[Len(ingested) + 1] = e
    BY IngestFacts, ZenonT(30)
  <1> DEFINE N == Len(ingested)
             n == Len(session_order)
             Others(id, i) == {o \in Ids \ {id} : \E j \in Starts(o) : j > i}
  <1>2. Archived(e) /\ e.id \in Ids
    BY <1>1 DEF ingest, EventType
  <1>3. \A o : /\ Starts(o) \subseteq Starts(o)' /\ Starts(o) \subseteq 1..N
               /\ e.kind = "SessionStart" /\ e.id = o => N + 1 \in Starts(o)'
               /\ ~(e.kind = "SessionStart" /\ e.id = o) => Starts(o)' = Starts(o)
    BY <1>1, StartsGrow, Zenon
  <1>4. \A id, i : Others(id, i) \in SUBSET Others(id, i)'
    BY <1>3, Zenon
  <1>5. \A id, i : IsFiniteSet(Others(id, i)')
    <2>1. N + 1 \in Nat /\ \A o : \A j \in Starts(o)' : j \in 1..(N + 1) /\ ingested'[j].id = o
      BY <1>1 DEF Starts
    <2>2. \A id, i : \A o \in Others(id, i)' : \E j \in 1..(N + 1) : ingested'[j].id = o
      BY <2>1, Zenon
    <2> HIDE DEF Others
    <2> SUFFICES ASSUME NEW id, NEW i PROVE IsFiniteSet(Others(id, i)')
      OBVIOUS
    <2>3. PICK S : S = Others(id, i)'
      BY Zenon
    <2> DEFINE f == [j \in 1..(N + 1) |-> ingested'[j].id]
    <2>4. \A o \in S : \E j \in 1..(N + 1) : f[j] = o
      BY <2>2, <2>3, Zenon
    <2> HIDE DEF f
    <2>5. IsFiniteSet(S)
      BY <2>1, <2>4, NamedFinite
    <2> QED BY <2>3, <2>5, Zenon
  <1> SUFFICES ASSUME NEW id \in Ids \ DOMAIN sessions', Starts(id)' # {}
               PROVE  \E i \in Starts(id)' : Cardinality(Others(id, i)') >= ArchiveCap
    BY Zenon DEF OldestForgottenFirst
  <1>6. CASE id \notin DOMAIN sessions
    <2>1. ~(e.kind = "SessionStart" /\ e.id = id)
      BY <1>2, Zenon DEF Archived, archive_session_start
    <2>2. Starts(id) # {}
      BY <1>3, <2>1, Zenon
    <2>3. PICK i \in Starts(id) : Cardinality(Others(id, i)) >= ArchiveCap
      BY <1>6, <2>2, Zenon DEF OldestForgottenFirst
    <2> HIDE DEF Others
    <2>4. /\ Cardinality(Others(id, i)) <= Cardinality(Others(id, i)')
          /\ IsFiniteSet(Others(id, i))
      BY <1>4, <1>5, FS_Subset, Zenon
    <2>5. Cardinality(Others(id, i)) \in Nat /\ Cardinality(Others(id, i)') \in Nat
      BY <1>5, <2>4, FS_CardinalityType, Zenon
    <2>6. Cardinality(Others(id, i)') >= ArchiveCap
      BY <2>3, <2>4, <2>5, StoreAssumption
    <2> QED BY <1>3, <2>6, Zenon
  <1>7. CASE id \in DOMAIN sessions
    <2>1. e.kind = "SessionStart" /\ e.id \notin DOMAIN sessions
      BY <1>2, <1>7, OrderKept, Zenon
    <2>2. archive_session_start(e.id)
      BY <1>2, <2>1, Zenon DEF Archived
    <2>3. PICK d \in {0, 1} :
           /\ d = 1 <=> n = ArchiveCap
           /\ Len(session_order') = n + 1 - d /\ session_order'[n + 1 - d] = e.id
           /\ \A i \in 1..(n - d) : session_order'[i] = session_order[i + d]
           /\ d = 0 => DOMAIN sessions' = DOMAIN sessions \cup {e.id}
           /\ d = 1 => DOMAIN sessions' = (DOMAIN sessions \ {session_order[1]}) \cup {e.id}
      BY <2>1, <2>2, NewSessionFacts, Zenon
    <2>4. d = 1 /\ id = session_order[1]
      BY <1>7, <2>3
    <2>5. /\ n = ArchiveCap /\ Len(session_order') = ArchiveCap /\ ArchiveCap \in Nat \ {0}
          /\ session_order'[ArchiveCap] = e.id
          /\ \A k \in 1..(ArchiveCap - 1) : session_order'[k] = session_order[k + 1]
      BY <2>3, <2>4, StoreAssumption
    <2>6. /\ session_order \in Seq(DOMAIN sessions)
          /\ \A i, j \in 1..ArchiveCap : session_order[i] = session_order[j] => i = j
      BY <2>5, Zenon DEF ArchiveInv, ArchiveConsistent
    <2>7. PICK entry \in [DOMAIN sessions -> 1..N] :
            /\ \A o \in DOMAIN sessions : entry[o] \in Starts(o)
            /\ \A i, j \in 1..ArchiveCap : i < j => entry[session_order[i]] < entry[session_order[j]]
      BY <2>5, Zenon DEF OrderInv
    <2>8. PICK i : i = entry[id] /\ i \in Starts(id)' /\ i \in 1..N
      BY <1>3, <1>7, <2>7, Zenon
    <2>9. ASSUME NEW k \in 1..ArchiveCap
          PROVE  session_order'[k] \in Others(id, i)'
      <3>1. CASE k = ArchiveCap
        <4>1. N + 1 \in Starts(e.id)' /\ N + 1 > i
          BY <1>1, <1>3, <2>1, <2>8
        <4> QED BY <1>2, <1>7, <2>1, <2>5, <3>1, <4>1, ZenonT(30)
      <3>2. CASE k # ArchiveCap
        <4>1. k \in 1..(ArchiveCap - 1) /\ k + 1 \in 1..ArchiveCap /\ 1 \in 1..ArchiveCap
              /\ 1 < k + 1 /\ 1 # k + 1
          BY <2>5, <3>2
        <4>o. PICK o : o = session_order[k + 1]
          OBVIOUS
        <4>2. o \in DOMAIN sessions /\ o # id /\ session_order'[k] = o
          BY <2>4, <2>5, <2>6, <4>o, <4>1, LenProperties
        <4>3. entry[o] \in Starts(o)' /\ entry[id] < entry[o]
          BY <1>3, <2>4, <2>7, <4>o, <4>1, <4>2, ZenonT(30)
        <4>4. entry[o] > i
          BY <2>7, <2>8, <1>7, <4>2, <4>3
        <4>5. o \in Ids
          BY <4>2, Zenon DEF OrderInv
        <4> QED BY <4>2, <4>3, <4>4, <4>5, Zenon
      <3> QED BY <3>1, <3>2
    <2>10. PICK T : T = Others(id, i)'
      BY Zenon
    <2>11. session_order' \in Injection(1..ArchiveCap, T)
      <3>1. ArchiveInv'
        BY <1>1, IngestKeeps, Zenon
      <3>2. /\ session_order' \in Seq(DOMAIN sessions')
            /\ \A a, b \in 1..ArchiveCap : session_order'[a] = session_order'[b] => a = b
        BY <2>5, <3>1, Zenon DEF ArchiveInv, ArchiveConsistent
      <3>3. session_order' \in [1..ArchiveCap -> DOMAIN sessions']
        BY <2>5, <3>2, LenProperties
      <3>4. session_order' \in [1..ArchiveCap -> T]
        <4> HIDE DEF Others
        <4> QED BY <2>9, <2>10, <3>3
      <3> QED BY <3>2, <3>4 DEF Injection, IsInjective
    <2> HIDE DEF Others
    <2>12. IsFiniteSet(T)
      BY <1>5, <2>10, Zenon
    <2>13. Cardinality(1..ArchiveCap) <= Cardinality(T)
      BY <2>11, <2>12, FS_Injection, ZenonT(30)
    <2>14. Cardinality(T) \in Nat /\ Cardinality(1..ArchiveCap) = ArchiveCap
      BY <2>5, <2>12, FS_CardinalityType, FS_Interval
    <2>15. Cardinality(T) >= ArchiveCap
      BY <2>5, <2>13, <2>14
    <2> QED BY <2>8, <2>10, <2>15, Zenon
  <1> QED BY <1>6, <1>7

\* OldestForgottenFirst: for any number of sessions and any cap, the archive
\* gives a session up only for as many others as it holds that started later.
THEOREM OldestIsForgotten == Spec => []OldestForgottenFirst
  <1>1. Init => OrderInv /\ OldestForgottenFirst
    <2> SUFFICES ASSUME Init PROVE OrderInv /\ OldestForgottenFirst
      OBVIOUS
    <2>1. ingested = <<>> /\ sessions = <<>> /\ session_order = <<>>
      BY DEF Init, StoreInit
    <2>2. \A id : Starts(id) = {}
      BY <2>1 DEF Starts
    <2>3. DOMAIN sessions = {} /\ Len(session_order) = 0
      BY <2>1
    <2>4. [id \in {} |-> 1] \in [DOMAIN sessions -> 1..Len(ingested)]
      BY <2>3
    <2>5. \A i, j \in 1..Len(session_order) : FALSE
      BY <2>3
    <2>6. OrderInv
      BY <2>3, <2>4, <2>5, Zenon DEF OrderInv
    <2> QED BY <2>2, <2>6, Zenon DEF OldestForgottenFirst
  <1>2. FlowInv /\ ArchiveInv /\ OrderInv /\ [Next]_<<vars, gateway>> => OrderInv'
    BY OrderStep
  <1>3. FlowInv /\ FlowInv' /\ ArchiveInv /\ OrderInv /\ OldestForgottenFirst
        /\ [Next]_<<vars, gateway>> => OldestForgottenFirst'
    <2> SUFFICES ASSUME FlowInv, FlowInv', ArchiveInv, OrderInv, OldestForgottenFirst,
                        [Next]_<<vars, gateway>>, ~Ingest
                 PROVE  OldestForgottenFirst'
      BY ForgetStep
    <2>1. sessions' = sessions /\ ingested' = ingested
      BY OnlyIngestCounts, Zenon
    <2>2. \A id : Starts(id)' = Starts(id)
      BY <2>1 DEF Starts
    <2> QED BY <2>1, <2>2, Zenon DEF OldestForgottenFirst
  <1> QED BY <1>1, <1>2, <1>3, FlowKept, ArchiveInvKept, PTL DEF Spec

=============================================================================
