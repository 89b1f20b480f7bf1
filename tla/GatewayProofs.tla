--------------------------- MODULE GatewayProofs ---------------------------
(***************************************************************************)
(* What holds of the gateway before a session has its sandbox.             *)
(*                                                                         *)
(* Its start: what Startup promises of the secrets and of the golden       *)
(* rootfs, for any number of sessions, files, configurations, deaths and   *)
(* failing calls.                                                          *)
(*                                                                         *)
(* Its admission control: the books are kept for any number of             *)
(* connections, sources and any limits.                                    *)
(***************************************************************************)
EXTENDS Startup, Admission, FiniteSetTheorems, TLAPS

\* The provers of a leaf that names none, in turn, and the seconds each has.
USE SMTT(20), ZenonT(20), Z3T(20)

-----------------------------------------------------------------------------
(* Admission control *)

(***************************************************************************)
(* The inductive invariant.                                                *)
(***************************************************************************)

\* A connection in use has a real source address.
AddrKnown == \A c \in Conns : pc[c] # "idle" => addr[c] \in Addrs

\* No entry counts more sessions than the cap.
ActiveCap ==
    MaxPerIp > 0 => \A k \in DOMAIN entries : entries[k].active <= MaxPerIp

TableFinite == IsFiniteSet(DOMAIN entries) /\ TableBound

Recent(k) == IF k \in DOMAIN entries THEN entries[k].recent_connects ELSE <<>>

\* At time n, r is the end of the grant history g, and what precedes it in g
\* has left the window.
RemembersWindow(n, g, r) ==
    /\ Len(r) <= Len(g)
    /\ \A i \in 1..Len(r) : r[i] = g[Len(g) - Len(r) + i]
    /\ \A i \in 1..(Len(g) - Len(r)) : n - g[i] > Window

\* What the table remembers of a source is enough to decide on its rate.
HistoryKept ==
    \A k \in Keys : /\ RemembersWindow(now, grants[k], Recent(k))
                    /\ \A i \in 1..Len(grants[k]) : grants[k][i] <= now

Books == SlotAccounting /\ PermitAccounting

IInv ==
    /\ TypeOK /\ AddrKnown /\ Books
    /\ ActiveCap /\ TableFinite
    /\ HistoryKept /\ RateBound

(***************************************************************************)
(* Lemmas about the operators.                                             *)
(***************************************************************************)

\* The drop-while loop of try_admit is well defined: some prefix of the queue
\* is all expired and is followed by a live timestamp or by nothing.
LEMMA PruneExists ==
    ASSUME NEW q \in Seq(Nat)
    PROVE  \E n \in 0..Len(q) : /\ \A i \in 1..n : Expired(q[i])
                                /\ n < Len(q) => ~Expired(q[n + 1])
  <1> DEFINE Live == {i \in 1..Len(q) : ~Expired(q[i])}
  <1>0. Len(q) \in Nat
    OBVIOUS
  <1>1. CASE Live = {}
    <2>1. \A i \in 1..Len(q) : Expired(q[i])
      BY <1>1
    <2>2. Len(q) \in 0..Len(q) /\ ~(Len(q) < Len(q))
      BY <1>0
    <2> QED  BY <2>1, <2>2
  <1>2. CASE Live # {}
    <2>1. Live \subseteq Nat
      BY <1>0
    <2>2. PICK m \in Live : \A y \in Live : ~(<<y, m>> \in OpToRel(<, Nat))
      <3> HIDE DEF Live
      <3> QED BY <1>2, <2>1, NatLessThanWellFounded, WFMin, Zenon
    <2>3. m \in 1..Len(q) /\ ~Expired(q[m])
      OBVIOUS
    <2>4. \A i \in 1..(m - 1) : Expired(q[i])
      <3> SUFFICES ASSUME NEW i \in 1..(m - 1), ~Expired(q[i])
                   PROVE  FALSE
        OBVIOUS
      <3>1. i \in 1..Len(q) /\ i < m
        BY <2>3, <1>0
      <3>2. i \in Live
        BY <3>1
      <3>3. <<i, m>> \in OpToRel(<, Nat)
        BY <3>1, <2>3, <1>0 DEF OpToRel
      <3> QED BY <3>2, <3>3, <2>2, Zenon
    <2>5. m - 1 \in 0..Len(q) /\ m - 1 < Len(q) /\ (m - 1) + 1 = m
      BY <2>3, <1>0
    <2> QED BY <2>3, <2>4, <2>5
  <1> QED BY <1>1, <1>2

\* Pruned keeps a suffix of the queue and drops only expired timestamps.
LEMMA PrunedSuffix ==
    ASSUME NEW q \in Seq(Nat)
    PROVE  \E n \in 0..Len(q) :
              /\ Pruned(q) \in Seq(Nat)
              /\ Len(Pruned(q)) = Len(q) - n
              /\ \A i \in 1..(Len(q) - n) : Pruned(q)[i] = q[n + i]
              /\ \A i \in 1..n : Expired(q[i])
              /\ n < Len(q) => ~Expired(q[n + 1])
  <1> DEFINE P(n) == /\ \A i \in 1..n : Expired(q[i])
                     /\ n < Len(q) => ~Expired(q[n + 1])
             d == CHOOSE n \in 0..Len(q) : P(n)
  <1>1. d \in 0..Len(q) /\ P(d)
    BY PruneExists, Zenon
  <1>2. Pruned(q) = SubSeq(q, d + 1, Len(q))
    BY DEF Pruned
  <1> HIDE DEF d
  <1>3. Len(q) \in Nat /\ d \in Nat /\ d <= Len(q)
    BY <1>1
  <1>4. SubSeq(q, d + 1, Len(q)) \in Seq(Nat)
    BY <1>3
  <1>5. Len(SubSeq(q, d + 1, Len(q))) = Len(q) - d
    BY <1>3
  <1>6. \A i \in 1..(Len(q) - d) : SubSeq(q, d + 1, Len(q))[i] = q[d + i]
    BY <1>3
  <1> QED BY <1>1, <1>2, <1>4, <1>5, <1>6

\* The sweep keeps entries as they are and drops only stale ones.
LEMMA SweptSubtable ==
    ASSUME TypeOK
    PROVE  /\ DOMAIN Swept \subseteq DOMAIN entries
           /\ \A k \in DOMAIN Swept : Swept[k] = entries[k]
           /\ \A k \in DOMAIN entries : k \notin DOMAIN Swept => Stale(entries[k])
           /\ Swept \in [DOMAIN Swept -> IpEntry]
  BY DEF Swept, TypeOK

\* The key try_admit files an address under is one of the keys.
LEMMA KeyOfAddr == ASSUME NEW ip \in Addrs PROVE admission_key(ip) \in Keys
  BY DEF Keys

\* The entry try_admit decides on is well formed and counts what the table
\* counted before the sweep.
LEMMA EntryForCounts ==
    ASSUME TypeOK, NEW key \in Keys
    PROVE  /\ EntryFor(key) \in IpEntry
           /\ EntryFor(key).active = ActiveCount(key)
  <1>1. CASE key \in DOMAIN Swept
    <2>1. Swept[key] \in IpEntry /\ Swept[key] = entries[key] /\ key \in DOMAIN entries
      BY <1>1, SweptSubtable
    <2>2. Pruned(Swept[key].recent_connects) \in Seq(Nat)
      BY <2>1, PrunedSuffix DEF IpEntry
    <2> QED BY <1>1, <2>1, <2>2 DEF EntryFor, ActiveCount, IpEntry
  <1>2. CASE key \notin DOMAIN Swept
    <2>1. ActiveCount(key) = 0
      BY <1>2, SweptSubtable DEF ActiveCount, Stale
    <2>2. <<>> \in Seq(Nat)
      OBVIOUS
    <2> QED BY <1>2, <2>1, <2>2 DEF EntryFor, IpEntry
  <1> QED BY <1>1, <1>2

\* Storing an entry changes that key and, through the sweep, forgets only
\* stale ones.
LEMMA StoredTable ==
    ASSUME TypeOK, NEW key \in Keys, NEW e \in IpEntry
    PROVE  /\ DOMAIN Stored(key, e) = DOMAIN Swept \cup {key}
           /\ DOMAIN Stored(key, e) \subseteq Keys
           /\ Stored(key, e) \in [DOMAIN Stored(key, e) -> IpEntry]
           /\ Stored(key, e)[key] = e
           /\ \A k \in DOMAIN Stored(key, e) : k # key =>
                 k \in DOMAIN entries /\ Stored(key, e)[k] = entries[k]
           /\ \A k \in DOMAIN entries :
                 k \notin DOMAIN Stored(key, e) => Stale(entries[k])
  <1>1. DOMAIN Stored(key, e) = DOMAIN Swept \cup {key}
    BY DEF Stored
  <1>2. \A k \in DOMAIN Swept \cup {key} :
          Stored(key, e)[k] = IF k = key THEN e ELSE Swept[k]
    BY DEF Stored
  <1>3. \A k \in DOMAIN Swept : Swept[k] \in IpEntry
    BY SweptSubtable
  <1>4. Stored(key, e) \in [DOMAIN Swept \cup {key} -> IpEntry]
    BY <1>3 DEF Stored
  <1>5. DOMAIN Swept \subseteq Keys
    BY SweptSubtable DEF TypeOK
  <1> QED BY <1>1, <1>2, <1>4, <1>5, SweptSubtable

\* Storing an entry sets its key's count and leaves every other count alone:
\* what the sweep forgets on the way counted nothing.
LEMMA StoredCounts ==
    ASSUME TypeOK, NEW key \in Keys, NEW e \in IpEntry, entries' = Stored(key, e),
           NEW k \in Keys
    PROVE  ActiveCount(k)' = IF k = key THEN e.active ELSE ActiveCount(k)
  <1>0. ActiveCount(k)' = IF k \in DOMAIN entries' THEN entries'[k].active ELSE 0
    BY DEF ActiveCount
  <1>1. CASE k = key
    <2>0. key \in DOMAIN Stored(key, e) /\ Stored(key, e)[key] = e
      BY StoredTable, Zenon
    <2>1. k \in DOMAIN entries' /\ entries'[k] = e
      BY <1>1, <2>0
    <2> QED BY <1>0, <1>1, <2>1
  <1>2. CASE k # key /\ k \in DOMAIN entries'
    <2>1. k \in DOMAIN entries /\ entries'[k] = entries[k]
      BY <1>2, StoredTable, Zenon
    <2> QED BY <1>0, <1>2, <2>1 DEF ActiveCount
  <1>3. CASE k # key /\ k \notin DOMAIN entries'
    <2>1. k \in DOMAIN entries => Stale(entries[k])
      BY <1>3, StoredTable, Zenon
    <2> QED BY <1>0, <1>3, <2>1 DEF ActiveCount, Stale
  <1> QED BY <1>1, <1>2, <1>3

\* The entry a granted admission stores is an entry: one more active session,
\* and one more recent connection.
LEMMA GrantedEntry ==
    ASSUME NEW e \in IpEntry, now \in Nat
    PROVE  /\ Granted(e) \in IpEntry
           /\ Granted(e).active = e.active + 1
           /\ Granted(e).recent_connects = Append(e.recent_connects, now)
  BY DEF Granted, IpEntry

\* release touches the count of its own key only.
LEMMA ReleasedTable ==
    ASSUME TypeOK, NEW key \in DOMAIN entries, entries[key].active > 0
    PROVE  /\ DOMAIN Released(key) \subseteq DOMAIN entries
           /\ Released(key) \in [DOMAIN Released(key) -> IpEntry]
           /\ \A k \in DOMAIN entries : k # key =>
                 k \in DOMAIN Released(key) /\ Released(key)[k] = entries[k]
           /\ key \in DOMAIN Released(key) =>
                 /\ Released(key)[key].active = entries[key].active - 1
                 /\ Released(key)[key].recent_connects = entries[key].recent_connects
           /\ key \notin DOMAIN Released(key) =>
                 /\ entries[key].active = 1
                 /\ entries[key].recent_connects = <<>>
  <1> DEFINE n == IF entries[key].active > 0 THEN entries[key].active - 1 ELSE 0
  <1>0. entries[key] \in IpEntry
    BY DEF TypeOK
  <1>1. n = entries[key].active - 1 /\ n \in Nat
    BY <1>0 DEF IpEntry
  <1>2. CASE n = 0 /\ entries[key].recent_connects = <<>>
    <2>1. Released(key) = [k \in DOMAIN entries \ {key} |-> entries[k]]
      BY <1>2 DEF Released
    <2> QED BY <2>1, <1>0, <1>1, <1>2 DEF TypeOK, IpEntry
  <1>3. CASE ~(n = 0 /\ entries[key].recent_connects = <<>>)
    <2>1. Released(key) = [entries EXCEPT ![key].active = n]
      BY <1>3 DEF Released
    <2>2. Released(key)[key] = [entries[key] EXCEPT !.active = n]
      BY <2>1
    <2>3. /\ Released(key)[key] \in IpEntry
          /\ Released(key)[key].active = n
          /\ Released(key)[key].recent_connects = entries[key].recent_connects
      BY <2>2, <1>0, <1>1 DEF IpEntry
    <2>4. DOMAIN Released(key) = DOMAIN entries
      BY <2>1
    <2>5. \A k \in DOMAIN entries : k # key => Released(key)[k] = entries[k]
      BY <2>1
    <2>6. Released(key) \in [DOMAIN entries -> IpEntry]
      BY <2>1, <2>3, <1>0, <1>1 DEF TypeOK, IpEntry
    <2> QED BY <2>3, <2>4, <2>5, <2>6, <1>1
  <1> QED BY <1>2, <1>3

\* The connections that hold a slot of a source are finitely many.
LEMMA SlotHoldersFinite ==
    ASSUME NEW k
    PROVE  IsFiniteSet(SlotHolders(k)) /\ Cardinality(SlotHolders(k)) \in Nat
  <1>1. SlotHolders(k) \in SUBSET Conns
    BY DEF SlotHolders
  <1> QED BY <1>1, AdmissionAssumption, FS_Subset, FS_CardinalityType

\* A connection that holds a slot is counted by the table, so release finds
\* an entry with a positive count.
LEMMA HolderCounted ==
    ASSUME TypeOK, AddrKnown, SlotAccounting,
           NEW c \in Conns, pc[c] \in HoldsSlot
    PROVE  /\ admission_key(addr[c]) \in Keys
           /\ admission_key(addr[c]) \in DOMAIN entries
           /\ entries[admission_key(addr[c])].active > 0
  <1> DEFINE key == admission_key(addr[c])
  <1>1. key \in Keys
    BY KeyOfAddr DEF AddrKnown, HoldsSlot
  <1>2. c \in SlotHolders(key)
    BY DEF SlotHolders
  <1>3. Cardinality(SlotHolders(key)) # 0
    BY <1>2, SlotHoldersFinite, FS_EmptySet
  <1>4. ActiveCount(key) # 0
    BY <1>1, <1>3 DEF SlotAccounting
  <1>5. key \in DOMAIN entries
    BY <1>4 DEF ActiveCount
  <1>6. entries[key].active \in Nat
    BY <1>5 DEF TypeOK, IpEntry
  <1> QED BY <1>1, <1>4, <1>5, <1>6 DEF ActiveCount

(***************************************************************************)
(* Each step preserves the invariant, one conjunct at a time.              *)
(***************************************************************************)

\* Every step of new_client, of a drop and of the clock preserves the types.
LEMMA TypeStep ==
    ASSUME IInv, [Next]_vars
    PROVE  TypeOK' /\ AddrKnown'
  <1> USE DEF IInv, Books
  <1>0. now \in Nat /\ MaxTime \in Nat
    BY AdmissionAssumption DEF TypeOK
  <1>1. ASSUME NEW c \in Conns, NEW ip \in Addrs, Arrive(c, ip),
               NEW l \in Labels \ {"idle"}, Goto(c, l),
               DOMAIN entries' \subseteq Keys,
               entries' \in [DOMAIN entries' -> IpEntry],
               grants' \in [Keys -> Seq(Nat)]
        PROVE  TypeOK' /\ AddrKnown'
    BY <1>1, <1>0 DEF TypeOK, AddrKnown, Arrive, SweepClock, Goto
  <1>2. ASSUME NEW c \in Conns, NEW ip \in Addrs, RefuseTableFull(c, ip)
        PROVE  TypeOK' /\ AddrKnown'
    <2>1. entries' = Swept /\ grants' = grants
      BY <1>2 DEF RefuseTableFull
    <2>2. DOMAIN entries' \subseteq Keys /\ entries' \in [DOMAIN entries' -> IpEntry]
      BY <2>1, SweptSubtable DEF TypeOK
    <2> QED BY <1>1, <1>2, <2>1, <2>2 DEF RefuseTableFull, TypeOK, Labels
  <1>3. ASSUME NEW c \in Conns, NEW ip \in Addrs, RefuseLimit(c, ip)
        PROVE  TypeOK' /\ AddrKnown'
    <2>1. entries' = Stored(admission_key(ip), EntryFor(admission_key(ip)))
      BY <1>3 DEF RefuseLimit
    <2>2. DOMAIN entries' \subseteq Keys /\ entries' \in [DOMAIN entries' -> IpEntry]
      BY <2>1, StoredTable, EntryForCounts, KeyOfAddr, Zenon
    <2> QED BY <1>1, <1>3, <2>2 DEF RefuseLimit, TypeOK, Labels
  <1>4. ASSUME NEW c \in Conns, NEW ip \in Addrs, TryAdmit(c, ip)
        PROVE  TypeOK' /\ AddrKnown'
    <2> DEFINE key == admission_key(ip)
    <2>1. key \in Keys
      BY KeyOfAddr
    <2>2. entries' = Stored(key, Granted(EntryFor(key)))
      BY <1>4 DEF TryAdmit
    <2>3. Granted(EntryFor(key)) \in IpEntry
      BY <2>1, <1>0, GrantedEntry, EntryForCounts
    <2>4. DOMAIN entries' \subseteq Keys /\ entries' \in [DOMAIN entries' -> IpEntry]
      BY <2>1, <2>2, <2>3, StoredTable, Zenon
    <2>5. grants' \in [Keys -> Seq(Nat)]
      <3>1. grants' = [grants EXCEPT ![key] = Append(@, now)]
        BY <1>4 DEF TryAdmit
      <3>2. Append(grants[key], now) \in Seq(Nat)
        BY <2>1, <1>0 DEF TypeOK
      <3> QED BY <3>1, <3>2, Zenon DEF TypeOK
    <2>6. Arrive(c, ip) /\ Goto(c, "admitted")
      BY <1>4 DEF TryAdmit
    <2>7. "admitted" \in Labels \ {"idle"}
      BY DEF Labels, HoldsSlot
    <2> QED BY <1>1, <2>4, <2>5, <2>6, <2>7
  <1>5. ASSUME NEW c \in Conns, TryAcquire(c)
        PROVE  TypeOK' /\ AddrKnown'
    BY <1>5 DEF TryAcquire, Goto, TypeOK, AddrKnown, Labels, HoldsSlot, HoldsPermit
  <1>6. ASSUME NEW c \in Conns, Provision(c)
        PROVE  TypeOK' /\ AddrKnown'
    BY <1>6 DEF Provision, Goto, TypeOK, AddrKnown, Labels, HoldsSlot, HoldsPermit
  <1>7. ASSUME NEW c \in Conns, RecorderFails(c)
        PROVE  TypeOK' /\ AddrKnown'
    BY <1>7 DEF RecorderFails, Goto, TypeOK, AddrKnown, Labels, HoldsSlot, HoldsPermit
  <1>8. ASSUME NEW c \in Conns, Abandon(c) \/ DropSession(c)
        PROVE  TypeOK' /\ AddrKnown'
    <2>1. pc[c] \in HoldsSlot /\ entries' = Released(admission_key(addr[c]))
      BY <1>8 DEF Abandon, DropSession, HoldsSlot
    <2>2. DOMAIN entries' \subseteq Keys /\ entries' \in [DOMAIN entries' -> IpEntry]
      BY <2>1, HolderCounted, ReleasedTable DEF TypeOK
    <2> QED BY <1>8, <2>2 DEF Abandon, DropSession, Goto, TypeOK, AddrKnown, Labels,
                              HoldsSlot, HoldsPermit
  <1>9. ASSUME NEW c \in Conns, DropPermit(c) \/ DropRejected(c)
        PROVE  TypeOK' /\ AddrKnown'
    <2>1. /\ pc' = [pc EXCEPT ![c] = "idle"] /\ addr' = [addr EXCEPT ![c] = NoAddr]
          /\ permits' \in Nat /\ UNCHANGED <<now, entries, last_sweep, grants>>
      BY <1>9 DEF DropPermit, DropRejected, Goto, TypeOK
    <2>2. TypeOK'
      BY <2>1 DEF TypeOK, Labels
    <2>3. AddrKnown'
      BY <2>1 DEF TypeOK, AddrKnown
    <2> QED BY <2>2, <2>3
  <1>10. CASE Tick
    BY <1>10, <1>0 DEF Tick, TypeOK, AddrKnown
  <1>11. CASE UNCHANGED vars
    BY <1>11 DEF vars, TypeOK, AddrKnown
  <1> QED BY <1>2, <1>3, <1>4, <1>5, <1>6, <1>7, <1>8, <1>9, <1>10, <1>11 DEF Next

\* Moving one connection in or out of the holders of a key moves the count by
\* one; nothing else changes it.
LEMMA HoldersMove ==
    ASSUME TypeOK, NEW c \in Conns, NEW k,
           \A d \in Conns : d # c => pc'[d] = pc[d] /\ addr'[d] = addr[d]
    PROVE  /\ (c \in SlotHolders(k)) = (c \in SlotHolders(k)') =>
                 SlotHolders(k)' = SlotHolders(k)
           /\ c \notin SlotHolders(k) /\ c \in SlotHolders(k)' =>
                 Cardinality(SlotHolders(k)') = Cardinality(SlotHolders(k)) + 1
           /\ c \in SlotHolders(k) /\ c \notin SlotHolders(k)' =>
                 Cardinality(SlotHolders(k)') = Cardinality(SlotHolders(k)) - 1
  <1>1. (c \in SlotHolders(k)) = (c \in SlotHolders(k)') => SlotHolders(k)' = SlotHolders(k)
    BY DEF SlotHolders
  <1>2. ASSUME c \notin SlotHolders(k), c \in SlotHolders(k)'
        PROVE  Cardinality(SlotHolders(k)') = Cardinality(SlotHolders(k)) + 1
    <2>1. SlotHolders(k)' = SlotHolders(k) \cup {c}
      BY <1>2 DEF SlotHolders
    <2> QED BY <2>1, <1>2, SlotHoldersFinite, FS_AddElement, Zenon
  <1>3. ASSUME c \in SlotHolders(k), c \notin SlotHolders(k)'
        PROVE  Cardinality(SlotHolders(k)') = Cardinality(SlotHolders(k)) - 1
    <2>1. SlotHolders(k)' = SlotHolders(k) \ {c}
      BY <1>3 DEF SlotHolders
    <2> QED BY <2>1, <1>3, SlotHoldersFinite, FS_RemoveElement, Zenon
  <1> QED BY <1>1, <1>2, <1>3

\* Every step preserves the books of the slots: the active count of a source is
\* the number of connections that hold a slot of it.
LEMMA SlotStep ==
    ASSUME IInv, [Next]_vars
    PROVE  SlotAccounting'
  <1> USE DEF IInv, Books
  \* A refusal changes no count: the sweep drops entries that count nothing.
  <1>1. ASSUME NEW c \in Conns, NEW ip \in Addrs,
               RefuseTableFull(c, ip) \/ RefuseLimit(c, ip)
        PROVE  SlotAccounting'
    <2> DEFINE key == admission_key(ip)
    <2>0. key \in Keys
      BY KeyOfAddr
    <2>1. ASSUME NEW k \in Keys PROVE ActiveCount(k)' = ActiveCount(k)
      <3>1. CASE entries' = Swept
        BY <3>1, SweptSubtable DEF ActiveCount, Stale
      <3>2. CASE entries' = Stored(key, EntryFor(key))
        <4>1. EntryFor(key) \in IpEntry /\ EntryFor(key).active = ActiveCount(key)
          BY <2>0, EntryForCounts
        <4>2. ActiveCount(k)' = IF k = key THEN EntryFor(key).active ELSE ActiveCount(k)
          BY <2>0, <3>2, <4>1, StoredCounts
        <4> QED BY <4>1, <4>2
      <3> QED BY <1>1, <3>1, <3>2 DEF RefuseTableFull, RefuseLimit
    <2>2. ASSUME NEW k \in Keys PROVE SlotHolders(k)' = SlotHolders(k)
      <3>1. /\ pc[c] = "idle" /\ pc' = [pc EXCEPT ![c] = "rejected"]
            /\ addr' = [addr EXCEPT ![c] = ip]
        BY <1>1 DEF RefuseTableFull, RefuseLimit, Arrive, Goto
      <3> QED BY <3>1 DEF SlotHolders, HoldsSlot, TypeOK
    <2> QED BY <2>1, <2>2 DEF SlotAccounting, Keys
  <1>2. ASSUME NEW c \in Conns, NEW ip \in Addrs, TryAdmit(c, ip)
        PROVE  SlotAccounting'
    <2> DEFINE key == admission_key(ip)
    <2>0. key \in Keys
      BY KeyOfAddr
    <2>1. /\ pc[c] = "idle" /\ pc' = [pc EXCEPT ![c] = "admitted"]
          /\ addr' = [addr EXCEPT ![c] = ip]
          /\ entries' = Stored(key, Granted(EntryFor(key)))
      BY <1>2 DEF TryAdmit, Arrive, Goto
    <2>2. /\ EntryFor(key) \in IpEntry /\ EntryFor(key).active = ActiveCount(key)
          /\ Granted(EntryFor(key)) \in IpEntry
          /\ Granted(EntryFor(key)).active = EntryFor(key).active + 1
      BY <2>0, EntryForCounts, GrantedEntry DEF TypeOK
    <2>3. ASSUME NEW k \in Keys
          PROVE  ActiveCount(k)' = IF k = key THEN ActiveCount(k) + 1 ELSE ActiveCount(k)
      <3>1. ActiveCount(k)' = IF k = key THEN Granted(EntryFor(key)).active
                                         ELSE ActiveCount(k)
        BY <2>0, <2>1, <2>2, StoredCounts
      <3> QED BY <3>1, <2>2
    <2>4. ASSUME NEW k \in Keys
          PROVE  Cardinality(SlotHolders(k)') =
                   IF k = key THEN Cardinality(SlotHolders(k)) + 1
                              ELSE Cardinality(SlotHolders(k))
      <3>1. c \notin SlotHolders(k)
        BY <2>1 DEF SlotHolders, HoldsSlot
      <3>2. (c \in SlotHolders(k)') = (k = key)
        BY <2>1 DEF SlotHolders, HoldsSlot, TypeOK
      <3>3. \A d \in Conns : d # c => pc'[d] = pc[d] /\ addr'[d] = addr[d]
        BY <2>1 DEF TypeOK
      <3> QED BY <3>1, <3>2, <3>3, HoldersMove
    <2> QED BY <2>3, <2>4 DEF SlotAccounting, Keys
  \* Steps between two places that both hold, or both do not hold, a slot.
  <1>3. ASSUME NEW c \in Conns,
               \/ TryAcquire(c) \/ Provision(c) \/ RecorderFails(c)
               \/ DropPermit(c) \/ DropRejected(c)
        PROVE  SlotAccounting'
    <2>1. PICK l \in Labels : /\ pc' = [pc EXCEPT ![c] = l]
                              /\ (l \in HoldsSlot) = (pc[c] \in HoldsSlot)
                              /\ l \in HoldsSlot => addr' = addr
      BY <1>3 DEF TryAcquire, Provision, RecorderFails, DropPermit, DropRejected, Goto,
                  HoldsSlot, Labels, HoldsPermit
    <2>2. entries' = entries /\ \A d \in Conns : d # c => addr'[d] = addr[d]
      BY <1>3 DEF TryAcquire, Provision, RecorderFails, DropPermit, DropRejected, TypeOK
    <2>3. ASSUME NEW k \in Keys PROVE SlotHolders(k)' = SlotHolders(k)
      <3>1. (c \in SlotHolders(k)) = (c \in SlotHolders(k)')
        BY <2>1 DEF SlotHolders, TypeOK
      <3>2. \A d \in Conns : d # c => pc'[d] = pc[d]
        BY <2>1 DEF TypeOK
      <3> QED BY <2>2, <3>1, <3>2, HoldersMove
    <2>4. ASSUME NEW k \in Keys PROVE ActiveCount(k)' = ActiveCount(k)
      BY <2>2 DEF ActiveCount
    <2> QED BY <2>3, <2>4 DEF SlotAccounting, Keys
  <1>4. ASSUME NEW c \in Conns, Abandon(c) \/ DropSession(c)
        PROVE  SlotAccounting'
    <2> DEFINE key == admission_key(addr[c])
    <2>1. /\ pc[c] \in HoldsSlot /\ addr' = addr /\ entries' = Released(key)
          /\ \E l \in {"rejected", "dropping"} : pc' = [pc EXCEPT ![c] = l]
      BY <1>4 DEF Abandon, DropSession, HoldsSlot, Goto
    <2>2. key \in DOMAIN entries /\ entries[key].active > 0
      BY <2>1, HolderCounted
    <2>3. ASSUME NEW k \in Keys
          PROVE  ActiveCount(k)' = IF k = key THEN ActiveCount(k) - 1 ELSE ActiveCount(k)
      BY <2>1, <2>2, ReleasedTable DEF ActiveCount
    <2>4. ASSUME NEW k \in Keys
          PROVE  Cardinality(SlotHolders(k)') =
                   IF k = key THEN Cardinality(SlotHolders(k)) - 1
                              ELSE Cardinality(SlotHolders(k))
      <3>1. (c \in SlotHolders(k)) = (k = key)
        BY <2>1 DEF SlotHolders
      <3>2. c \notin SlotHolders(k)'
        BY <2>1 DEF SlotHolders, HoldsSlot, TypeOK
      <3>3. \A d \in Conns : d # c => pc'[d] = pc[d] /\ addr'[d] = addr[d]
        BY <2>1 DEF TypeOK
      <3> QED BY <3>1, <3>2, <3>3, HoldersMove
    <2> QED BY <2>3, <2>4 DEF SlotAccounting, Keys
  <1>5. CASE Tick \/ UNCHANGED vars
    BY <1>5 DEF Tick, vars, SlotAccounting, ActiveCount, SlotHolders, Keys
  <1> QED BY <1>1, <1>2, <1>3, <1>4, <1>5 DEF Next

\* Every step preserves the books of the permits: those left in the semaphore
\* and those held make up max_sessions.
LEMMA PermitStep ==
    ASSUME IInv, [Next]_vars
    PROVE  PermitAccounting'
  <1> USE DEF IInv, Books
  <1>0. IsFiniteSet(PermitHolders) /\ Cardinality(PermitHolders) \in Nat
    <2>1. PermitHolders \in SUBSET Conns
      BY DEF PermitHolders
    <2> QED BY <2>1, AdmissionAssumption, FS_Subset, FS_CardinalityType
  <1>00. permits \in Nat /\ PermitPool \in Nat
    BY AdmissionAssumption DEF TypeOK, PermitPool
  <1>1. ASSUME PermitHolders' = PermitHolders, permits' = permits
        PROVE  PermitAccounting'
    BY <1>1 DEF PermitAccounting, PermitPool
  <1>2. ASSUME NEW c \in Conns, c \notin PermitHolders, permits' = permits - 1,
               PermitHolders' = PermitHolders \cup {c}
        PROVE  PermitAccounting'
    <2>1. Cardinality(PermitHolders') = Cardinality(PermitHolders) + 1
      BY <1>0, <1>2, FS_AddElement
    <2> QED BY <2>1, <1>0, <1>00, <1>2 DEF PermitAccounting, PermitPool
  <1>3. ASSUME NEW c \in Conns, c \in PermitHolders, permits' = permits + 1,
               PermitHolders' = PermitHolders \ {c}
        PROVE  PermitAccounting'
    <2>1. Cardinality(PermitHolders') = Cardinality(PermitHolders) - 1
      BY <1>0, <1>3, FS_RemoveElement
    <2> QED BY <2>1, <1>0, <1>00, <1>3 DEF PermitAccounting, PermitPool
  <1>4. ASSUME NEW c \in Conns, NEW ip \in Addrs,
               RefuseTableFull(c, ip) \/ RefuseLimit(c, ip) \/ TryAdmit(c, ip)
        PROVE  PermitAccounting'
    <2>1. /\ pc[c] = "idle" /\ permits' = permits
          /\ \E l \in {"rejected", "admitted"} : pc' = [pc EXCEPT ![c] = l]
      BY <1>4 DEF RefuseTableFull, RefuseLimit, TryAdmit, Arrive, Goto
    <2>2. PermitHolders' = PermitHolders
      BY <2>1 DEF PermitHolders, HoldsPermit, TypeOK
    <2> QED BY <1>1, <2>1, <2>2
  <1>5. ASSUME NEW c \in Conns, TryAcquire(c)
        PROVE  PermitAccounting'
    <2>1. CASE permits > 0
      <3>1. c \notin PermitHolders /\ PermitHolders' = PermitHolders \cup {c}
        BY <1>5, <2>1 DEF TryAcquire, Goto, PermitHolders, HoldsPermit, TypeOK
      <3> QED BY <1>2, <1>5, <2>1, <3>1 DEF TryAcquire
    <2>2. CASE ~(permits > 0)
      <3>1. PermitHolders' = PermitHolders
        BY <1>5, <2>2 DEF TryAcquire, Goto, PermitHolders, HoldsPermit, TypeOK
      <3> QED BY <1>1, <1>5, <2>2, <3>1 DEF TryAcquire
    <2> QED BY <2>1, <2>2
  <1>6. ASSUME NEW c \in Conns,
               Provision(c) \/ Abandon(c) \/ DropSession(c) \/ DropRejected(c)
        PROVE  PermitAccounting'
    <2>1. PermitHolders' = PermitHolders
      BY <1>6 DEF Provision, Abandon, DropSession, DropRejected, Goto, PermitHolders,
                  HoldsPermit, TypeOK
    <2> QED BY <1>1, <1>6, <2>1 DEF Provision, Abandon, DropSession, DropRejected
  <1>7. ASSUME NEW c \in Conns, RecorderFails(c) \/ DropPermit(c)
        PROVE  PermitAccounting'
    <2>1. c \in PermitHolders /\ PermitHolders' = PermitHolders \ {c}
      BY <1>7 DEF RecorderFails, DropPermit, Goto, PermitHolders, HoldsPermit, TypeOK
    <2> QED BY <1>3, <1>7, <2>1 DEF RecorderFails, DropPermit
  <1>8. CASE Tick \/ UNCHANGED vars
    BY <1>1, <1>8 DEF Tick, vars, PermitHolders
  <1> QED BY <1>4, <1>5, <1>6, <1>7, <1>8 DEF Next

\* The table stays within its bound and no count passes the cap.
LEMMA TableStep ==
    ASSUME IInv, [Next]_vars
    PROVE  TableFinite' /\ ActiveCap'
  <1> USE DEF IInv, Books
  <1>0. MaxTracked \in Nat /\ MaxPerIp \in Nat
    BY AdmissionAssumption
  <1>1. ASSUME NEW T, T \subseteq DOMAIN entries
        PROVE  IsFiniteSet(T) /\ Cardinality(T) \in Nat /\ Cardinality(T) <= MaxTracked
    BY <1>0, <1>1, FS_Subset, FS_CardinalityType DEF TableFinite, TableBound
  <1>2. ASSUME NEW c \in Conns, NEW ip \in Addrs, RefuseTableFull(c, ip)
        PROVE  TableFinite' /\ ActiveCap'
    <2>1. entries' = Swept
      BY <1>2 DEF RefuseTableFull
    <2> QED BY <1>1, <2>1, SweptSubtable DEF TableFinite, TableBound, ActiveCap
  <1>3. ASSUME NEW key \in Keys, ~TableFull(key), NEW e \in IpEntry,
               entries' = Stored(key, e), MaxPerIp > 0 => e.active <= MaxPerIp
        PROVE  TableFinite' /\ ActiveCap'
    <2>1. IsFiniteSet(DOMAIN Swept) /\ Cardinality(DOMAIN Swept) \in Nat
          /\ Cardinality(DOMAIN Swept) <= MaxTracked
      BY <1>1, SweptSubtable
    <2>2. DOMAIN entries' = DOMAIN Swept \cup {key}
      BY <1>3, StoredTable, Zenon
    <2>3. key \in DOMAIN Swept \/ Cardinality(DOMAIN Swept) < MaxTracked
      BY <1>3, <2>1, <1>0 DEF TableFull
    <2>4. TableFinite'
      <3> DEFINE D == DOMAIN Swept
      <3>1. /\ IsFiniteSet(D \cup {key})
            /\ Cardinality(D \cup {key}) =
                 IF key \in D THEN Cardinality(D) ELSE Cardinality(D) + 1
        <4> HIDE DEF D
        <4> QED BY <2>1, FS_AddElement DEF D
      <3>2. Cardinality(D \cup {key}) <= MaxTracked
        BY <3>1, <2>1, <2>3, <1>0
      <3> QED BY <2>2, <3>1, <3>2 DEF TableFinite, TableBound
    <2>5. ActiveCap'
      <3> SUFFICES ASSUME MaxPerIp > 0, NEW k \in DOMAIN entries'
                   PROVE  entries'[k].active <= MaxPerIp
        BY DEF ActiveCap
      <3>1. CASE k = key
        <4>1. entries'[k] = e
          BY <1>3, <3>1, StoredTable, Zenon
        <4> QED BY <4>1, <1>3
      <3>2. CASE k # key
        <4>1. k \in DOMAIN entries /\ entries'[k] = entries[k]
          BY <1>3, <3>2, StoredTable, ZenonT(30)
        <4> QED BY <4>1 DEF ActiveCap
      <3> QED BY <3>1, <3>2
    <2> QED BY <2>4, <2>5
  <1>4. ASSUME NEW c \in Conns, NEW ip \in Addrs, RefuseLimit(c, ip)
        PROVE  TableFinite' /\ ActiveCap'
    <2> DEFINE key == admission_key(ip)
    <2>1. key \in Keys /\ EntryFor(key) \in IpEntry /\ EntryFor(key).active = ActiveCount(key)
      BY KeyOfAddr, EntryForCounts
    <2>2. MaxPerIp > 0 => EntryFor(key).active <= MaxPerIp
      BY <2>1, <1>0 DEF ActiveCap, ActiveCount
    <2> QED BY <1>3, <1>4, <2>1, <2>2 DEF RefuseLimit
  <1>5. ASSUME NEW c \in Conns, NEW ip \in Addrs, TryAdmit(c, ip)
        PROVE  TableFinite' /\ ActiveCap'
    <2> DEFINE key == admission_key(ip)
    <2>1. key \in Keys /\ EntryFor(key) \in IpEntry
      BY KeyOfAddr, EntryForCounts
    <2>2. /\ Granted(EntryFor(key)) \in IpEntry
          /\ Granted(EntryFor(key)).active = EntryFor(key).active + 1
      BY <2>1, GrantedEntry DEF TypeOK
    <2>3. MaxPerIp > 0 => Granted(EntryFor(key)).active <= MaxPerIp
      BY <1>5, <2>1, <2>2, <1>0 DEF TryAdmit, LimitReached, IpEntry
    <2> QED BY <1>3, <1>5, <2>1, <2>2, <2>3 DEF TryAdmit
  <1>6. ASSUME NEW c \in Conns, Abandon(c) \/ DropSession(c)
        PROVE  TableFinite' /\ ActiveCap'
    <2> DEFINE key == admission_key(addr[c])
    <2>1. pc[c] \in HoldsSlot /\ entries' = Released(key)
      BY <1>6 DEF Abandon, DropSession, HoldsSlot
    <2>2. key \in DOMAIN entries /\ entries[key].active > 0
      BY <2>1, HolderCounted
    <2>3. DOMAIN entries' \subseteq DOMAIN entries
      BY <2>1, <2>2, ReleasedTable
    <2>4. ASSUME MaxPerIp > 0, NEW k \in DOMAIN entries' PROVE entries'[k].active <= MaxPerIp
      <3>1. entries[k].active <= MaxPerIp /\ entries[k].active \in Nat
        BY <2>3, <2>4 DEF ActiveCap, TypeOK, IpEntry
      <3>2. entries'[k].active = entries[k].active \/ entries'[k].active = entries[k].active - 1
        BY <2>1, <2>2, <2>3, <2>4, ReleasedTable
      <3> QED BY <3>1, <3>2, <1>0
    <2> QED BY <1>1, <2>3, <2>4 DEF TableFinite, TableBound, ActiveCap
  <1>7. CASE entries' = entries
    BY <1>7 DEF TableFinite, TableBound, ActiveCap
  <1> QED BY <1>2, <1>4, <1>5, <1>6, <1>7
          DEF Next, vars, TryAcquire, Provision, RecorderFails, DropPermit, DropRejected, Tick

(***************************************************************************)
(* The rate limit: what the guard remembers is all that matters.           *)
(***************************************************************************)

\* A source whose remembered grants have all expired can be forgotten.
LEMMA ForgetExpired ==
    ASSUME NEW n \in Nat, NEW g \in Seq(Nat), NEW r \in Seq(Nat),
           RemembersWindow(n, g, r), \A i \in 1..Len(r) : n - r[i] > Window
    PROVE  RemembersWindow(n, g, <<>>)
  <1>1. Len(g) \in Nat /\ Len(r) \in Nat /\ Len(r) <= Len(g)
    BY DEF RemembersWindow
  <1>2. ASSUME NEW i \in 1..Len(g) PROVE n - g[i] > Window
    <2>1. CASE i <= Len(g) - Len(r)
      <3>1. i \in 1..(Len(g) - Len(r))
        BY <2>1, <1>1
      <3> QED BY <3>1 DEF RemembersWindow
    <2>2. CASE i > Len(g) - Len(r)
      <3> DEFINE j == i - (Len(g) - Len(r))
      <3>1. j \in 1..Len(r) /\ Len(g) - Len(r) + j = i
        BY <2>2, <1>1
      <3>2. r[j] = g[i]
        BY <3>1 DEF RemembersWindow
      <3> QED BY <3>1, <3>2
    <2> QED BY <2>1, <2>2, <1>1
  <1>3. Len(<<>>) = 0 /\ 1..0 = {}
    OBVIOUS
  <1>4. Len(g) - Len(<<>>) = Len(g) /\ Len(<<>>) <= Len(g)
    BY <1>1, <1>3
  <1> QED BY <1>2, <1>3, <1>4 DEF RemembersWindow

\* Pruning keeps enough.
LEMMA PruneRemembers ==
    ASSUME now \in Nat, NEW g \in Seq(Nat), NEW r \in Seq(Nat),
           RemembersWindow(now, g, r)
    PROVE  RemembersWindow(now, g, Pruned(r))
  <1>1. PICK d \in 0..Len(r) :
          /\ Pruned(r) \in Seq(Nat)
          /\ Len(Pruned(r)) = Len(r) - d
          /\ \A i \in 1..(Len(r) - d) : Pruned(r)[i] = r[d + i]
          /\ \A i \in 1..d : Expired(r[i])
    BY PrunedSuffix, Zenon
  <1> DEFINE p == Pruned(r)
  <1> HIDE DEF p
  <1>2. /\ Len(g) \in Nat /\ Len(r) \in Nat /\ d \in Nat /\ d <= Len(r)
        /\ Len(r) <= Len(g) /\ Len(p) = Len(r) - d
    BY <1>1 DEF RemembersWindow, p
  <1>3. ASSUME NEW i \in 1..Len(p) PROVE p[i] = g[Len(g) - Len(p) + i]
    <2>1. p[i] = r[d + i] /\ d + i \in 1..Len(r)
      BY <1>1, <1>2 DEF p
    <2>2. r[d + i] = g[Len(g) - Len(r) + (d + i)]
      BY <2>1 DEF RemembersWindow
    <2>3. Len(g) - Len(r) + (d + i) = Len(g) - Len(p) + i
      BY <1>2
    <2> QED BY <2>1, <2>2, <2>3, Zenon
  <1>4. ASSUME NEW i \in 1..(Len(g) - Len(p)) PROVE now - g[i] > Window
    <2>1. CASE i <= Len(g) - Len(r)
      <3>1. i \in 1..(Len(g) - Len(r))
        BY <2>1, <1>2
      <3> QED BY <3>1 DEF RemembersWindow
    <2>2. CASE i > Len(g) - Len(r)
      <3> DEFINE j == i - (Len(g) - Len(r))
      <3>0. j \in Int /\ j >= 1 /\ j <= d /\ Len(g) - Len(r) + j = i
        BY <2>2, <1>2
      <3> HIDE DEF j
      <3>1. j \in 1..d /\ j \in 1..Len(r) /\ Len(g) - Len(r) + j = i
        BY <3>0, <1>2
      <3>2. r[j] = g[i]
        BY <3>1, Zenon DEF RemembersWindow
      <3>3. Expired(r[j])
        BY <3>1, <1>1
      <3> QED BY <3>2, <3>3 DEF Expired
    <2> QED BY <2>1, <2>2, <1>2
  <1>5. Len(p) <= Len(g)
    BY <1>2
  <1>6. RemembersWindow(now, g, p)
    BY <1>3, <1>4, <1>5 DEF RemembersWindow
  <1> QED BY <1>6 DEF p

\* A grant is remembered together with what was.
LEMMA GrantRemembers ==
    ASSUME NEW n \in Nat, NEW g \in Seq(Nat), NEW r \in Seq(Nat),
           RemembersWindow(n, g, r)
    PROVE  RemembersWindow(n, Append(g, n), Append(r, n))
  <1> DEFINE gg == Append(g, n)
             rr == Append(r, n)
  <1>1. /\ Len(g) \in Nat /\ Len(r) \in Nat /\ Len(r) <= Len(g)
        /\ Len(gg) = Len(g) + 1 /\ Len(rr) = Len(r) + 1
    BY DEF RemembersWindow
  <1>2. \A i \in 1..Len(g) : gg[i] = g[i]
    OBVIOUS
  <1>3. \A i \in 1..Len(r) : rr[i] = r[i]
    OBVIOUS
  <1>4. gg[Len(g) + 1] = n /\ rr[Len(r) + 1] = n
    OBVIOUS
  <1> HIDE DEF gg, rr
  <1>5. Len(gg) - Len(rr) = Len(g) - Len(r)
    BY <1>1
  <1>6. ASSUME NEW i \in 1..Len(rr) PROVE rr[i] = gg[Len(gg) - Len(rr) + i]
    <2>1. CASE i = Len(r) + 1
      BY <2>1, <1>1, <1>4, <1>5
    <2>2. CASE i # Len(r) + 1
      <3>1. i \in 1..Len(r) /\ Len(g) - Len(r) + i \in 1..Len(g)
        BY <2>2, <1>1
      <3>2. r[i] = g[Len(g) - Len(r) + i]
        BY <3>1 DEF RemembersWindow
      <3> QED BY <3>1, <3>2, <1>2, <1>3, <1>5, Zenon
    <2> QED BY <2>1, <2>2
  <1>7. ASSUME NEW i \in 1..(Len(gg) - Len(rr)) PROVE n - gg[i] > Window
    <2>1. i \in 1..(Len(g) - Len(r)) /\ i \in 1..Len(g)
      BY <1>1, <1>5
    <2> QED BY <2>1, <1>2, Zenon DEF RemembersWindow
  <1>8. Len(rr) <= Len(gg)
    BY <1>1
  <1>9. RemembersWindow(n, gg, rr)
    BY <1>6, <1>7, <1>8 DEF RemembersWindow
  <1> QED BY <1>9 DEF gg, rr

\* The recent connections of a source are a sequence of times.
LEMMA RecentType == ASSUME TypeOK, NEW k \in Keys
                    PROVE  Recent(k) \in Seq(Nat) /\ grants[k] \in Seq(Nat)
  BY DEF TypeOK, Recent, IpEntry

\* A stale entry can be dropped without forgetting anything of the window.
LEMMA StaleForgettable ==
    ASSUME TypeOK, HistoryKept, NEW k \in Keys, k \in DOMAIN entries => Stale(entries[k])
    PROVE  RemembersWindow(now, grants[k], <<>>)
  <1>1. CASE k \notin DOMAIN entries
    BY <1>1 DEF HistoryKept, Recent
  <1>2. CASE k \in DOMAIN entries
    <2>1. /\ Recent(k) \in Seq(Nat) /\ grants[k] \in Seq(Nat) /\ now \in Nat
          /\ RemembersWindow(now, grants[k], Recent(k))
      BY RecentType DEF HistoryKept, TypeOK
    <2>2. \A i \in 1..Len(Recent(k)) : now - Recent(k)[i] > Window
      <3>1. Recent(k) = entries[k].recent_connects
        BY <1>2 DEF Recent
      <3>2. DOMAIN Recent(k) = 1..Len(Recent(k))
        BY <2>1
      <3> QED BY <1>2, <3>1, <3>2 DEF Stale, Expired
    <2> QED BY <2>1, <2>2, ForgetExpired
  <1> QED BY <1>1, <1>2

\* The entry try_admit decides on remembers the window of its source.
LEMMA EntryForRemembers ==
    ASSUME TypeOK, HistoryKept, NEW key \in Keys
    PROVE  RemembersWindow(now, grants[key], EntryFor(key).recent_connects)
  <1>1. CASE key \in DOMAIN Swept
    <2>1. Swept[key] = entries[key] /\ key \in DOMAIN entries
      BY <1>1, SweptSubtable
    <2>2. EntryFor(key).recent_connects = Pruned(Recent(key))
      BY <1>1, <2>1 DEF EntryFor, Recent
    <2>3. RemembersWindow(now, grants[key], Recent(key)) /\ now \in Nat
      BY DEF HistoryKept, TypeOK
    <2> QED BY <2>2, <2>3, RecentType, PruneRemembers
  <1>2. CASE key \notin DOMAIN Swept
    <2>1. EntryFor(key).recent_connects = <<>>
      BY <1>2 DEF EntryFor
    <2>2. key \in DOMAIN entries => Stale(entries[key])
      BY <1>2, SweptSubtable
    <2> QED BY <2>1, <2>2, StaleForgettable
  <1> QED BY <1>1, <1>2

\* Refusals and grants keep the window of every source; g is the history of
\* the key after the step.
LEMMA StoredRemembers ==
    ASSUME TypeOK, HistoryKept, NEW key \in Keys, NEW e \in IpEntry,
           entries' = Stored(key, e), now' = now,
           NEW g \in Seq(Nat), grants' = [grants EXCEPT ![key] = g],
           RemembersWindow(now, g, e.recent_connects), NEW k \in Keys
    PROVE  RemembersWindow(now', grants'[k], Recent(k)')
  <1>0. Recent(k)' = IF k \in DOMAIN entries' THEN entries'[k].recent_connects ELSE <<>>
    BY DEF Recent
  <1>1. CASE k = key
    <2>0. key \in DOMAIN Stored(key, e) /\ Stored(key, e)[key] = e
      BY StoredTable, Zenon
    <2>1. k \in DOMAIN entries' /\ entries'[k] = e
      BY <1>1, <2>0
    <2>2. grants'[k] = g
      BY <1>1 DEF TypeOK
    <2> QED BY <1>0, <2>1, <2>2
  <1>2. CASE k # key /\ k \in DOMAIN entries'
    <2>1. k \in DOMAIN entries /\ entries'[k] = entries[k]
      BY <1>2, StoredTable, ZenonT(30)
    <2>2. Recent(k)' = Recent(k) /\ grants'[k] = grants[k]
      BY <1>0, <1>2, <2>1 DEF Recent, TypeOK
    <2> QED BY <2>2 DEF HistoryKept
  <1>3. CASE k # key /\ k \notin DOMAIN entries'
    <2>1. k \in DOMAIN entries => Stale(entries[k])
      BY <1>3, StoredTable, Zenon
    <2>2. Recent(k)' = <<>> /\ grants'[k] = grants[k]
      BY <1>0, <1>3 DEF TypeOK
    <2> QED BY <2>1, <2>2, StaleForgettable
  <1> QED BY <1>1, <1>2, <1>3

\* Every step preserves what ties the recent times a source has stored to the
\* admissions it really had.
LEMMA HistoryStep ==
    ASSUME IInv, [Next]_vars
    PROVE  HistoryKept' /\ RateBound'
  <1> USE DEF IInv, Books
  <1>0. now \in Nat /\ MaxPerMinute \in Nat /\ Window \in Nat
    BY AdmissionAssumption DEF TypeOK
  <1>k. Keys' = Keys
    BY DEF Keys
  <1>1. ASSUME grants' = grants, now' = now,
               \A k \in Keys : RemembersWindow(now, grants[k], Recent(k)')
        PROVE  HistoryKept' /\ RateBound'
    BY <1>k, <1>1 DEF HistoryKept, RateBound
  <1>2. ASSUME NEW c \in Conns, NEW ip \in Addrs, RefuseTableFull(c, ip)
        PROVE  HistoryKept' /\ RateBound'
    <2>1. entries' = Swept /\ grants' = grants /\ now' = now
      BY <1>2 DEF RefuseTableFull, Arrive
    <2>2. ASSUME NEW k \in Keys PROVE RemembersWindow(now, grants[k], Recent(k)')
      <3>1. CASE k \in DOMAIN Swept
        <4>1. Recent(k)' = Recent(k)
          BY <2>1, <3>1, SweptSubtable DEF Recent
        <4> QED BY <4>1 DEF HistoryKept
      <3>2. CASE k \notin DOMAIN Swept
        <4>1. Recent(k)' = <<>>
          BY <2>1, <3>2 DEF Recent
        <4>2. k \in DOMAIN entries => Stale(entries[k])
          BY <3>2, SweptSubtable
        <4> QED BY <4>1, <4>2, StaleForgettable
      <3> QED BY <3>1, <3>2
    <2> QED BY <1>1, <2>1, <2>2
  <1>3. ASSUME NEW c \in Conns, NEW ip \in Addrs, RefuseLimit(c, ip)
        PROVE  HistoryKept' /\ RateBound'
    <2> DEFINE key == admission_key(ip)
    <2>1. /\ entries' = Stored(key, EntryFor(key)) /\ grants' = grants /\ now' = now
      BY <1>3 DEF RefuseLimit, Arrive
    <2>2. key \in Keys /\ EntryFor(key) \in IpEntry
      BY KeyOfAddr, EntryForCounts
    <2>3. RemembersWindow(now, grants[key], EntryFor(key).recent_connects)
      BY <2>2, EntryForRemembers
    <2>4. grants[key] \in Seq(Nat) /\ grants' = [grants EXCEPT ![key] = grants[key]]
      BY <2>1, <2>2 DEF TypeOK
    <2>5. ASSUME NEW k \in Keys PROVE RemembersWindow(now, grants[k], Recent(k)')
      BY <2>1, <2>2, <2>3, <2>4, StoredRemembers, Zenon
    <2> QED BY <1>1, <2>1, <2>5
  <1>4. ASSUME NEW c \in Conns, NEW ip \in Addrs, TryAdmit(c, ip)
        PROVE  HistoryKept' /\ RateBound'
    <2> DEFINE key == admission_key(ip)
               e == EntryFor(key)
               g == Append(grants[key], now)
    <2>1. /\ entries' = Stored(key, Granted(e)) /\ now' = now
          /\ grants' = [grants EXCEPT ![key] = g] /\ ~LimitReached(e)
      BY <1>4 DEF TryAdmit, Arrive
    <2>2. key \in Keys /\ e \in IpEntry /\ e.recent_connects \in Seq(Nat)
          /\ grants[key] \in Seq(Nat)
      BY KeyOfAddr, EntryForCounts DEF IpEntry, TypeOK
    <2>3. Granted(e) \in IpEntry
          /\ Granted(e).recent_connects = Append(e.recent_connects, now)
      BY <1>0, <2>2, GrantedEntry
    <2>4. RemembersWindow(now, grants[key], e.recent_connects)
      BY <2>2, EntryForRemembers
    <2>5. RemembersWindow(now, g, Granted(e).recent_connects)
      BY <1>0, <2>2, <2>3, <2>4, GrantRemembers
    <2>6. /\ g \in Seq(Nat) /\ Len(grants[key]) \in Nat
          /\ Len(g) = Len(grants[key]) + 1 /\ g[Len(g)] = now
          /\ \A i \in 1..Len(grants[key]) : g[i] = grants[key][i]
      BY <1>0, <2>2
    <2>d. DOMAIN g = 1..Len(g)
      BY <2>6
    <2>g. /\ grants'[key] = g
          /\ \A k \in Keys : k # key => grants'[k] = grants[k]
      BY <2>1, <2>2 DEF TypeOK
    <2>k. ASSUME NEW k \in Keys PROVE RemembersWindow(now', grants'[k], Recent(k)')
      <3> HIDE DEF e, g
      <3> QED BY <2>1, <2>2, <2>3, <2>5, <2>6, StoredRemembers, ZenonT(30)
    <2> HIDE DEF e, g
    <2>7. HistoryKept'
      <3>1. ASSUME NEW k \in Keys, NEW i \in 1..Len(grants'[k]) PROVE grants'[k][i] <= now'
        <4>1. CASE k = key
          <5>1. i \in 1..Len(g) /\ grants'[k][i] = g[i]
            BY <4>1, <2>g
          <5>2. CASE i = Len(g)
            BY <5>1, <5>2, <2>1, <2>6, <1>0
          <5>3. CASE i # Len(g)
            <6>1. i \in 1..Len(grants[key])
              BY <5>1, <5>3, <2>6
            <6>2. grants[key][i] <= now
              BY <6>1, <2>2 DEF HistoryKept
            <6> QED BY <5>1, <6>1, <6>2, <2>1, <2>6
          <5> QED BY <5>2, <5>3
        <4>2. CASE k # key
          BY <4>2, <2>1, <2>g DEF HistoryKept
        <4> QED BY <4>1, <4>2
      <3> QED BY <1>k, <2>k, <3>1 DEF HistoryKept
    <2>8. RateBound'
      <3> SUFFICES ASSUME MaxPerMinute > 0, NEW k \in Keys, NEW i \in DOMAIN grants'[k],
                          i > MaxPerMinute
                   PROVE  grants'[k][i] - grants'[k][i - MaxPerMinute] > Window
        BY <1>k DEF RateBound
      <3>1. CASE k # key
        BY <3>1, <2>g DEF RateBound
      <3>2. CASE k = key /\ i # Len(g)
        <4>0. i \in 1..Len(g)
          BY <3>2, <2>d, <2>g
        <4> DEFINE n == Len(grants[key])
        <4>n. n \in Nat /\ i \in 1..(n + 1) /\ i # n + 1
          BY <3>2, <4>0, <2>6
        <4>1. i \in 1..n /\ i - MaxPerMinute \in 1..n
          <5> HIDE DEF n
          <5> QED BY <4>n, <1>0
        <4>2. DOMAIN grants[key] = 1..Len(grants[key])
          BY <2>2
        <4>3. g[i] = grants[key][i] /\ g[i - MaxPerMinute] = grants[key][i - MaxPerMinute]
          BY <4>1, <2>6
        <4>4. grants[key][i] - grants[key][i - MaxPerMinute] > Window
          BY <2>2, <4>1, <4>2 DEF RateBound
        <4> QED BY <3>2, <4>3, <4>4, <2>g
      <3>3. CASE k = key /\ i = Len(g)
        <4> DEFINE n == Len(grants[key])
                   m == Len(e.recent_connects)
        <4>1. m < MaxPerMinute /\ m \in Nat
          BY <2>1, <2>2, <1>0 DEF LimitReached
        <4>2. m <= n
          BY <2>4 DEF RemembersWindow
        <4>n. n \in Nat /\ i = n + 1
          BY <3>3, <2>6
        <4>3. i - MaxPerMinute \in 1..(n - m) /\ i - MaxPerMinute \in 1..n
          <5> HIDE DEF n, m
          <5> QED BY <4>n, <4>1, <4>2, <1>0
        <4>4. now - grants[key][i - MaxPerMinute] > Window
          BY <4>3, <2>4, ZenonT(30) DEF RemembersWindow
        <4> QED BY <3>3, <4>3, <4>4, <2>6, <2>g
      <3> QED BY <3>1, <3>2, <3>3
    <2> QED BY <2>7, <2>8
  <1>5. ASSUME NEW c \in Conns, Abandon(c) \/ DropSession(c)
        PROVE  HistoryKept' /\ RateBound'
    <2> DEFINE key == admission_key(addr[c])
    <2>1. /\ pc[c] \in HoldsSlot /\ entries' = Released(key)
          /\ grants' = grants /\ now' = now
      BY <1>5 DEF Abandon, DropSession, HoldsSlot
    <2>2. key \in DOMAIN entries /\ entries[key].active > 0
      BY <2>1, HolderCounted
    <2>3. ASSUME NEW k \in Keys PROVE Recent(k)' = Recent(k)
      BY <2>1, <2>2, ReleasedTable DEF Recent
    <2> QED BY <1>1, <2>1, <2>3 DEF HistoryKept
  <1>6. CASE Tick
    <2>1. now' = now + 1 /\ entries' = entries /\ grants' = grants
      BY <1>6 DEF Tick
    <2>2. ASSUME NEW k \in Keys
          PROVE  /\ RemembersWindow(now + 1, grants[k], Recent(k))
                 /\ \A i \in 1..Len(grants[k]) : grants[k][i] <= now + 1
      <3>1. /\ RemembersWindow(now, grants[k], Recent(k))
            /\ \A i \in 1..Len(grants[k]) : grants[k][i] <= now
            /\ Recent(k) \in Seq(Nat) /\ grants[k] \in Seq(Nat)
        BY RecentType DEF HistoryKept
      <3> DEFINE g == grants[k]
                 r == Recent(k)
      <3>2. /\ Len(g) \in Nat /\ Len(r) \in Nat /\ Len(r) <= Len(g)
            /\ \A i \in 1..Len(g) : g[i] \in Nat
        BY <3>1 DEF RemembersWindow
      <3>3. ASSUME NEW i \in 1..(Len(g) - Len(r)) PROVE (now + 1) - g[i] > Window
        <4>1. i \in 1..Len(g)
          <5> HIDE DEF g, r
          <5> QED BY <3>2
        <4>2. g[i] \in Nat /\ now - g[i] > Window
          BY <4>1, <3>1, <3>2 DEF RemembersWindow
        <4> HIDE DEF g, r
        <4> QED BY <4>2, <1>0
      <3>4. RemembersWindow(now + 1, g, r)
        <4>1. /\ Len(r) <= Len(g)
              /\ \A i \in 1..Len(r) : r[i] = g[Len(g) - Len(r) + i]
          BY <3>1 DEF RemembersWindow
        <4> HIDE DEF g, r
        <4> QED BY <4>1, <3>3 DEF RemembersWindow
      <3>5. ASSUME NEW i \in 1..Len(g) PROVE g[i] <= now + 1
        <4>1. g[i] \in Nat /\ g[i] <= now
          BY <3>1, <3>2
        <4> HIDE DEF g
        <4> QED BY <4>1, <1>0
      <3> QED BY <3>4, <3>5
    <2>3. \A k \in Keys : Recent(k)' = Recent(k)
      BY <2>1 DEF Recent
    <2> QED BY <1>k, <2>1, <2>2, <2>3 DEF HistoryKept, RateBound
  <1>7. CASE UNCHANGED <<now, entries, grants>>
    BY <1>1, <1>7 DEF HistoryKept, Recent
  <1> QED BY <1>2, <1>3, <1>4, <1>5, <1>6, <1>7
          DEF Next, vars, TryAcquire, Provision, RecorderFails, DropPermit, DropRejected

(***************************************************************************)
(* The theorems.                                                           *)
(***************************************************************************)

\* The inductive invariant holds of every reachable state of the guard, the
\* semaphore and the connections of new_client and Drop.
THEOREM Inductive == Spec => []IInv
  <1>1. Init => IInv
    <2> SUFFICES ASSUME Init PROVE IInv
      OBVIOUS
    <2>1. TypeOK
      BY AdmissionAssumption DEF Init, TypeOK, PermitPool, Labels
    <2>2. AddrKnown /\ ActiveCap
      BY DEF Init, AddrKnown, ActiveCap
    <2>3. Books
      <3>1. PermitHolders = {} /\ \A k \in Keys : SlotHolders(k) = {}
        BY DEF Init, PermitHolders, SlotHolders, HoldsSlot, HoldsPermit
      <3>2. Cardinality({}) = 0
        BY FS_EmptySet
      <3>3. PermitPool \in Nat
        BY AdmissionAssumption DEF PermitPool
      <3>4. PermitAccounting
        BY <3>1, <3>2, <3>3 DEF Init, PermitAccounting
      <3>5. \A k \in Keys : ActiveCount(k) = 0
        BY DEF Init, ActiveCount
      <3>6. SlotAccounting
        BY <3>1, <3>2, <3>5 DEF SlotAccounting
      <3> QED BY <3>4, <3>6 DEF Books
    <2>4. TableFinite
      <3>1. DOMAIN entries = {}
        BY DEF Init
      <3> QED BY <3>1, FS_EmptySet, AdmissionAssumption DEF TableFinite, TableBound
    <2>5. HistoryKept /\ RateBound
      <3>1. \A k \in Keys : grants[k] = <<>> /\ Recent(k) = <<>>
        BY DEF Init, Recent
      <3>2. RemembersWindow(now, <<>>, <<>>)
        BY DEF RemembersWindow
      <3>3. Len(<<>>) = 0 /\ DOMAIN <<>> = {} /\ 1..0 = {}
        OBVIOUS
      <3>4. HistoryKept
        BY <3>1, <3>2, <3>3, Zenon DEF HistoryKept
      <3>5. RateBound
        BY <3>1, <3>3, Zenon DEF RateBound
      <3> QED BY <3>4, <3>5
    <2> QED BY <2>1, <2>2, <2>3, <2>4, <2>5 DEF IInv
  <1>2. IInv /\ [Next]_vars => IInv'
    <2> SUFFICES ASSUME IInv, [Next]_vars PROVE IInv'
      OBVIOUS
    <2>1. TypeOK' /\ AddrKnown'
      BY TypeStep DEF IInv
    <2>2. Books'
      BY SlotStep, PermitStep DEF IInv, Books
    <2>3. ActiveCap' /\ TableFinite'
      BY TableStep
    <2>4. HistoryKept' /\ RateBound'
      BY HistoryStep
    <2> QED BY <2>1, <2>2, <2>3, <2>4 DEF IInv
  <1> QED BY <1>1, <1>2, PTL DEF Spec

\* Every variable keeps the type its Rust declaration gives it.
THEOREM TypeCorrect == Spec => []TypeOK
  <1>1. IInv => TypeOK
    BY DEF IInv
  <1> QED BY <1>1, Inductive, PTL

\* The guard's count of a source is the number of connections that still owe
\* it a release, on every path through new_client and Drop.
THEOREM SlotsBalance == Spec => []SlotAccounting
  <1>1. IInv => SlotAccounting
    BY DEF IInv, Books
  <1> QED BY <1>1, Inductive, PTL

\* Permits of the session semaphore are conserved on every path.
THEOREM PermitsBalance == Spec => []PermitAccounting
  <1>1. IInv => PermitAccounting
    BY DEF IInv, Books
  <1> QED BY <1>1, Inductive, PTL

\* The sources tracked never exceed MAX_TRACKED_PREFIXES.
THEOREM TableBounded == Spec => []TableBound
  <1>1. IInv => TableBound
    BY DEF IInv, TableFinite
  <1> QED BY <1>1, Inductive, PTL

\* No window holds more grants to one source than the configured rate, over
\* any interleaving of grants, refusals, releases and sweeps.
THEOREM RateBounded == Spec => []RateBound
  <1>1. IInv => RateBound
    BY DEF IInv
  <1> QED BY <1>1, Inductive, PTL

\* Addresses of one prefix are accounted under one key of admission_key.
LEMMA PrefixKey ==
    ASSUME NEW a \in Addrs, NEW b \in Addrs, SamePrefix(a, b)
    PROVE  admission_key(a) = admission_key(b)
  <1>1. /\ a \in [fam : Families, net : Nat, host : Nat]
        /\ b \in [fam : Families, net : Nat, host : Nat]
    BY AdmissionAssumption
  <1> QED BY <1>1 DEF SamePrefix, admission_key, Families

\* The connections of one IPv4 address or one IPv6 /64 stay within the cap.
THEOREM SourcesCapped == Spec => []SourceCap
  <1>1. IInv => SourceCap
    <2> SUFFICES ASSUME IInv, MaxPerIp > 0, NEW ip \in Addrs
                 PROVE  Cardinality({c \in Conns : /\ pc[c] \in HoldsSlot
                                                   /\ SamePrefix(addr[c], ip)}) <= MaxPerIp
      BY DEF SourceCap
    <2> DEFINE k == admission_key(ip)
               S == {c \in Conns : pc[c] \in HoldsSlot /\ SamePrefix(addr[c], ip)}
    <2>1. S \subseteq SlotHolders(k)
      BY PrefixKey DEF IInv, AddrKnown, HoldsSlot, SlotHolders
    <2>2. IsFiniteSet(SlotHolders(k))
      BY SlotHoldersFinite
    <2>3. /\ Cardinality(S) \in Nat /\ Cardinality(SlotHolders(k)) \in Nat
          /\ Cardinality(S) <= Cardinality(SlotHolders(k))
      <3> HIDE DEF S, k
      <3>1. IsFiniteSet(S) /\ Cardinality(S) <= Cardinality(SlotHolders(k))
        BY <2>1, <2>2, FS_Subset
      <3> QED BY <2>2, <3>1, FS_CardinalityType
    <2>4. Cardinality(SlotHolders(k)) <= MaxPerIp
      BY KeyOfAddr, AdmissionAssumption
         DEF IInv, Books, SlotAccounting, ActiveCount, ActiveCap
    <2> QED BY <2>3, <2>4, AdmissionAssumption
  <1> QED BY <1>1, Inductive, PTL

\* An entry leaves the table, in a sweep or in release, only when nobody
\* holds a slot of its source and its whole grant history has expired.
THEOREM ForgetsNothing == Spec => ForgetsOnlyDrained
  <1> DEFINE Drained(k) == /\ SlotHolders(k)' = {}
                           /\ \A i \in DOMAIN grants[k] : Expired(grants[k][i])
  <1>1. ASSUME IInv, IInv', [Next]_vars, NEW k \in DOMAIN entries \ DOMAIN entries'
        PROVE  Drained(k)
    <2>0. k \in Keys
      BY <1>1 DEF IInv, TypeOK
    <2>1. SlotHolders(k)' = {}
      <3>1. Cardinality(SlotHolders(k)') = 0
        BY <1>1, <2>0 DEF IInv, Books, SlotAccounting, ActiveCount, Keys
      <3>2. IsFiniteSet(SlotHolders(k)')
        BY FS_Subset, AdmissionAssumption DEF SlotHolders
      <3> QED BY <3>1, <3>2, FS_EmptySet
    <2>2. RemembersWindow(now, grants[k], <<>>)
      <3>1. Stale(entries[k]) \/ entries[k].recent_connects = <<>>
        <4>1. ASSUME NEW c \in Conns, NEW ip \in Addrs,
                     RefuseTableFull(c, ip) \/ RefuseLimit(c, ip) \/ TryAdmit(c, ip)
              PROVE  Stale(entries[k])
          <5>1. k \notin DOMAIN Swept
            BY <1>1, <4>1 DEF RefuseTableFull, RefuseLimit, TryAdmit, Stored
          <5> QED BY <1>1, <5>1, SweptSubtable DEF IInv
        <4>2. ASSUME NEW c \in Conns, Abandon(c) \/ DropSession(c)
              PROVE  entries[k].recent_connects = <<>>
          BY <1>1, <4>2 DEF Abandon, DropSession, Released, IInv, TypeOK
        <4>3. CASE UNCHANGED entries
          BY <1>1, <4>3
        <4> QED BY <1>1, <4>1, <4>2, <4>3, Zenon
                DEF Next, vars, TryAcquire, Provision, RecorderFails, DropPermit,
                    DropRejected, Tick
      <3>2. CASE Stale(entries[k])
        BY <1>1, <2>0, <3>2, StaleForgettable DEF IInv
      <3>3. CASE entries[k].recent_connects = <<>>
        BY <1>1, <2>0, <3>3 DEF IInv, HistoryKept, Recent
      <3> QED BY <3>1, <3>2, <3>3
    <2>3. grants[k] \in Seq(Nat)
      BY <1>1, <2>0 DEF IInv, TypeOK
    <2>4. \A i \in DOMAIN grants[k] : Expired(grants[k][i])
      BY <2>2, <2>3 DEF RemembersWindow, Expired
    <2> QED BY <2>1, <2>4
  <1>2. IInv /\ IInv' /\ [Next]_vars
          => [\A k \in DOMAIN entries \ DOMAIN entries' : Drained(k)]_vars
    BY <1>1
  <1> QED BY <1>2, Inductive, PTL DEF Spec, ForgetsOnlyDrained

(***************************************************************************)
(* Refusals.                                                               *)
(***************************************************************************)

\* Grants are recorded in the order of time.
GrantsInOrder ==
    \A k \in Keys : \A i, j \in 1..Len(grants[k]) : i <= j => grants[k][i] <= grants[k][j]

\* A grant is stamped with a clock that does not go back.
LEMMA OrderKept ==
    ASSUME IInv, GrantsInOrder, [Next]_vars
    PROVE  GrantsInOrder'
  <1>k. Keys' = Keys
    BY DEF Keys
  <1>1. CASE grants' = grants
    BY <1>k, <1>1 DEF GrantsInOrder
  <1>2. ASSUME NEW c \in Conns, NEW ip \in Addrs, TryAdmit(c, ip)
        PROVE  GrantsInOrder'
    <2> DEFINE key == admission_key(ip)
    <2>1. grants' = [grants EXCEPT ![key] = Append(@, now)]
      BY <1>2, Zenon DEF TryAdmit
    <2>2. key \in Keys /\ grants \in [Keys -> Seq(Nat)] /\ now \in Nat
      BY KeyOfAddr DEF IInv, TypeOK
    <2> HIDE DEF key
    <2> DEFINE g == grants[key]
               n == Len(g)
    <2>3. /\ g \in Seq(Nat) /\ n \in Nat /\ \A i \in 1..n : g[i] \in Nat /\ g[i] <= now
      BY <2>2 DEF IInv, HistoryKept
    <2>4. \A k \in Keys : k # key => grants'[k] = grants[k]
      BY <2>1, <2>2
    <2>5. /\ Len(grants'[key]) = n + 1 /\ grants'[key][n + 1] = now
          /\ \A i \in 1..n : grants'[key][i] = g[i]
      <3>1. grants'[key] = Append(g, now)
        BY <2>1, <2>2
      <3> HIDE DEF g
      <3> QED BY <2>2, <2>3, <3>1
    <2>6. ASSUME NEW i \in 1..(n + 1), NEW j \in 1..(n + 1), i <= j
          PROVE  grants'[key][i] <= grants'[key][j]
      <3> HIDE DEF g
      <3>1. CASE j \in 1..n
        <4>1. i \in 1..n
          BY <2>3, <2>6, <3>1
        <4>2. g[i] <= g[j]
          BY <2>2, <2>6, <3>1, <4>1 DEF GrantsInOrder, g
        <4> QED BY <2>5, <3>1, <4>1, <4>2
      <3>2. CASE j = n + 1
        <4>1. i \in 1..n \/ i = n + 1
          BY <2>3
        <4> QED BY <2>2, <2>3, <2>5, <3>2, <4>1
      <3> QED BY <2>3, <3>1, <3>2
    <2> HIDE DEF g
    <2> QED BY <1>k, <2>4, <2>5, <2>6, Zenon DEF GrantsInOrder
  <1> QED BY <1>1, <1>2, Zenon
          DEF Next, vars, RefuseTableFull, RefuseLimit, TryAcquire, Provision, RecorderFails,
              Abandon, DropSession, DropPermit, DropRejected, Tick

\* The queue try_admit counts holds no timestamp that has left the window: it
\* is pruned at the front only, but times only grow from there.
LEMMA QueueIsLive ==
    ASSUME IInv, GrantsInOrder, NEW key \in Keys
    PROVE  LET g == grants[key]
               r == EntryFor(key).recent_connects
           IN  /\ Len(g) \in Nat /\ Len(r) \in Nat /\ Len(r) <= Len(g)
               /\ \A i \in (Len(g) - Len(r) + 1)..Len(g) : ~Expired(g[i])
  <1> DEFINE g == grants[key]
             r == EntryFor(key).recent_connects
  <1>1. /\ g \in Seq(Nat) /\ Len(g) \in Nat /\ now \in Nat /\ Window \in Nat
        /\ \A i \in 1..Len(g) : g[i] \in Nat
    BY AdmissionAssumption DEF IInv, TypeOK
  <1>2. r \in Seq(Nat) /\ Len(r) \in Nat
    BY EntryForCounts DEF IInv, IpEntry
  <1>3. RemembersWindow(now, g, r)
    BY EntryForRemembers DEF IInv
  <1>4. Len(r) > 0 => ~Expired(r[1])
    <2>1. CASE key \in DOMAIN Swept
      <3>1. Swept[key] = entries[key] /\ key \in DOMAIN entries
        BY <2>1, SweptSubtable DEF IInv
      <3>2. r = Pruned(Recent(key)) /\ Recent(key) \in Seq(Nat)
        BY <2>1, <3>1, RecentType DEF EntryFor, Recent, IInv
      <3> DEFINE q == Recent(key)
      <3> HIDE DEF q, r
      <3>3. PICK d \in 0..Len(q) :
              /\ Len(Pruned(q)) = Len(q) - d
              /\ \A i \in 1..(Len(q) - d) : Pruned(q)[i] = q[d + i]
              /\ d < Len(q) => ~Expired(q[d + 1])
        BY <3>2, PrunedSuffix, Zenon DEF q
      <3>4. r = Pruned(q)
        BY <3>2 DEF q
      <3>5. Len(q) \in Nat
        BY <3>2 DEF q
      <3>6. Len(r) > 0 => d < Len(q) /\ 1 \in 1..(Len(q) - d)
        BY <3>3, <3>4, <3>5
      <3> QED BY <3>3, <3>4, <3>6
    <2>2. CASE key \notin DOMAIN Swept
      <3>1. r = <<>>
        BY <2>2 DEF EntryFor
      <3> QED BY <3>1
    <2> QED BY <2>1, <2>2
  <1>5. /\ Len(r) <= Len(g)
        /\ \A i \in 1..Len(r) : r[i] = g[Len(g) - Len(r) + i]
    BY <1>3, Zenon DEF RemembersWindow
  <1>6. \A i, j \in 1..Len(g) : i <= j => g[i] <= g[j]
    BY DEF GrantsInOrder
  <1> HIDE DEF g, r
  <1>7. ASSUME NEW i \in (Len(g) - Len(r) + 1)..Len(g)
        PROVE  ~Expired(g[i])
    <2> DEFINE f == Len(g) - Len(r) + 1
    <2>1. Len(r) > 0 /\ f \in 1..Len(g) /\ i \in 1..Len(g) /\ f <= i /\ 1 \in 1..Len(r)
      BY <1>1, <1>2, <1>5
    <2>2. r[1] = g[f]
      BY <1>5, <2>1
    <2>3. ~Expired(g[f]) /\ g[f] <= g[i] /\ g[f] \in Nat /\ g[i] \in Nat
      BY <1>1, <1>4, <1>6, <2>1, <2>2
    <2> HIDE DEF f
    <2> QED BY <1>1, <2>3 DEF Expired
  <1> QED BY <1>1, <1>2, <1>5, <1>7 DEF g, r

\* NoSpuriousRefusal: try_admit turns a connection away only for a limit its
\* source has really reached, or an unknown one when the table is full.
THEOREM RefusalsJustified == Spec => NoSpuriousRefusal
  <1> DEFINE Justified(k) ==
               \/ MaxPerIp > 0 /\ Cardinality(SlotHolders(k)) >= MaxPerIp
               \/ /\ MaxPerMinute > 0
                  /\ Cardinality({i \in DOMAIN grants[k] : ~Expired(grants[k][i])}) >= MaxPerMinute
               \/ k \notin DOMAIN entries /\ Cardinality(DOMAIN entries) >= MaxTracked
  <1>1. ASSUME IInv, NEW key \in Keys, TableFull(key)
        PROVE  Justified(key)
    <2> DEFINE D == DOMAIN entries
               S == DOMAIN Swept
    <2>1. /\ IsFiniteSet(D) /\ Cardinality(D) <= MaxTracked /\ MaxTracked \in Nat
          /\ S \in SUBSET D /\ key \notin S /\ Cardinality(S) >= MaxTracked
      BY <1>1, SweptSubtable, AdmissionAssumption DEF IInv, TableFinite, TableBound, TableFull
    <2> HIDE DEF D, S
    <2>2. /\ IsFiniteSet(S) /\ Cardinality(S) <= Cardinality(D)
          /\ Cardinality(D) = Cardinality(S) => D = S
      BY <2>1, FS_Subset, Zenon
    <2>3. Cardinality(S) \in Nat /\ Cardinality(D) \in Nat
      BY <2>1, <2>2, FS_CardinalityType
    <2>4. Cardinality(D) >= MaxTracked /\ Cardinality(D) = Cardinality(S)
      BY <2>1, <2>2, <2>3
    <2> QED BY <2>1, <2>2, <2>4, Zenon DEF D
  <1>2. ASSUME IInv, GrantsInOrder, NEW key \in Keys, LimitReached(EntryFor(key))
        PROVE  Justified(key)
    <2>1. CASE MaxPerIp > 0 /\ EntryFor(key).active >= MaxPerIp
      <3>1. EntryFor(key).active = Cardinality(SlotHolders(key))
        BY <1>2, EntryForCounts DEF IInv, Books, SlotAccounting
      <3> QED BY <2>1, <3>1, Zenon
    <2>2. CASE MaxPerMinute > 0 /\ Len(EntryFor(key).recent_connects) >= MaxPerMinute
      <3> DEFINE g == grants[key]
                 r == EntryFor(key).recent_connects
                 L == {i \in DOMAIN g : ~Expired(g[i])}
                 I == (Len(g) - Len(r) + 1)..Len(g)
      <3>1. /\ Len(g) \in Nat /\ Len(r) \in Nat /\ Len(r) <= Len(g)
            /\ \A i \in I : ~Expired(g[i])
        BY <1>2, QueueIsLive, Zenon
      <3>2. DOMAIN g = 1..Len(g)
        BY <1>2 DEF IInv, TypeOK
      <3> HIDE DEF g, r
      <3>3. I \in SUBSET L
        BY <3>1, <3>2
      <3>4. IsFiniteSet(L)
        <4>1. 1 \in Int /\ Len(g) \in Int /\ L \in SUBSET (1..Len(g))
          BY <3>1, <3>2
        <4>2. IsFiniteSet(1..Len(g))
          BY <4>1, FS_Interval, Zenon
        <4> HIDE DEF L
        <4> QED BY <4>1, <4>2, FS_Subset, Zenon
      <3>5. Cardinality(I) = Len(r)
        <4>1. /\ Len(g) - Len(r) + 1 \in Int /\ Len(g) \in Int
          BY <3>1
        <4>2. Cardinality(I) = IF Len(g) - Len(r) + 1 > Len(g) THEN 0
                               ELSE Len(g) - (Len(g) - Len(r) + 1) + 1
          BY <4>1, FS_Interval, Zenon
        <4> QED BY <3>1, <4>2
      <3> HIDE DEF L, I
      <3>6. Cardinality(I) <= Cardinality(L)
        BY <3>3, <3>4, FS_Subset, Zenon
      <3>7. Cardinality(L) \in Nat
        BY <3>4, FS_CardinalityType
      <3>8. Cardinality(L) >= MaxPerMinute
        BY <2>2, <3>1, <3>5, <3>6, <3>7, AdmissionAssumption DEF r
      <3> QED BY <2>2, <3>8, Zenon DEF L, g
    <2> QED BY <1>2, <2>1, <2>2, Zenon DEF LimitReached
  <1>3. ASSUME IInv, GrantsInOrder, [Next]_vars, NEW c \in Conns, pc[c] = "idle", pc'[c] = "rejected"
        PROVE  \E k : k = admission_key(addr'[c]) /\ Justified(k)
    <2>0. pc \in [Conns -> Labels] /\ addr \in [Conns -> Addrs \cup {NoAddr}]
      BY <1>3 DEF IInv, TypeOK
    <2>1. PICK ip \in Addrs : (RefuseTableFull(c, ip) \/ RefuseLimit(c, ip))
      <3>1. ASSUME NEW d \in Conns, NEW ip \in Addrs, TryAdmit(d, ip) PROVE FALSE
        BY <1>3, <2>0, <3>1 DEF TryAdmit, Goto
      <3>2. ASSUME NEW d \in Conns, NEW ip \in Addrs,
                   RefuseTableFull(d, ip) \/ RefuseLimit(d, ip)
            PROVE  d = c
        BY <1>3, <2>0, <3>2 DEF RefuseTableFull, RefuseLimit, Goto
      <3>3. ASSUME NEW d \in Conns,
                   \/ TryAcquire(d) \/ Provision(d) \/ RecorderFails(d) \/ Abandon(d)
                   \/ DropSession(d) \/ DropPermit(d) \/ DropRejected(d)
            PROVE  FALSE
        BY <1>3, <2>0, <3>3 DEF TryAcquire, Provision, RecorderFails, Abandon, DropSession,
                                DropPermit, DropRejected, Goto
      <3>4. pc' # pc
        BY <1>3
      <3> QED BY <1>3, <3>1, <3>2, <3>3, <3>4, ZenonT(30) DEF Next, Tick, vars
    <2>2. addr'[c] = ip /\ admission_key(ip) \in Keys
      BY <2>0, <2>1, KeyOfAddr DEF RefuseTableFull, RefuseLimit, Arrive
    <2> QED BY <1>1, <1>2, <1>3, <2>1, <2>2, Zenon DEF RefuseTableFull, RefuseLimit
  <1>4. IInv /\ GrantsInOrder /\ [Next]_vars
          => [\A c \in Conns : pc[c] = "idle" /\ pc'[c] = "rejected" =>
                LET k == admission_key(addr'[c]) IN Justified(k)]_vars
    BY <1>3, ZenonT(30)
  <1>5. Init => GrantsInOrder
    BY DEF Init, GrantsInOrder
  <1>6. IInv /\ GrantsInOrder /\ [Next]_vars => GrantsInOrder'
    BY OrderKept
  <1> QED BY <1>4, <1>5, <1>6, Inductive, PTL DEF Spec, NoSpuriousRefusal

-----------------------------------------------------------------------------
(* The start *)

Phases == {"down", "dirs", "golden", "secret", "create", "fill", "mode", "up"}

\* A process that is creating a secret owns a file nothing was served out of
\* yet, and knows how far the file has got.
Creating(p) ==
    /\ path[p] \in SecretFiles
    /\ served[path[p]] = {}
    /\ secret[p] > Torn
    /\ phase[p] = "create" => file[path[p]] = Absent
    /\ phase[p] = "fill" => file[path[p]] = Torn
    /\ phase[p] = "mode" => file[path[p]] = secret[p]

SecretTypes ==
    /\ phase \in [Procs -> Phases]
    /\ DOMAIN path = Procs
    /\ \A p \in Procs : path[p] \in Paths(p) \cup {NoPath}
    /\ secret \in [Procs -> Nat]
    /\ file \in [SecretFiles -> Nat]
    /\ issued \in Nat
    /\ served \in [SecretFiles -> SUBSET Nat]

SecretInv ==
    /\ SecretTypes
    /\ \A p \in Procs : phase[p] \in {"create", "fill", "mode"} => Creating(p)
    /\ \A q \in SecretFiles : file[q] = Absent => served[q] = {}
    /\ SecretsStable

\* A session with a root, or one whose root is just being made.
Rooted == {s \in Sessions : conn[s] \in {"layer", "lower"}}
Making == {s \in Sessions : conn[s] = "making"}

TreeTypes ==
    /\ phase \in [Procs -> Phases]
    /\ golden \in [1..Golden -> {"absent", "torn", "whole", "changed"}]
    /\ at \in 0..(Golden + 1)
    /\ conn \in [Sessions -> {"new", "making", "layer", "lower", "none", "gone"}]
    /\ hurt \in [Sessions -> SUBSET (1..Golden)]

TreeInv ==
    /\ TreeTypes
    /\ open => at \in 1..Golden
    /\ phase["gateway"] \notin {"golden", "up"} => at = 0
    /\ phase["gateway"] # "up" => Rooted \cup Making = {}
    \* What the provisioning has passed is whole, or was damaged again.
    /\ \A s \in Making : \A f \in 1..Golden : f < at => golden[f] = "whole" \/ f \in hurt[s]
    \* A file changed since it was truncated counts as damaged.
    /\ \A s \in Rooted \cup Making : open /\ golden[at] = "changed" => at \in hurt[s]
    /\ LowerLayerWhole

-----------------------------------------------------------------------------
(* The secrets *)

\* The key file of the gateway and the token file of the dashboard are not the
\* same: what one process writes is not what the other is creating.
LEMMA FilesApart ==
    ASSUME SecretTypes, NEW p \in Procs, NEW r \in Procs, p # r,
           path[p] \in SecretFiles, path[r] \in SecretFiles
    PROVE  path[p] # path[r]
  BY StartupAssumption DEF SecretTypes, Procs, Paths, SecretFiles

\* A step of p that leaves files and what was served alone, and after which p is
\* not creating, keeps the invariant: every death and failure, and the parts of
\* a start that have nothing to do with secrets.
LEMMA SecretsUntouched ==
    ASSUME SecretInv, NEW p \in Procs, UNCHANGED secrets,
           NEW ph \in Phases \ {"create", "fill", "mode"},
           phase' = [phase EXCEPT ![p] = ph]
    PROVE  SecretInv'
  <1>1. SecretTypes'
    BY DEF SecretInv, SecretTypes, secrets
  <1>2. \A r \in Procs : phase'[r] \in {"create", "fill", "mode"} => Creating(r)'
    BY DEF SecretInv, SecretTypes, secrets, Creating
  <1> QED BY <1>1, <1>2 DEF SecretInv, secrets, SecretsStable

\* A process that serves the secret its file holds, and that no other was served
\* out of, keeps the invariant.
LEMMA ServesKeeps ==
    ASSUME SecretInv, NEW p \in Procs, NEW v \in Nat,
           path[p] \in SecretFiles, file[path[p]] = v, v # Absent,
           Serves(p, v), UNCHANGED <<path, file, issued>>
    PROVE  SecretInv'
  <1>1. path[p] # NoPath
    BY DEF SecretFiles
  <1>2. served' = [served EXCEPT ![path[p]] = @ \cup {v}]
    BY <1>1 DEF Serves
  <1>3. SecretTypes'
    BY <1>2 DEF SecretInv, SecretTypes, Serves, Phases
  <1>4. ASSUME NEW r \in Procs, phase'[r] \in {"create", "fill", "mode"}
        PROVE  Creating(r)'
    <2>1. r # p /\ phase'[r] = phase[r] /\ secret'[r] = secret[r]
      BY <1>4 DEF SecretInv, SecretTypes, Serves
    <2>2. Creating(r)
      BY <1>4, <2>1 DEF SecretInv
    <2>3. path[r] # path[p]
      BY <2>1, <2>2, FilesApart, ZenonT(30) DEF SecretInv, Creating
    <2> QED BY <1>2, <2>1, <2>2, <2>3, ZenonT(30) DEF Creating, SecretInv, SecretTypes
  <1>5. SecretsStable'
    <2> SUFFICES ASSUME NEW q \in SecretFiles, served'[q] # {}
                 PROVE  served'[q] = {file'[q]}
      BY DEF SecretsStable
    <2>1. CASE q = path[p]
      <3>1. served'[q] = served[q] \cup {v}
        BY <1>2, <2>1 DEF SecretInv, SecretTypes
      <3>2. served[q] = {} \/ served[q] = {v}
        BY <2>1 DEF SecretInv, SecretsStable
      <3> QED BY <3>1, <3>2, <2>1
    <2>2. CASE q # path[p]
      BY <1>2, <2>2 DEF SecretInv, SecretTypes, SecretsStable
    <2> QED BY <2>1, <2>2
  <1>6. \A q \in SecretFiles : file'[q] = Absent => served'[q] = {}
    BY <1>2 DEF SecretInv, SecretTypes
  <1> QED BY <1>3, <1>4, <1>5, <1>6, ZenonT(30) DEF SecretInv

\* A fresh secret for a file that is not there yet.
LEMMA CreateKeeps ==
    ASSUME SecretInv, NEW p \in Procs, path[p] # NoPath, Create(p), UNCHANGED <<path, file>>
    PROVE  SecretInv'
  <1>1. path[p] \in SecretFiles /\ Secret(issued) \in Nat /\ Secret(issued) > Torn
    BY DEF SecretInv, SecretTypes, SecretFiles, Paths, Secret, Torn
  <1>2. SecretTypes'
    BY <1>1 DEF SecretInv, SecretTypes, Create, Generate, Phases
  <1>3. ASSUME NEW r \in Procs, phase'[r] \in {"create", "fill", "mode"}
        PROVE  Creating(r)'
    <2>1. CASE r = p
      BY <1>1, <2>1 DEF SecretInv, SecretTypes, Create, Generate, Creating
    <2>2. CASE r # p
      BY <1>3, <2>2 DEF SecretInv, SecretTypes, Create, Generate, Creating
    <2> QED BY <2>1, <2>2
  <1> QED BY <1>2, <1>3 DEF SecretInv, SecretsStable, Create

\* No secret file at all: nothing that counts is served.
LEMMA EphemeralKeeps ==
    ASSUME SecretInv, NEW p \in Procs, Ephemeral(p), UNCHANGED <<path, file>>
    PROVE  SecretInv'
  <1>1. Secret(issued) \in Nat
    BY DEF SecretInv, SecretTypes, Secret
  <1>2. SecretTypes'
    BY <1>1 DEF SecretInv, SecretTypes, Ephemeral, Generate, Phases
  <1>3. \A r \in Procs : phase'[r] \in {"create", "fill", "mode"} => Creating(r)'
    BY DEF SecretInv, SecretTypes, Ephemeral, Generate, Creating
  <1> QED BY <1>2, <1>3 DEF SecretInv, SecretsStable, Ephemeral

\* One call of fs::write: the file of a process that is creating changes, and
\* no other.
LEMMA WriteKeeps ==
    ASSUME SecretInv, NEW p \in Procs, UNCHANGED <<path, secret, issued, served>>,
           \/ OpenSecret(p)
           \/ /\ phase[p] = "fill"
              /\ file' = [file EXCEPT ![path[p]] = secret[p]]
              /\ phase' = [phase EXCEPT ![p] = "mode"]
    PROVE  SecretInv'
  <1>1. Creating(p)
    BY DEF SecretInv, OpenSecret
  <1>2. PICK v \in Nat \ {Absent} : file' = [file EXCEPT ![path[p]] = v]
    BY <1>1 DEF OpenSecret, SecretInv, SecretTypes, Creating, Torn, Absent
  <1>3. SecretTypes'
    BY <1>2, ZenonT(30) DEF SecretInv, SecretTypes, OpenSecret, Phases
  <1>4. ASSUME NEW r \in Procs, phase'[r] \in {"create", "fill", "mode"}
        PROVE  Creating(r)'
    <2>1. CASE r = p
      BY <1>1, <2>1 DEF Creating, OpenSecret, SecretInv, SecretTypes
    <2>2. CASE r # p
      <3>1. Creating(r) /\ phase'[r] = phase[r]
        BY <1>4, <2>2 DEF SecretInv, SecretTypes, OpenSecret
      <3>2. path[r] # path[p]
        BY <3>1, <1>1, <2>2, FilesApart DEF SecretInv, Creating
      <3> QED BY <1>2, <3>1, <3>2 DEF Creating, SecretInv, SecretTypes
    <2> QED BY <2>1, <2>2
  <1>5. \A q \in SecretFiles : file'[q] = Absent => served'[q] = {}
    BY <1>2 DEF SecretInv, SecretTypes
  <1>6. SecretsStable'
    BY <1>1, <1>2 DEF SecretInv, SecretTypes, SecretsStable, Creating
  <1> QED BY <1>3, <1>4, <1>5, <1>6, ZenonT(30) DEF SecretInv

\* One step of either process, or of a session, keeps the invariant.
LEMMA SecretInvStep ==
    ASSUME SecretInv, [StartupNext]_startup
    PROVE  SecretInv'
  <1> USE DEF Procs
  <1>0. "down" \in Phases \ {"create", "fill", "mode"}
        /\ "dirs" \in Phases \ {"create", "fill", "mode"}
        /\ "golden" \in Phases \ {"create", "fill", "mode"}
        /\ "secret" \in Phases \ {"create", "fill", "mode"}
    BY DEF Phases
  \* Sessions and the provisioning of the rootfs leave the secrets alone.
  <1>1. ASSUME UNCHANGED <<phase, secrets>>
        PROVE  SecretInv'
    BY <1>1 DEF SecretInv, SecretTypes, SecretsStable, Creating, secrets
  <1>2. ASSUME NEW p \in Procs, Ends(p), UNCHANGED secrets
        PROVE  SecretInv'
    <2>1. phase' = [phase EXCEPT ![p] = "down"]
      BY <1>2 DEF Ends
    <2> QED BY <1>0, <1>2, <2>1, SecretsUntouched, Zenon
  <1>3. ASSUME NEW p \in Procs, Start(p)
        PROVE  SecretInv'
    <2>1. PICK q \in Paths(p) : path' = [path EXCEPT ![p] = q]
      BY <1>3, ZenonT(30) DEF Start
    <2>2. SecretTypes'
      BY <1>3, <2>1 DEF Start, SecretInv, SecretTypes, Phases
    <2>3. \A r \in Procs : phase'[r] \in {"create", "fill", "mode"} => Creating(r)'
      BY <1>3, <2>1 DEF Start, SecretInv, SecretTypes, Creating
    <2> QED BY <1>3, <2>2, <2>3 DEF Start, SecretInv, SecretsStable
  <1>4. ASSUME MakeDirs
        PROVE  SecretInv'
    <2>1. CASE phase' = [phase EXCEPT !["gateway"] = "golden"]
      BY <1>0, <1>4, <2>1, SecretsUntouched, Zenon DEF MakeDirs
    <2>2. CASE Ends("gateway")
      BY <1>2, <1>4, <2>2 DEF MakeDirs
    <2> QED BY <1>4, <2>1, <2>2 DEF MakeDirs
  <1>5. ASSUME NEW p \in Procs, path[p] # NoPath, file[path[p]] # Absent,
               Serves(p, file[path[p]]), UNCHANGED <<path, file, issued>>
        PROVE  SecretInv'
    <2>1. path[p] \in SecretFiles
      BY <1>5 DEF SecretInv, SecretTypes, SecretFiles, Paths
    <2>2. file[path[p]] \in Nat
      BY <2>1 DEF SecretInv, SecretTypes
    <2> QED BY <1>5, <2>1, <2>2, ServesKeeps
  <1>6. ASSUME LoadHostKey
        PROVE  SecretInv'
    <2>1. CASE Ephemeral("gateway")
      BY <1>6, <2>1, EphemeralKeeps, ZenonT(30) DEF LoadHostKey
    <2>2. CASE path["gateway"] # NoPath /\ Create("gateway")
      BY <1>6, <2>2, CreateKeeps DEF LoadHostKey
    <2>3. CASE /\ path["gateway"] # NoPath /\ file[path["gateway"]] > Torn
               /\ Serves("gateway", file[path["gateway"]])
               /\ UNCHANGED <<issued, tree>>
      <3>1. path["gateway"] \in SecretFiles
        BY <2>3 DEF SecretInv, SecretTypes, SecretFiles, Paths
      <3>2. file[path["gateway"]] # Absent
        BY <2>3, <3>1 DEF SecretInv, SecretTypes, Torn, Absent
      <3> QED BY <1>5, <1>6, <2>3, <3>2 DEF LoadHostKey
    <2>4. CASE Ends("gateway") /\ UNCHANGED <<secret, issued, served>>
      BY <1>2, <1>6, <2>4 DEF LoadHostKey, secrets
    <2> QED BY <1>6, <2>1, <2>2, <2>3, <2>4, ZenonT(30) DEF LoadHostKey
  <1>7. ASSUME LoadToken
        PROVE  SecretInv'
    <2>1. CASE Ephemeral("dashboard")
      BY <1>7, <2>1, EphemeralKeeps DEF LoadToken
    <2>2. CASE path["dashboard"] # NoPath /\ Create("dashboard")
      BY <1>7, <2>2, CreateKeeps DEF LoadToken
    <2>3. CASE /\ path["dashboard"] # NoPath /\ file[path["dashboard"]] # Absent
               /\ Serves("dashboard", file[path["dashboard"]])
               /\ UNCHANGED <<issued, tree>>
      BY <1>5, <1>7, <2>3 DEF LoadToken
    <2> QED BY <1>7, <2>1, <2>2, <2>3 DEF LoadToken
  <1>8. ASSUME NEW p \in Procs, OpenSecret(p)
        PROVE  SecretInv'
    BY <1>8, WriteKeeps, Zenon DEF OpenSecret
  <1>9. ASSUME NEW p \in Procs, FillSecret(p)
        PROVE  SecretInv'
    <2>1. CASE Ends(p) /\ UNCHANGED file
      BY <1>2, <1>9, <2>1 DEF FillSecret, secrets
    <2>2. CASE /\ file' = [file EXCEPT ![path[p]] = secret[p]]
               /\ phase' = [phase EXCEPT ![p] = "mode"]
      BY <1>9, <2>2, WriteKeeps, ZenonT(30) DEF FillSecret
    <2> QED BY <1>9, <2>1, <2>2 DEF FillSecret
  <1>10. ASSUME NEW p \in Procs, SetMode(p)
         PROVE  SecretInv'
    <2>1. Creating(p) /\ file[path[p]] = secret[p]
      BY <1>10 DEF SetMode, SecretInv, Creating
    <2>2. secret[p] \in Nat /\ secret[p] # Absent
      BY <2>1 DEF SecretInv, SecretTypes, Creating, Torn, Absent
    <2> QED BY <1>10, <2>1, <2>2, ServesKeeps DEF SetMode, Creating
  <1>11. ASSUME GoldenFails \/ GoldenDone
         PROVE  SecretInv'
    <2>1. UNCHANGED secrets
      BY <1>11 DEF GoldenFails, GoldenDone
    <2>2. UNCHANGED phase \/ phase' = [phase EXCEPT !["gateway"] = "secret"]
      BY <1>11 DEF GoldenFails, GoldenDone
    <2> QED BY <1>0, <1>1, <2>1, <2>2, SecretsUntouched
  <1>12. ASSUME NEW p \in Procs, Die(p) \/ SecretFails(p)
         PROVE  SecretInv'
    BY <1>2, <1>12 DEF Die, SecretFails
  <1>13. CASE UNCHANGED startup
    BY <1>1, <1>13 DEF startup
  <1>14. ASSUME NEW s \in Sessions, Accept(s) \/ Leave(s) \/ \E f \in 1..Golden : EditGolden(s, f)
         PROVE  SecretInv'
    BY <1>1, <1>14 DEF Accept, Leave, EditGolden
  <1>15. CASE TruncateGolden \/ FillGolden
    BY <1>1, <1>15 DEF TruncateGolden, FillGolden
  <1> QED BY <1>3, <1>4, <1>6, <1>7, <1>8, <1>9, <1>10, <1>11, <1>12, <1>13, <1>14, <1>15
          DEF StartupNext, Step, ProvisionGolden

\* SecretsStable, for any number of files, deaths and failures: a secret served
\* out of a file is the one load_or_create_host_key and load_or_create_token find
\* there ever after, and the only one they ever serve out of it.
THEOREM SecretsKept == StartupSpec => []SecretsStable
  <1>1. StartupInit => SecretInv
    <2> SUFFICES ASSUME StartupInit PROVE SecretInv
      OBVIOUS
    <2>1. SecretTypes
      BY DEF StartupInit, SecretTypes, Phases, Absent
    <2>2. \A p \in Procs : phase[p] = "down"
      BY DEF StartupInit
    <2> QED BY <2>1, <2>2 DEF StartupInit, SecretInv, SecretsStable
  <1>2. SecretInv /\ [StartupNext]_startup => SecretInv'
    BY SecretInvStep
  <1>3. SecretInv => SecretsStable
    BY DEF SecretInv
  <1> QED BY <1>1, <1>2, <1>3, PTL DEF StartupSpec

-----------------------------------------------------------------------------
(* The golden rootfs *)

\* A step of the dashboard, or of the gateway that neither brings it up nor
\* starts or ends a provisioning.
LEMMA TreeUntouched ==
    ASSUME TreeInv, UNCHANGED tree, phase' \in [Procs -> Phases],
           \/ phase'["gateway"] = phase["gateway"]
           \/ phase["gateway"] \notin {"golden", "up"}
    PROVE  TreeInv'
  <1>1. phase'["gateway"] # "up" => Rooted \cup Making = {}
    BY Zenon DEF TreeInv
  <1>2. Rooted' = Rooted /\ Making' = Making
    BY DEF Rooted, Making, tree
  <1>3. phase'["gateway"] \notin {"golden", "up"} => at = 0
    BY DEF TreeInv
  <1> QED BY <1>1, <1>2, <1>3 DEF TreeInv, TreeTypes, LowerLayerWhole, tree

\* However the gateway ends, its sessions end with it.
LEMMA EndsKeepsTree ==
    ASSUME TreeInv, NEW p \in Procs, Ends(p)
    PROVE  TreeInv'
  <1>1. phase' \in [Procs -> Phases] /\ phase'[p] = "down"
    BY DEF TreeInv, TreeTypes, Ends, Phases
  <1>2. CASE p = "gateway"
    <2>1. SessionsEnd
      BY <1>2 DEF Ends
    <2>2. TreeTypes'
      <3>1. conn' \in [Sessions -> {"new", "making", "layer", "lower", "none", "gone"}]
        BY <2>1 DEF SessionsEnd
      <3>2. at' \in 0..(Golden + 1) /\ golden' = golden /\ hurt' = hurt
        BY <2>1, StartupAssumption DEF SessionsEnd
      <3> QED BY <1>1, <3>1, <3>2 DEF TreeInv, TreeTypes
    <2>3. Rooted' \cup Making' = {}
      BY <2>1 DEF SessionsEnd, Rooted, Making
    <2>4. LowerLayerWhole'
      BY <2>3 DEF Rooted, LowerLayerWhole
    <2> QED BY <1>1, <1>2, <2>1, <2>2, <2>3, <2>4 DEF TreeInv, SessionsEnd
  <1>3. CASE p # "gateway"
    <2>1. UNCHANGED tree /\ phase'["gateway"] = phase["gateway"]
      BY <1>3 DEF Ends, TreeInv, TreeTypes, Procs
    <2> QED BY <1>1, <2>1, TreeUntouched
  <1> QED BY <1>2, <1>3

\* A new session has seen no damage yet, and the provisioning starts over for it.
LEMMA AcceptKeepsTree ==
    ASSUME TreeInv, NEW s \in Sessions, Accept(s)
    PROVE  TreeInv'
  <1>1. ~open /\ at = 0 /\ at' = 1 /\ open' = FALSE
    BY DEF TreeInv, TreeTypes, Accept
  <1>2. TreeTypes'
    BY <1>1, StartupAssumption DEF TreeInv, TreeTypes, Accept
  <1>3. Rooted' = Rooted /\ s \notin Rooted
    BY DEF Rooted, Accept, TreeInv, TreeTypes
  <1>4. \A t \in Rooted : hurt'[t] = hurt[t]
    BY <1>3 DEF Accept, TreeInv, TreeTypes, Rooted
  <1>5. LowerLayerWhole'
    BY <1>1, <1>3, <1>4 DEF LowerLayerWhole, Rooted, TreeInv, Accept
  <1>6. phase' = phase /\ phase["gateway"] = "up"
    BY DEF Accept
  <1>7. \A t \in Making' : \A f \in 1..Golden : ~(f < at')
    BY <1>1
  <1>8. /\ ~open'
        /\ phase'["gateway"] \notin {"golden", "up"} => at' = 0
        /\ phase'["gateway"] # "up" => (Rooted \cup Making)' = {}
    BY <1>1, <1>6
  <1> QED BY <1>2, <1>5, <1>7, <1>8 DEF TreeInv

\* The open of fs::write tears the one file that is being written.
LEMMA TruncateKeepsTree ==
    ASSUME TreeInv, TruncateGolden
    PROVE  TreeInv'
  <1>1. TreeTypes' /\ golden'[at] = "torn" /\ \A f \in 1..Golden : f # at => golden'[f] = golden[f]
    BY DEF TreeInv, TreeTypes, TruncateGolden
  <1>2. Rooted' = Rooted /\ Making' = Making
    BY DEF Rooted, Making, TruncateGolden
  <1>3. \A s \in Making : \A f \in 1..Golden : f < at => golden'[f] = "whole" \/ f \in hurt[s]
    BY <1>1 DEF TreeInv, TreeTypes
  <1>4. LowerLayerWhole'
    BY <1>1 DEF LowerLayerWhole, TreeInv, TruncateGolden
  <1> QED BY <1>1, <1>2, <1>3, <1>4 DEF TreeInv, TruncateGolden

\* The file is whole again, or a session has changed it since it was opened.
LEMMA FillKeepsTree ==
    ASSUME TreeInv, FillGolden
    PROVE  TreeInv'
  <1>0. at \in 1..Golden /\ at' = at + 1 /\ open' = FALSE
    BY DEF TreeInv, FillGolden
  <1>1. TreeTypes'
    BY <1>0, StartupAssumption DEF TreeInv, TreeTypes, FillGolden
  <1>2. Rooted' = Rooted /\ Making' = Making
    BY DEF Rooted, Making, FillGolden
  <1>3. ASSUME NEW s \in Rooted \cup Making, NEW f \in 1..Golden,
               golden[f] = "whole" \/ f \in hurt[s] \/ f = at
        PROVE  golden'[f] = "whole" \/ f \in hurt'[s]
    <2>1. CASE /\ golden' = [golden EXCEPT ![at] = "whole"]
               /\ hurt' = [t \in Sessions |-> hurt[t] \ {at}]
      BY <1>3, <2>1 DEF TreeInv, TreeTypes, Rooted, Making
    <2>2. CASE golden[at] = "changed" /\ UNCHANGED <<golden, hurt>>
      <3>1. at \in hurt[s]
        BY <2>2 DEF TreeInv, FillGolden
      <3> QED BY <1>3, <2>2, <3>1
    <2> QED BY <2>1, <2>2 DEF FillGolden
  <1>4. \A s \in Making : \A f \in 1..Golden : f < at' => golden'[f] = "whole" \/ f \in hurt'[s]
    <2> SUFFICES ASSUME NEW s \in Making, NEW f \in 1..Golden, f < at'
                 PROVE  golden'[f] = "whole" \/ f \in hurt'[s]
      OBVIOUS
    <2>1. f < at \/ f = at
      BY <1>0, StartupAssumption
    <2> QED BY <1>3, <2>1 DEF TreeInv
  <1>5. LowerLayerWhole'
    <2> SUFFICES ASSUME NEW s \in Rooted, NEW f \in 1..Golden
                 PROVE  golden'[f] = "whole" \/ f \in hurt'[s]
      BY <1>2 DEF LowerLayerWhole, Rooted
    <2>1. golden[f] = "whole" \/ f = at \/ f \in hurt[s]
      BY DEF TreeInv, LowerLayerWhole, Rooted
    <2> QED BY <1>3, <2>1
  <1>6. phase' = phase
    BY DEF FillGolden
  <1>7. phase["gateway"] \in {"golden", "up"}
    BY <1>0 DEF TreeInv, TreeTypes
  <1> QED BY <1>0, <1>1, <1>2, <1>4, <1>5, <1>6, <1>7 DEF TreeInv

\* The end of a provisioning, for good or ill.
LEMMA GoldenEndsKeepsTree ==
    ASSUME TreeInv, GoldenFails \/ GoldenDone
    PROVE  TreeInv'
  <1>0. at' = 0 /\ open' = FALSE
    BY StartupAssumption DEF GoldenFails, GoldenDone, TreeInv, TreeTypes
  <1>1. phase' \in [Procs -> Phases]
    BY DEF GoldenFails, GoldenDone, TreeInv, TreeTypes, Phases, Procs
  <1>2. phase["gateway"] \in {"golden", "up"}
    BY StartupAssumption DEF GoldenFails, GoldenDone, TreeInv, TreeTypes
  <1>3. phase["gateway"] = "up" => phase' = phase
    BY DEF GoldenFails, GoldenDone
  <1>4. CASE GoldenFails
    <2>1. /\ conn' = [s \in Sessions |-> IF conn[s] = "making" THEN "none" ELSE conn[s]]
          /\ golden' = golden
          /\ hurt' = IF open THEN [s \in Sessions |-> hurt[s] \cup {at}] ELSE hurt
      BY <1>4 DEF GoldenFails
    <2>2. TreeTypes'
      <3>1. conn' \in [Sessions -> {"new", "making", "layer", "lower", "none", "gone"}]
        BY <2>1 DEF TreeInv, TreeTypes
      <3>2. hurt' \in [Sessions -> SUBSET (1..Golden)]
        BY <2>1 DEF TreeInv, TreeTypes
      <3>3. at' \in 0..(Golden + 1)
        BY <1>0, StartupAssumption
      <3> QED BY <1>1, <2>1, <3>1, <3>2, <3>3 DEF TreeInv, TreeTypes
    <2>3. Rooted' = Rooted /\ Making' = {}
      BY <2>1 DEF Rooted, Making, TreeInv, TreeTypes
    <2>4. LowerLayerWhole'
      <3> SUFFICES ASSUME NEW s \in Rooted, NEW f \in 1..Golden
                   PROVE  golden'[f] = "whole" \/ f \in hurt'[s]
        BY <2>3 DEF LowerLayerWhole, Rooted
      <3>1. golden[f] = "whole" \/ (open /\ at = f) \/ f \in hurt[s]
        BY DEF TreeInv, LowerLayerWhole, Rooted
      <3> QED BY <2>1, <3>1 DEF Rooted
    <2>5. phase'["gateway"] # "up" => Rooted = {}
      BY <1>2, <1>3 DEF TreeInv
    <2> QED BY <1>0, <2>2, <2>3, <2>4, <2>5 DEF TreeInv
  <1>5. CASE GoldenDone
    <2>0. at = Golden + 1 /\ ~open /\ golden' = golden /\ hurt' = hurt
      <3>1. at = Golden + 1 /\ golden' = golden /\ hurt' = hurt
        BY <1>5 DEF GoldenDone
      <3>2. open => at \in 1..Golden
        BY DEF TreeInv
      <3> QED BY <3>1, <3>2, StartupAssumption
    <2>1. PICK root \in {"layer", "lower"} :
            conn' = [s \in Sessions |-> IF conn[s] = "making" THEN root ELSE conn[s]]
      BY <1>5 DEF GoldenDone
    <2>2. TreeTypes'
      <3>1. conn' \in [Sessions -> {"new", "making", "layer", "lower", "none", "gone"}]
        BY <2>1 DEF TreeInv, TreeTypes
      <3>2. at' \in 0..(Golden + 1)
        BY <1>0, StartupAssumption
      <3> QED BY <1>1, <2>0, <3>1, <3>2 DEF TreeInv, TreeTypes
    <2>3. Rooted' = Rooted \cup Making /\ Making' = {}
      BY <2>1 DEF Rooted, Making, TreeInv, TreeTypes
    <2>4. LowerLayerWhole'
      <3> SUFFICES ASSUME NEW s \in Rooted \cup Making, NEW f \in 1..Golden
                   PROVE  golden[f] = "whole" \/ f \in hurt[s]
        BY <2>0, <2>3 DEF LowerLayerWhole, Rooted
      <3>1. f < at
        BY <2>0, StartupAssumption
      <3> QED BY <2>0, <3>1 DEF TreeInv, LowerLayerWhole, Rooted
    <2>5. phase'["gateway"] # "up" => Rooted \cup Making = {}
      BY <1>2, <1>3 DEF TreeInv
    <2> QED BY <1>0, <2>2, <2>3, <2>4, <2>5 DEF TreeInv
  <1> QED BY <1>4, <1>5

\* One step of either process, or of a session, keeps the rootfs invariant.
LEMMA TreeInvStep ==
    ASSUME TreeInv, [StartupNext]_startup
    PROVE  TreeInv'
  <1>0. phase \in [Procs -> Phases] /\ "gateway" \in Procs /\ "dashboard" \in Procs
    BY DEF TreeInv, TreeTypes, Procs
  \* A step that only brings a process on with its secret.
  <1>1. ASSUME NEW p \in Procs, NEW ph \in Phases, UNCHANGED tree,
               phase' = [phase EXCEPT ![p] = ph],
               phase[p] \in {"down", "secret", "create", "fill", "mode"}
        PROVE  TreeInv'
    <2>1. phase' \in [Procs -> Phases]
      BY <1>0, <1>1
    <2>2. phase'["gateway"] = phase["gateway"] \/ phase["gateway"] \notin {"golden", "up"}
      BY <1>0, <1>1
    <2> QED BY <1>1, <2>1, <2>2, TreeUntouched
  <1>2. ASSUME NEW p \in Procs, Start(p) \/ OpenSecret(p) \/ SetMode(p)
        PROVE  TreeInv'
    BY <1>1, <1>2 DEF Start, OpenSecret, SetMode, Serves, Phases
  <1>3. ASSUME NEW p \in Procs, FillSecret(p)
        PROVE  TreeInv'
    <2>1. CASE Ends(p)
      BY <2>1, EndsKeepsTree
    <2>2. CASE phase' = [phase EXCEPT ![p] = "mode"] /\ UNCHANGED tree
      BY <1>1, <1>3, <2>2, Zenon DEF FillSecret, Phases
    <2> QED BY <1>3, <2>1, <2>2 DEF FillSecret
  <1>4. ASSUME LoadHostKey \/ LoadToken
        PROVE  TreeInv'
    <2>1. PICK p \in Procs : /\ phase[p] = "secret"
                             /\ \/ Ends(p)
                                \/ /\ UNCHANGED tree
                                   /\ \/ phase' = [phase EXCEPT ![p] = "up"]
                                      \/ phase' = [phase EXCEPT ![p] = "create"]
      BY <1>0, <1>4, ZenonT(30) DEF LoadHostKey, LoadToken, Ephemeral, Create, Serves
    <2>2. CASE Ends(p)
      BY <2>2, EndsKeepsTree
    <2>3. CASE ~Ends(p)
      BY <1>1, <2>1, <2>3 DEF Phases
    <2> QED BY <2>2, <2>3
  <1>5. ASSUME MakeDirs
        PROVE  TreeInv'
    <2>1. CASE Ends("gateway")
      BY <1>0, <2>1, EndsKeepsTree
    <2>2. CASE /\ phase' = [phase EXCEPT !["gateway"] = "golden"]
               /\ at' = 1
               /\ UNCHANGED <<golden, open, conn, hurt, mishaps>>
      <3>1. at = 0 /\ ~open /\ Rooted \cup Making = {}
        BY <1>5 DEF MakeDirs, TreeInv, TreeTypes
      <3>2. Rooted' = Rooted /\ Making' = Making
        BY <2>2 DEF Rooted, Making
      <3>3. phase' \in [Procs -> Phases] /\ phase'["gateway"] = "golden"
        BY <1>0, <2>2 DEF Phases
      <3>4. TreeTypes'
        BY <2>2, <3>3, StartupAssumption DEF TreeInv, TreeTypes
      <3>5. LowerLayerWhole'
        BY <3>1, <3>2 DEF LowerLayerWhole, Rooted
      <3> QED BY <2>2, <3>1, <3>2, <3>3, <3>4, <3>5 DEF TreeInv
    <2> QED BY <1>5, <2>1, <2>2 DEF MakeDirs
  <1>6. ASSUME NEW p \in Procs, Die(p) \/ SecretFails(p)
        PROVE  TreeInv'
    BY <1>6, EndsKeepsTree DEF Die, SecretFails
  <1>7. ASSUME NEW s \in Sessions, NEW f \in 1..Golden, EditGolden(s, f)
        PROVE  TreeInv'
    <2>1. TreeTypes'
      BY <1>7 DEF EditGolden, TreeInv, TreeTypes
    <2>2. Rooted' = Rooted /\ Making' = Making
      BY <1>7 DEF EditGolden, Rooted, Making
    <2>3. /\ \A g \in 1..Golden : g # f => golden'[g] = golden[g]
          /\ \A t \in Sessions : hurt'[t] = hurt[t] \cup {f}
      BY <1>7 DEF EditGolden, TreeInv, TreeTypes
    <2>4. LowerLayerWhole'
      BY <1>7, <2>3 DEF LowerLayerWhole, EditGolden, TreeInv
    <2>5. \A t \in Making : \A g \in 1..Golden : g < at => golden'[g] = "whole" \/ g \in hurt'[t]
      BY <2>3, ZenonT(30) DEF TreeInv, Making
    <2>6. \A t \in Rooted \cup Making : open /\ golden'[at] = "changed" => at \in hurt'[t]
      BY <2>3 DEF TreeInv, Rooted, Making
    <2> QED BY <1>7, <2>1, <2>2, <2>4, <2>5, <2>6 DEF TreeInv, EditGolden
  <1>8. ASSUME NEW s \in Sessions, Leave(s)
        PROVE  TreeInv'
    <2>1. TreeTypes'
      BY <1>8 DEF Leave, TreeInv, TreeTypes
    <2>2. Rooted' \subseteq Rooted /\ Making' \subseteq Making
      BY <1>8 DEF Leave, Rooted, Making, TreeInv, TreeTypes
    <2>3. LowerLayerWhole'
      BY <1>8, <2>2 DEF LowerLayerWhole, Leave, Rooted, TreeInv
    <2> QED BY <1>8, <2>1, <2>2, <2>3 DEF TreeInv, Leave
  <1>9. CASE UNCHANGED startup
    BY <1>0, <1>9, TreeUntouched DEF startup
  <1>10. ASSUME NEW s \in Sessions, Accept(s)
         PROVE  TreeInv'
    BY <1>10, AcceptKeepsTree
  <1>11. CASE TruncateGolden
    BY <1>11, TruncateKeepsTree
  <1>12. CASE FillGolden
    BY <1>12, FillKeepsTree
  <1>13. CASE GoldenFails \/ GoldenDone
    BY <1>13, GoldenEndsKeepsTree
  <1> QED BY <1>2, <1>3, <1>4, <1>5, <1>6, <1>7, <1>8, <1>9, <1>10, <1>11, <1>12, <1>13
          DEF StartupNext, Step, ProvisionGolden

\* LowerLayerWhole, for any number of sessions, golden files and mishaps: since
\* spawn_sandbox has ensure_golden_rootfs write every file again, no session gets
\* a root over a file that an earlier death, failure or session has spoilt.
THEOREM RootfsKept == StartupSpec => []LowerLayerWhole
  <1>1. StartupInit => TreeInv
    <2> SUFFICES ASSUME StartupInit PROVE TreeInv
      OBVIOUS
    <2>1. TreeTypes
      BY StartupAssumption DEF StartupInit, TreeTypes, Phases
    <2>2. Rooted = {} /\ Making = {}
      BY DEF StartupInit, Rooted, Making
    <2>3. LowerLayerWhole
      BY <2>2 DEF LowerLayerWhole, Rooted
    <2> QED BY <2>1, <2>2, <2>3 DEF StartupInit, TreeInv
  <1>2. TreeInv /\ [StartupNext]_startup => TreeInv'
    BY TreeInvStep
  <1>3. TreeInv => LowerLayerWhole
    BY DEF TreeInv
  <1> QED BY <1>1, <1>2, <1>3, PTL DEF StartupSpec

=============================================================================
