----------------------------- MODULE Admission -----------------------------
(***************************************************************************)
(* Connection admission control of the gateway: IpConnectionGuard (per     *)
(* source concurrency and connect-rate limits), the global session         *)
(* semaphore, the path of new_client through both, and the release of both *)
(* when an ActiveSession is dropped.                                       *)
(*                                                                         *)
(* new_client runs on the accept loop, one connection at a time; sessions  *)
(* are dropped on other worker threads, so every lock of the guard and     *)
(* every semaphore operation is a step of its own.                         *)
(***************************************************************************)
EXTENDS Integers, Sequences, FiniteSets

CONSTANTS
    Conns,         \* connection slots of the model; a slot is reused
    Addrs,         \* source addresses: [fam, net, host] records
    MaxSessions,   \* config.gateway.max_sessions
    MaxPerIp,      \* config.gateway.max_sessions_per_ip, 0 = no limit
    MaxPerMinute,  \* config.gateway.max_connects_per_min_per_ip, 0 = no limit
    MaxTracked,    \* MAX_TRACKED_PREFIXES
    Window,        \* RATE_WINDOW
    MaxTime        \* bound on the modelled clock

Families == {"v4", "v6"}

ASSUME AdmissionAssumption ==
    /\ IsFiniteSet(Conns)
    /\ IsFiniteSet(Addrs)
    /\ Addrs \subseteq [fam : Families, net : Nat, host : Nat]
    /\ MaxSessions \in Nat /\ MaxPerIp \in Nat /\ MaxPerMinute \in Nat
    /\ MaxTracked \in Nat \ {0}
    /\ Window \in Nat \ {0}
    /\ MaxTime \in Nat

VARIABLES
    now,         \* the monotonic clock read by Instant::now
    entries,     \* GuardState.entries, a function on the tracked keys
    last_sweep,  \* GuardState.last_sweep
    permits,     \* free permits of session_semaphore
    pc,          \* where each connection is in new_client or drop
    addr,        \* the source address of each connection
    grants       \* history: times at which each key was granted a slot

vars == <<now, entries, last_sweep, permits, pc, addr, grants>>

-----------------------------------------------------------------------------
(* The guard's table *)

\* Mutant: the limits keyed on the exact address, IPv6 included.
KeyExactAddress(ip) == ip

\* The prefix a source is accounted under: IPv4 exact, IPv6 by /64.
admission_key(ip) ==
    IF ip.fam = "v6" THEN [ip EXCEPT !.host = 0] ELSE ip

Keys == {admission_key(ip) : ip \in Addrs}

IpEntry == [active : Nat, recent_connects : Seq(Nat)]

Expired(t) == now - t > Window

Stale(e) ==
    /\ e.active = 0
    /\ \A i \in DOMAIN e.recent_connects : Expired(e.recent_connects[i])

SweepDue ==
    /\ Cardinality(DOMAIN entries) >= MaxTracked \div 2
    /\ now - last_sweep >= Window

\* The table after the amortised sweep at the head of try_admit.
Swept ==
    IF SweepDue
    THEN [k \in {x \in DOMAIN entries : ~Stale(entries[x])} |-> entries[k]]
    ELSE entries

\* Mutant: the table accepts one source more than it may track.
TableFullOffByOne(key) ==
    /\ Cardinality(DOMAIN Swept) > MaxTracked
    /\ key \notin DOMAIN Swept

TableFull(key) ==
    /\ Cardinality(DOMAIN Swept) >= MaxTracked
    /\ key \notin DOMAIN Swept

\* Mutant: the window is never pruned.
NeverPruned(q) == q

\* Pop expired timestamps off the front, stopping at the first live one.
Pruned(q) ==
    LET dropped == CHOOSE n \in 0..Len(q) :
                     /\ \A i \in 1..n : Expired(q[i])
                     /\ n < Len(q) => ~Expired(q[n + 1])
    IN  SubSeq(q, dropped + 1, Len(q))

\* The entry try_admit works on: looked up or inserted, then pruned.
EntryFor(key) ==
    IF key \in DOMAIN Swept
    THEN [active |-> Swept[key].active,
          recent_connects |-> Pruned(Swept[key].recent_connects)]
    ELSE [active |-> 0, recent_connects |-> <<>>]

\* Mutant: the rate limit is noticed one connect too late.
LimitReachedLate(e) ==
    \/ MaxPerIp > 0 /\ e.active >= MaxPerIp
    \/ MaxPerMinute > 0 /\ Len(e.recent_connects) > MaxPerMinute

LimitReached(e) ==
    \/ MaxPerIp > 0 /\ e.active >= MaxPerIp
    \/ MaxPerMinute > 0 /\ Len(e.recent_connects) >= MaxPerMinute

Stored(key, e) ==
    [k \in DOMAIN Swept \cup {key} |-> IF k = key THEN e ELSE Swept[k]]

Granted(e) ==
    [active |-> e.active + 1,
     recent_connects |-> Append(e.recent_connects, now)]

SweepClock == last_sweep' = IF SweepDue THEN now ELSE last_sweep

\* Mutant: release drops an idle entry with its window still open.
ReleasedForgetting(key) ==
    LET n == entries[key].active - 1
    IN  IF n = 0
        THEN [k \in DOMAIN entries \ {key} |-> entries[k]]
        ELSE [entries EXCEPT ![key].active = n]

\* release: saturating decrement; the entry goes when nothing is left in it.
Released(key) ==
    IF key \notin DOMAIN entries
    THEN entries
    ELSE LET n == IF entries[key].active > 0 THEN entries[key].active - 1 ELSE 0
         IN  IF n = 0 /\ entries[key].recent_connects = <<>>
             THEN [k \in DOMAIN entries \ {key} |-> entries[k]]
             ELSE [entries EXCEPT ![key].active = n]

-----------------------------------------------------------------------------
(* Connections *)

\* In new_client, between try_admit and the handler it returns.
Admitting == {"admitted", "permitted", "abandoning"}

\* The accept loop calls new_client on &mut self: one connection at a time.
AcceptLoopFree == \A c \in Conns : pc[c] \notin Admitting

Goto(c, l) == pc' = [pc EXCEPT ![c] = l]

\* The address of a slot no connection is using.
NoAddr == [fam |-> "none", net |-> 0, host |-> 0]

Arrive(c, ip) ==
    /\ pc[c] = "idle"
    /\ AcceptLoopFree
    /\ addr' = [addr EXCEPT ![c] = ip]
    /\ SweepClock
    /\ UNCHANGED <<now, permits>>

\* try_admit refuses an unseen source because the table is full.
RefuseTableFull(c, ip) ==
    /\ Arrive(c, ip)
    /\ TableFull(admission_key(ip))
    /\ entries' = Swept
    /\ Goto(c, "rejected")
    /\ UNCHANGED grants

\* try_admit refuses on the per-source limits; the pruning has happened.
RefuseLimit(c, ip) ==
    LET key == admission_key(ip) IN
    /\ Arrive(c, ip)
    /\ ~TableFull(key)
    /\ LimitReached(EntryFor(key))
    /\ entries' = Stored(key, EntryFor(key))
    /\ Goto(c, "rejected")
    /\ UNCHANGED grants

\* try_admit grants a slot of the source.
TryAdmit(c, ip) ==
    LET key == admission_key(ip) IN
    /\ Arrive(c, ip)
    /\ ~TableFull(key)
    /\ ~LimitReached(EntryFor(key))
    /\ entries' = Stored(key, Granted(EntryFor(key)))
    /\ Goto(c, "admitted")
    /\ grants' = [grants EXCEPT ![key] = Append(@, now)]

\* try_acquire_owned on the session semaphore.
TryAcquire(c) ==
    /\ pc[c] = "admitted"
    /\ IF permits > 0
       THEN permits' = permits - 1 /\ Goto(c, "permitted")
       ELSE Goto(c, "abandoning") /\ UNCHANGED permits
    /\ UNCHANGED <<now, entries, last_sweep, addr, grants>>

\* The recorder opened (the sandbox is optional): the session is built.
Provision(c) ==
    /\ pc[c] = "permitted"
    /\ Goto(c, "active")
    /\ UNCHANGED <<now, entries, last_sweep, permits, addr, grants>>

\* Mutant: the permit is not returned when the recorder cannot be opened.
RecorderFailsKeepingPermit(c) ==
    /\ pc[c] = "permitted"
    /\ Goto(c, "abandoning")
    /\ UNCHANGED <<now, entries, last_sweep, permits, addr, grants>>

\* SessionRecorder::open failed: the permit is dropped first.
RecorderFails(c) ==
    /\ pc[c] = "permitted"
    /\ permits' = permits + 1
    /\ Goto(c, "abandoning")
    /\ UNCHANGED <<now, entries, last_sweep, addr, grants>>

\* Mutant: a refusal by the later stages forgets to release the slot.
AbandonWithoutRelease(c) ==
    /\ pc[c] = "abandoning"
    /\ Goto(c, "rejected")
    /\ UNCHANGED <<now, entries, last_sweep, permits, addr, grants>>

\* Give the source's slot back after a refusal by the later stages.
Abandon(c) ==
    /\ pc[c] = "abandoning"
    /\ entries' = Released(admission_key(addr[c]))
    /\ Goto(c, "rejected")
    /\ UNCHANGED <<now, last_sweep, permits, addr, grants>>

\* Drop for ActiveSession: release the source's slot, then run the body.
DropSession(c) ==
    /\ pc[c] = "active"
    /\ entries' = Released(admission_key(addr[c]))
    /\ Goto(c, "dropping")
    /\ UNCHANGED <<now, last_sweep, permits, addr, grants>>

\* The fields are dropped after the body: _permit returns to the semaphore.
DropPermit(c) ==
    /\ pc[c] = "dropping"
    /\ permits' = permits + 1
    /\ Goto(c, "idle")
    /\ addr' = [addr EXCEPT ![c] = NoAddr]
    /\ UNCHANGED <<now, entries, last_sweep, grants>>

\* A Rejected handler owns nothing; its connection just goes away.
DropRejected(c) ==
    /\ pc[c] = "rejected"
    /\ Goto(c, "idle")
    /\ addr' = [addr EXCEPT ![c] = NoAddr]
    /\ UNCHANGED <<now, entries, last_sweep, permits, grants>>

Tick ==
    /\ now < MaxTime
    /\ now' = now + 1
    /\ UNCHANGED <<entries, last_sweep, permits, pc, addr, grants>>

\* Semaphore::new(max_sessions.max(1)).
PermitPool == IF MaxSessions > 1 THEN MaxSessions ELSE 1

Init ==
    /\ now = 0
    /\ entries = [k \in {} |-> [active |-> 0, recent_connects |-> <<>>]]
    /\ last_sweep = 0
    /\ permits = PermitPool
    /\ pc = [c \in Conns |-> "idle"]
    /\ addr = [c \in Conns |-> NoAddr]
    /\ grants = [k \in Keys |-> <<>>]

Next ==
    \/ \E c \in Conns, ip \in Addrs :
         RefuseTableFull(c, ip) \/ RefuseLimit(c, ip) \/ TryAdmit(c, ip)
    \/ \E c \in Conns :
         \/ TryAcquire(c) \/ Provision(c) \/ RecorderFails(c) \/ Abandon(c)
         \/ DropSession(c) \/ DropPermit(c) \/ DropRejected(c)
    \/ Tick

Spec == Init /\ [][Next]_vars

-----------------------------------------------------------------------------
(* Properties *)

HoldsSlot == {"admitted", "permitted", "abandoning", "active"}
HoldsPermit == {"permitted", "active", "dropping"}
Labels == {"idle", "rejected"} \cup HoldsSlot \cup HoldsPermit

SlotHolders(k) == {c \in Conns : pc[c] \in HoldsSlot /\ admission_key(addr[c]) = k}
PermitHolders == {c \in Conns : pc[c] \in HoldsPermit}

ActiveCount(k) == IF k \in DOMAIN entries THEN entries[k].active ELSE 0

\* Every variable has the type the Rust declarations give it.
TypeOK ==
    /\ now \in 0..MaxTime
    /\ DOMAIN entries \subseteq Keys
    /\ entries \in [DOMAIN entries -> IpEntry]
    /\ last_sweep \in 0..MaxTime
    /\ permits \in Nat
    /\ pc \in [Conns -> Labels]
    /\ addr \in [Conns -> Addrs \cup {NoAddr}]
    /\ grants \in [Keys -> Seq(Nat)]

\* The guard's count for a source is exactly the number of connections that
\* still owe it a release: no path of new_client or Drop releases twice or
\* not at all, no sweep forgets a source that is in use, and the saturating
\* subtraction of release never saturates.
SlotAccounting ==
    \A k \in Keys : ActiveCount(k) = Cardinality(SlotHolders(k))

\* Permits are conserved over every refusal and drop path, so no leak slowly
\* closes the gateway and at most max_sessions sessions hold one.
PermitAccounting ==
    permits + Cardinality(PermitHolders) = PermitPool

SamePrefix(a, b) ==
    /\ a.fam = b.fam /\ a.net = b.net
    /\ a.fam = "v4" => a.host = b.host

\* The connections of one IPv4 address, or of one IPv6 /64, never exceed the
\* per-source cap, whichever of the prefix's addresses they come from.
SourceCap ==
    MaxPerIp > 0 =>
        \A ip \in Addrs :
            Cardinality({c \in Conns : /\ pc[c] \in HoldsSlot
                                      /\ SamePrefix(addr[c], ip)}) <= MaxPerIp

\* The table never tracks more than MAX_TRACKED_PREFIXES sources.
TableBound == Cardinality(DOMAIN entries) <= MaxTracked

\* No RATE_WINDOW holds more than max_connects_per_min_per_ip grants to one
\* source: a grant and the one max_connects_per_min_per_ip before it are more
\* than a window apart, over any history of sweeps, prunes and releases.
RateBound ==
    MaxPerMinute > 0 =>
        \A k \in Keys : \A i \in DOMAIN grants[k] :
            i > MaxPerMinute =>
                grants[k][i] - grants[k][i - MaxPerMinute] > Window

\* An entry is forgotten (swept, or removed by release) only when it carries
\* no information: nobody holds a slot of that source after the step, and all
\* its grants have left the window.
ForgetsOnlyDrained ==
    [][\A k \in DOMAIN entries \ DOMAIN entries' :
          /\ SlotHolders(k)' = {}
          /\ \A i \in DOMAIN grants[k] : Expired(grants[k][i])]_vars

\* A connection is turned away by try_admit only for a reason: its source is
\* at the concurrency cap, or has used its rate budget of the current window,
\* or is unknown while the table is full.
NoSpuriousRefusal ==
    [][\A c \in Conns : pc[c] = "idle" /\ pc'[c] = "rejected" =>
          LET k == admission_key(addr'[c]) IN
          \/ MaxPerIp > 0 /\ Cardinality(SlotHolders(k)) >= MaxPerIp
          \/ /\ MaxPerMinute > 0
             /\ Cardinality({i \in DOMAIN grants[k] : ~Expired(grants[k][i])})
                  >= MaxPerMinute
          \/ k \notin DOMAIN entries /\ Cardinality(DOMAIN entries) >= MaxTracked]_vars
=============================================================================
