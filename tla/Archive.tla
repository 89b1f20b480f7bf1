------------------------------ MODULE Archive ------------------------------
(***************************************************************************)
(* Sessions and the archive the dashboard keeps of them: the callbacks of  *)
(* several connections send their events, in the order SSH brings them     *)
(* about, into one pipe the dashboard ingests from. Authentication always  *)
(* precedes a channel; a client may open several channels and ask for a    *)
(* shell on each; a connection may end in order or just be gone, and its   *)
(* payloads are found when its files are analysed afterwards.              *)
(***************************************************************************)
EXTENDS Store

CONSTANTS
    MaxShells,     \* bound on the shell requests of a session
    MaxCommands,   \* bound on the commands of a session
    MaxPayloads,   \* bound on the payloads found after a session
    PipeCap,       \* bound on the events between a sender and the store
    MaxSent        \* bound on the events of all sessions together

ASSUME ArchiveAssumption ==
    /\ MaxShells \in Nat /\ MaxCommands \in Nat /\ MaxPayloads \in Nat
    /\ PipeCap \in Nat \ {0} /\ MaxSent \in Nat

VARIABLES
    conn,      \* each connection: "auth", "open", "over"
    is_ended,  \* teardown_session has run
    sent,      \* history: the events each session sent, by kind
    pipe       \* events on their way to the store

gateway == <<conn, is_ended, sent, pipe>>

\* An event is stamped before it waits for room in the channel, and ingested
\* later still.
EmitWord(id, kinds, w) ==
    /\ Len(pipe) + Len(kinds) <= PipeCap
    /\ Len(ingested) + Len(pipe) + Len(kinds) <= MaxSent
    /\ \E ts \in 0..hour :
         pipe' = pipe \o [i \in 1..Len(kinds) |-> Event(kinds[i], id, w, ts)]
    /\ sent' = [sent EXCEPT ![id] =
                  [k \in Kinds |-> @[k] + Cardinality({i \in 1..Len(kinds) : kinds[i] = k})]]
    /\ UNCHANGED vars

Emit(id, kinds) == EmitWord(id, kinds, CHOOSE w \in Words : TRUE)

\* auth_password, auth_publickey: every attempt is accepted.
Authenticate(id) ==
    /\ conn[id] = "auth"
    /\ conn' = [conn EXCEPT ![id] = "open"]
    /\ Emit(id, <<"CredentialHarvest">>)
    /\ UNCHANGED is_ended

shell_request(id) ==
    /\ conn[id] = "open" /\ sent[id]["SessionStart"] < MaxShells
    /\ Emit(id, <<"SessionStart">>)
    /\ UNCHANGED <<conn, is_ended>>

\* A command line; downloads and exits aside, that is all the archive sees.
Command(id) ==
    /\ conn[id] = "open" /\ sent[id]["CommandRun"] < MaxCommands
    /\ \E w \in Words : EmitWord(id, <<"CommandRun">>, w)
    /\ UNCHANGED <<conn, is_ended>>

\* teardown_session: the end is announced, then the files are analysed.
Teardown(id) ==
    /\ conn[id] = "open" /\ ~is_ended[id]
    /\ is_ended' = [is_ended EXCEPT ![id] = TRUE]
    /\ \E n \in 0..MaxPayloads :
         Emit(id, <<"SessionEnd">> \o [i \in 1..n |-> "PayloadCaptured"])
    /\ UNCHANGED conn

\* The handler is dropped: without an end, the files are analysed all the same.
Drop(id) ==
    /\ conn[id] # "over"
    /\ conn' = [conn EXCEPT ![id] = "over"]
    /\ \E n \in IF is_ended[id] THEN {0} ELSE 0..MaxPayloads :
         Emit(id, [i \in 1..n |-> "PayloadCaptured"])
    /\ UNCHANGED is_ended

\* The dashboard's tailer hands the next event to the store.
Ingest ==
    /\ pipe # <<>>
    /\ ingest(Head(pipe))
    /\ pipe' = Tail(pipe)
    /\ UNCHANGED <<conn, is_ended, sent>>

Init ==
    /\ StoreInit
    /\ conn = [id \in Ids |-> "auth"]
    /\ is_ended = [id \in Ids |-> FALSE]
    /\ sent = [id \in Ids |-> [k \in Kinds |-> 0]]
    /\ pipe = <<>>

Next ==
    \/ \E id \in Ids : Authenticate(id) \/ shell_request(id) \/ Command(id)
                       \/ Teardown(id) \/ Drop(id)
    \/ Ingest
    \/ HourPasses /\ UNCHANGED gateway

Spec == Init /\ [][Next]_<<vars, gateway>>

-----------------------------------------------------------------------------
(* Properties *)

Starts(o) == {i \in 1..Len(ingested) : ingested[i].kind = "SessionStart" /\ ingested[i].id = o}

\* The archive forgets the oldest session first, by its first start and however
\* often it was started again: it is in there until as many others as the
\* archive holds have started after it.
OldestForgottenFirst ==
    \A id \in Ids \ DOMAIN sessions : Starts(id) # {} =>
        \E i \in Starts(id) :
            Cardinality({o \in Ids \ {id} : \E j \in Starts(o) : j > i}) >= ArchiveCap
=============================================================================
