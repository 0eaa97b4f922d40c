--------------------------- MODULE SessionTracker ---------------------------
(***************************************************************************)
(* The per-address session limit of the server (run_server and             *)
(* handle_connection in crates/rdows-server/src/lib.rs).                   *)
(*                                                                         *)
(* run_server spawns one task per accepted TCP connection.  The tasks      *)
(* share session_tracker, a map from address to session count behind a     *)
(* mutex: a task takes the mutex once to check the limit and count itself, *)
(* runs the TLS handshake, the WebSocket upgrade and the session without   *)
(* it, and takes it again to uncount itself.  The two critical sections    *)
(* are one action each; everything between them interleaves freely with    *)
(* the other tasks.                                                        *)
(*                                                                         *)
(* A definition named Bad... is a plausible fault of the one after it; no  *)
(* specification refers to it.                                             *)
(***************************************************************************)
EXTENDS Integers, FiniteSets

CONSTANTS
    Tasks,              \* connections the listener may have accepted at once
    Addresses,          \* peer addresses
    MaxSessionsPerIp    \* config.max_sessions_per_ip

ASSUME TrackerAssumption ==
    /\ IsFiniteSet(Tasks)
    /\ MaxSessionsPerIp \in Nat \ {0}

VARIABLES
    session_tracker,    \* address -> count, for the addresses with an entry
    ip,                 \* the peer address of each task
    pc                  \* where each task is in handle_connection

trackerVars == <<session_tracker, ip, pc>>

Tracked == DOMAIN session_tracker

\* A task counts from the block that admits it to the block that uncounts it;
\* "ending" is a task whose handshake failed or whose session is over.  "lost" is
\* one that panicked: tokio drops the task, and its count is never taken back.
Counted == {"tls", "upgrade", "session", "ending", "lost"}

\* Every entry of the map counts at least one task, and no more than the limit.
TrackerTypeOK ==
    /\ Tracked \subseteq Addresses
    /\ session_tracker \in [Tracked -> 1 .. MaxSessionsPerIp]
    /\ ip \in [Tasks -> Addresses]
    /\ pc \in [Tasks -> Counted \cup {"idle", "accepted"}]

TrackerInit ==
    /\ session_tracker = [a \in {} |-> 0]
    /\ ip \in [Tasks -> Addresses]
    /\ pc = [t \in Tasks |-> "idle"]

Goto(t, label) == pc' = [pc EXCEPT ![t] = label]

\* listener.accept() and tokio::spawn.
Accept(t) ==
    /\ pc[t] = "idle"
    /\ \E a \in Addresses : ip' = [ip EXCEPT ![t] = a]
    /\ Goto(t, "accepted")
    /\ UNCHANGED session_tracker

\* tracker.entry(ip).or_insert(0).
Count(a) == IF a \in Tracked THEN session_tracker[a] ELSE 0

Entry(a, n) == [x \in Tracked \cup {a} |-> IF x = a THEN n ELSE session_tracker[x]]

BadLimitReached(a) == Count(a) > MaxSessionsPerIp

LimitReached(a) == Count(a) >= MaxSessionsPerIp

\* The entry stays in the map when the limit turns the connection away.
Refuse(t) ==
    /\ pc[t] = "accepted"
    /\ LimitReached(ip[t])
    /\ session_tracker' = Entry(ip[t], Count(ip[t]))
    /\ Goto(t, "idle")
    /\ UNCHANGED ip

Admit(t) ==
    /\ pc[t] = "accepted"
    /\ ~LimitReached(ip[t])
    /\ session_tracker' = Entry(ip[t], Count(ip[t]) + 1)
    /\ Goto(t, "tls")
    /\ UNCHANGED ip

BadTlsHandshake(t) ==
    /\ pc[t] = "tls"
    /\ \E next \in {"upgrade", "idle"} : Goto(t, next)
    /\ UNCHANGED <<session_tracker, ip>>

\* acceptor.accept(stream).await completes or fails.
TlsHandshake(t) ==
    /\ pc[t] = "tls"
    /\ \E next \in {"upgrade", "ending"} : Goto(t, next)
    /\ UNCHANGED <<session_tracker, ip>>

\* accept_hdr_async completes, or fails (check_subprotocol may refuse).
WsUpgrade(t) ==
    /\ pc[t] = "upgrade"
    /\ \E next \in {"session", "ending"} : Goto(t, next)
    /\ UNCHANGED <<session_tracker, ip>>

\* run_session returns.
SessionEnds(t) ==
    /\ pc[t] = "session"
    /\ Goto(t, "ending")
    /\ UNCHANGED <<session_tracker, ip>>

\* run_session panics (a length of a frame underflows, a registration overflows)
\* and the task is unwound past the closing block.
SessionPanics(t) ==
    /\ pc[t] = "session"
    /\ Goto(t, "lost")
    /\ UNCHANGED <<session_tracker, ip>>

BadRelease(t) ==
    /\ pc[t] = "ending"
    /\ session_tracker' =
         IF ip[t] \in Tracked THEN Entry(ip[t], Count(ip[t]) - 1)
                              ELSE session_tracker
    /\ Goto(t, "idle")
    /\ UNCHANGED ip

BadWaitingRelease(t) ==
    /\ pc[t] = "ending"
    /\ IF Count(ip[t]) = 1
       THEN /\ session_tracker' = [a \in Tracked \ {ip[t]} |-> session_tracker[a]]
            /\ Goto(t, "idle")
       ELSE UNCHANGED <<session_tracker, pc>>
    /\ UNCHANGED ip

\* The closing block, the same after a failed handshake, a failed upgrade and
\* a finished session.  An address whose count reaches zero leaves the map.
Release(t) ==
    /\ pc[t] = "ending"
    /\ session_tracker' =
         IF ip[t] \notin Tracked THEN session_tracker
         ELSE IF Count(ip[t]) - 1 = 0
              THEN [a \in Tracked \ {ip[t]} |-> session_tracker[a]]
              ELSE Entry(ip[t], Count(ip[t]) - 1)
    /\ Goto(t, "idle")
    /\ UNCHANGED ip

\* The steps that wait for the mutex only, never for the peer.
LockedStep(t) == Refuse(t) \/ Admit(t) \/ Release(t)

TrackerNext ==
    \E t \in Tasks :
        \/ Accept(t)
        \/ LockedStep(t)
        \/ TlsHandshake(t)
        \/ WsUpgrade(t)
        \/ SessionEnds(t)
        \/ SessionPanics(t)

TrackerSpec == TrackerInit /\ [][TrackerNext]_trackerVars

\* The mutex is fair and no task holds it across an await, so a task that
\* waits for it gets it.  The handshakes have no timeout and a session ends
\* when the peer ends it: neither is fair, and no peer has to connect.
TrackerFairness == \A t \in Tasks : WF_trackerVars(LockedStep(t))

TrackerFairSpec == TrackerSpec /\ TrackerFairness

-----------------------------------------------------------------------------

CountedAt(a) == {t \in Tasks : ip[t] = a /\ pc[t] \in Counted}

\* The count the map holds for an address is the number of tasks of that
\* address between their two critical sections, panicked ones included,
\* whatever the tasks of the other addresses do and wherever a handshake
\* failed; an address without such a task has no entry, so the map does not
\* grow with past peers (handle_connection, the blocks at the limit check and
\* at each exit).
CountsExact ==
    /\ \A a \in Tracked : session_tracker[a] = Cardinality(CountedAt(a))
    /\ Tracked = {a \in Addresses : CountedAt(a) # {}}

\* No address ever has more than max_sessions_per_ip connections past the
\* limit check, although the check and the session are far apart.
LimitRespected == \A a \in Addresses : Cardinality(CountedAt(a)) <= MaxSessionsPerIp

Lost(a) == {t \in CountedAt(a) : pc[t] = "lost"}

\* An address gets back every slot but those of sessions that panicked: once its
\* other sessions are all ending, its count comes down to the panicked ones
\* unless another connection of the address gets in (handle_connection releases
\* on every exit but the unwinding one).
SlotsComeBack ==
    \A a \in Addresses :
        (\A t \in CountedAt(a) : pc[t] \in {"ending", "lost"})
            ~> \/ Count(a) = Cardinality(Lost(a))
               \/ \E t \in CountedAt(a) : pc[t] \notin {"ending", "lost"}

=============================================================================
