---------------------------- MODULE LimitProofs -----------------------------
(***************************************************************************)
(* The two limits the server puts on its peers.                            *)
(* The session limit holds for any finite set of connections, any set of   *)
(* addresses and any positive limit.  The three invariants of              *)
(* SessionTracker are inductive together: the counts are exact because     *)
(* every counted task has an entry to decrement, and the limit holds       *)
(* because the count that the check compares with it is exact.             *)
(* The MR_REG limit holds for every limit, every length of a second and a  *)
(* clock that runs as long as it likes.  The bound on a second rests on    *)
(* two facts that the counter alone does not show: windows that admitted   *)
(* something are at least a second apart, and a window numbers what it     *)
(* admits from 1 to the limit.                                             *)
(***************************************************************************)
EXTENDS SessionTracker, RateLimit, FiniteSetTheorems, TLAPS

TrackerInv == TrackerTypeOK /\ CountsExact /\ LimitRespected
-----------------------------------------------------------------------------

\* The tasks counted for an address form a finite set, so the count of an
\* address with one is a positive number (handle_connection never decrements
\* a zero count).
LEMMA CountedFinite ==
    ASSUME NEW a
    PROVE  /\ IsFiniteSet(CountedAt(a))
           /\ Cardinality(CountedAt(a)) \in Nat
           /\ (Cardinality(CountedAt(a)) = 0) <=> (CountedAt(a) = {})
BY TrackerAssumption, FS_Subset, FS_CardinalityType, FS_EmptySet DEF CountedAt

\* What the limit check reads (tracker.entry(ip).or_insert(0)) is the number
\* of counted tasks of the address, entry or not.
LEMMA CountIsExact ==
    ASSUME TrackerTypeOK, CountsExact, NEW a \in Addresses
    PROVE  Count(a) = Cardinality(CountedAt(a))
BY FS_EmptySet DEF CountsExact, Count

\* A step that leaves the map and every set of counted tasks alone keeps the
\* invariants about them.
LEMMA SameCounts ==
    ASSUME CountsExact, LimitRespected, session_tracker' = session_tracker,
           \A a \in Addresses : CountedAt(a)' = CountedAt(a),
           Tracked \subseteq Addresses
    PROVE  CountsExact' /\ LimitRespected'
BY DEF CountsExact, LimitRespected, Tracked

\* The first accepted connection finds an empty map (run_server).
LEMMA TrackerInitInv == TrackerInit => TrackerInv
<1> SUFFICES ASSUME TrackerInit PROVE TrackerInv
  OBVIOUS
<1>1. \A a \in Addresses : CountedAt(a) = {}
  BY DEF TrackerInit, CountedAt, Counted
<1>2. LimitRespected
  BY <1>1, FS_EmptySet, TrackerAssumption DEF LimitRespected
<1> QED
  BY <1>1, <1>2 DEF TrackerInv, TrackerInit, TrackerTypeOK, Tracked, CountsExact

\* Accepting a connection counts nothing yet.
LEMMA AcceptInv ==
    ASSUME TrackerInv, NEW t \in Tasks, Accept(t)
    PROVE  TrackerInv'
<1> USE DEF TrackerInv
<1> QED
  BY SameCounts DEF TrackerTypeOK, Accept, Goto, Tracked, Counted, CountedAt

\* A refused connection leaves the count of its address as it was: the limit
\* is positive, so the address already had an entry.
LEMMA RefuseInv ==
    ASSUME TrackerInv, NEW t \in Tasks, Refuse(t)
    PROVE  TrackerInv'
<1> USE DEF TrackerInv
<1> QED
  BY TrackerAssumption, SameCounts DEF TrackerTypeOK, Refuse, Goto, Tracked, Counted, Entry,
     Count, LimitReached, CountedAt

\* An admitted connection raises its address's count and joins its counted
\* tasks in the same critical section; the check leaves room for it.
LEMMA AdmitInv ==
    ASSUME TrackerInv, NEW t \in Tasks, Admit(t)
    PROVE  TrackerInv'
<1> USE DEF TrackerInv
<1>1. PICK b \in Addresses : b = ip[t]
  BY DEF TrackerTypeOK
<1>2. b \in Addresses /\ t \notin CountedAt(b)
  BY DEF TrackerTypeOK, Admit, CountedAt, Counted
<1>3. Count(b) = Cardinality(CountedAt(b)) /\ Count(b) \in Nat
  BY CountIsExact, CountedFinite
<1>4. \A a \in Addresses \ {b} : CountedAt(a)' = CountedAt(a)
  BY <1>1 DEF TrackerTypeOK, Admit, Goto, CountedAt, Counted
<1>5. Cardinality(CountedAt(b)') = Count(b) + 1
  <2>1. IsFiniteSet(CountedAt(b))
    BY CountedFinite
  <2>2. Cardinality(CountedAt(b) \cup {t}) = Cardinality(CountedAt(b)) + 1
    <3> HIDE DEF TrackerInv
    <3> QED
      BY Zenon, <1>2, <2>1, FS_AddElement
  <2> QED
    BY <1>3, <1>1, <2>2 DEF TrackerTypeOK, Admit, Goto, CountedAt, Counted
<1>6. Tracked' = Tracked \cup {b}
  BY <1>1 DEF Admit, Entry, Tracked
<1>7. CountsExact'
  <2>1. ASSUME NEW a \in Tracked'
        PROVE  session_tracker'[a] = Cardinality(CountedAt(a)')
    BY <1>4, <1>5, <1>6, <1>1 DEF CountsExact, TrackerTypeOK, Admit, Entry
  <2>2. Tracked' = {a \in Addresses : CountedAt(a)' # {}}
    BY <1>1, <1>4, <1>6 DEF CountsExact, TrackerTypeOK, Admit, Goto, CountedAt, Counted
  <2> QED
    BY <2>1, <2>2 DEF CountsExact
<1>8. LimitRespected'
  BY <1>1, <1>3, TrackerAssumption, <1>4, <1>5 DEF Admit, LimitReached, LimitRespected
<1> QED
  BY <1>1, <1>3, TrackerAssumption, <1>6, <1>7, <1>8 DEF Admit, LimitReached, Entry,
     TrackerTypeOK, Goto, Counted

\* The handshake, the upgrade and the session, panics included, move a counted task to another
\* counted place and never touch the map.
LEMMA CountedMoveInv ==
    ASSUME TrackerInv, NEW t \in Tasks,
           TlsHandshake(t) \/ WsUpgrade(t) \/ SessionEnds(t) \/ SessionPanics(t)
    PROVE  TrackerInv'
<1> USE DEF TrackerInv
<1>1. PICK next \in Counted : Goto(t, next)
  BY DEF TlsHandshake, WsUpgrade, SessionEnds, SessionPanics, Counted
<1> QED
  BY <1>1, SameCounts DEF TrackerTypeOK, Goto, Tracked, TlsHandshake, WsUpgrade, SessionEnds,
     SessionPanics, Counted, CountedAt

\* An exit uncounts exactly the task that leaves, and the last one removes
\* the entry of its address.
LEMMA ReleaseInv ==
    ASSUME TrackerInv, NEW t \in Tasks, Release(t)
    PROVE  TrackerInv'
<1> USE DEF TrackerInv
<1>1. PICK b \in Addresses : b = ip[t]
  BY DEF TrackerTypeOK
<1>2. b \in Addresses /\ t \in CountedAt(b)
  BY <1>1 DEF TrackerTypeOK, Release, CountedAt, Counted
<1>3. b \in Tracked
  BY <1>2 DEF CountsExact
<1>4. Count(b) = Cardinality(CountedAt(b)) /\ Count(b) \in Nat \ {0}
  BY <1>2, CountIsExact, CountedFinite
<1>5. CountedAt(b)' = CountedAt(b) \ {t}
  BY DEF TrackerTypeOK, Release, Goto, CountedAt, Counted
<1>6. \A a \in Addresses \ {b} : CountedAt(a)' = CountedAt(a)
  BY <1>1 DEF TrackerTypeOK, Release, Goto, CountedAt, Counted
<1>7. Cardinality(CountedAt(b)') = Count(b) - 1 /\ IsFiniteSet(CountedAt(b)')
  BY <1>2, <1>4, <1>5, CountedFinite, FS_RemoveElement
<1>8. (Count(b) - 1 = 0) <=> (CountedAt(b)' = {})
  BY ZenonT(30), <1>7, FS_EmptySet
<1>9. LimitRespected'
  BY <1>4, <1>6, <1>7, TrackerAssumption DEF LimitRespected
<1>10. CASE Count(b) - 1 = 0
  BY <1>1, <1>3, <1>10, <1>6, <1>8, <1>9 DEF Release, Tracked, TrackerTypeOK, Goto,
     CountsExact
<1>11. CASE Count(b) - 1 # 0
  <2>1. session_tracker' = Entry(b, Count(b) - 1)
    BY <1>1, <1>3, <1>11 DEF Release
  <2>2. Tracked' = Tracked
    BY ZenonT(30), <1>3, <2>1 DEF Tracked, Entry
  <2>3. TrackerTypeOK'
    BY <2>2, <1>3, <2>1, <1>4, <1>11, TrackerAssumption DEF TrackerTypeOK, Release, Goto,
       Entry, LimitRespected
  <2>4. Tracked' = {a \in Addresses : CountedAt(a)' # {}}
    BY <1>2, <1>6, <1>8, <1>11, <2>2 DEF CountsExact
  <2>5. \A a \in Tracked' : session_tracker'[a] = Cardinality(CountedAt(a)')
    BY <1>6, <1>7, <2>2, <2>1 DEF CountsExact, TrackerTypeOK, Entry
  <2> QED
    BY <1>9, <2>3, <2>4, <2>5 DEF CountsExact
<1> QED
  BY <1>10, <1>11

\* Every step of every task keeps the three invariants.
LEMMA TrackerStepInv == TrackerInv /\ [TrackerNext]_trackerVars => TrackerInv'
<1> SUFFICES ASSUME TrackerInv, [TrackerNext]_trackerVars PROVE TrackerInv'
  OBVIOUS
<1>1. CASE UNCHANGED trackerVars
  BY <1>1 DEF trackerVars, TrackerInv, TrackerTypeOK, CountsExact, LimitRespected, CountedAt,
     Tracked
<1>2. CASE TrackerNext
  <2>1. PICK t \in Tasks : \/ Accept(t)
                           \/ LockedStep(t)
                           \/ TlsHandshake(t)
                           \/ WsUpgrade(t)
                           \/ SessionEnds(t)
                           \/ SessionPanics(t)
    BY <1>2 DEF TrackerNext
  <2> QED
    BY <2>1, AcceptInv, RefuseInv, AdmitInv, CountedMoveInv, ReleaseInv DEF LockedStep
<1> QED
  BY <1>1, <1>2
-----------------------------------------------------------------------------

\* The invariant holds throughout every run of the server.
THEOREM TrackerInvariant == TrackerSpec => []TrackerInv
BY PTL, TrackerInitInv, TrackerStepInv DEF TrackerSpec

\* The entries of the map stay positive and within the limit, so no exit of
\* handle_connection takes a u32 count below zero.
THEOREM TrackerTypeCorrect == TrackerSpec => []TrackerTypeOK
<1>1. TrackerInv => TrackerTypeOK
  BY DEF TrackerInv
<1> QED
  BY PTL, <1>1, TrackerInvariant

\* The map's counts are the live connections per address, and addresses
\* without one have no entry, in every state of every run of handle_connection
\* tasks.
THEOREM CountsAlwaysExact == TrackerSpec => []CountsExact
<1>1. TrackerInv => CountsExact
  BY DEF TrackerInv
<1> QED
  BY PTL, <1>1, TrackerInvariant

\* No interleaving of connections exceeds max_sessions_per_ip for an address.
THEOREM LimitAlwaysRespected == TrackerSpec => []LimitRespected
<1>1. TrackerInv => LimitRespected
  BY DEF TrackerInv
<1> QED
  BY PTL, <1>1, TrackerInvariant
-----------------------------------------------------------------------------
Admitted == DOMAIN admitted

\* A request is admitted within a second of the opening of its window.
InWindow ==
    \A i \in Admitted :
        /\ admitted[i].window <= admitted[i].at
        /\ admitted[i].at < admitted[i].window + Second
        /\ admitted[i].at <= now
        /\ admitted[i].window <= mr_reg_window_start

\* Windows are a second apart at least, the current one included.
Apart ==
    /\ \A i \in Admitted :
          admitted[i].window < mr_reg_window_start =>
              admitted[i].window + Second <= mr_reg_window_start
    /\ \A i, j \in Admitted :
          admitted[i].window < admitted[j].window =>
              admitted[i].window + Second <= admitted[j].window

\* A window numbers what it admits, the current one up to mr_reg_count.
Numbered ==
    /\ \A i, j \in Admitted :
          admitted[i].window = admitted[j].window /\ admitted[i].nth = admitted[j].nth
              => i = j
    /\ \A i \in Admitted :
          admitted[i].window = mr_reg_window_start => admitted[i].nth <= mr_reg_count
    /\ \A n \in 1 .. mr_reg_count :
          \E i \in Admitted :
              admitted[i].window = mr_reg_window_start /\ admitted[i].nth = n

RateInv == RateTypeOK /\ InWindow /\ Apart /\ Numbered
-----------------------------------------------------------------------------
(* A request that is admitted is appended to the history, at a fresh index. *)
LEMMA Appended ==
    ASSUME RateTypeOK, NEW g \in Grants, admitted' = Append(admitted, g)
    PROVE  /\ Admitted' = Admitted \cup {Len(admitted) + 1}
           /\ Len(admitted) + 1 \notin Admitted
           /\ admitted'[Len(admitted) + 1] = g
           /\ \A i \in Admitted : admitted'[i] = admitted[i]
BY DEF Admitted

(* The entries of the history are numbers.                                  *)
LEMMA GrantType ==
    ASSUME RateTypeOK, NEW i \in Admitted
    PROVE  admitted[i].at \in Nat /\ admitted[i].window \in Nat /\ admitted[i].nth \in Nat
<1>1. admitted[i] \in Grants
    BY DEF RateTypeOK, Admitted
<1> QED
    BY <1>1 DEF Grants

(* Nothing has been admitted when the session begins.                       *)
LEMMA RateInitInv == RateInit => RateInv
BY RateAssumption DEF RateInit, Admitted, RateTypeOK, RateInv, InWindow, Apart, Numbered

(* Time passes and nothing else.                                            *)
LEMMA TickInv ==
    ASSUME RateInv, Tick
    PROVE  RateInv'
BY GrantType, RateAssumption DEF RateInv, RateTypeOK, InWindow, Tick, Admitted, Apart,
   Numbered

(* A refused request finds its window still open and full: it changes       *)
(* nothing at all.                                                          *)
LEMMA RefusedStutters ==
    ASSUME RateTypeOK, MrReg, Refused
    PROVE  /\ UNCHANGED rateVars
           /\ ~WindowOver /\ mr_reg_count = MrRegRateLimit
BY RateAssumption DEF RateTypeOK, MrReg, Refused, CountNow, rateVars

(* An admitted request takes the next number of its window.                 *)
LEMMA AdmittedInv ==
    ASSUME RateInv, MrReg, ~Refused
    PROVE  RateInv'
<1> DEFINE w == IF WindowOver THEN now ELSE mr_reg_window_start
           g == [at |-> now, window |-> w, nth |-> CountNow + 1]
           k == Len(admitted) + 1
<1>1. /\ now' = now /\ mr_reg_window_start' = w /\ mr_reg_count' = CountNow + 1
      /\ admitted' = Append(admitted, g)
    BY DEF MrReg, Grant
<1>2. /\ now \in 0 .. MaxTime /\ w \in 0 .. now
      /\ CountNow \in 0 .. MrRegRateLimit - 1 /\ now < w + Second
      /\ mr_reg_window_start <= w
    BY RateAssumption DEF RateInv, RateTypeOK, Refused, CountNow, WindowOver
<1>3. g \in Grants /\ RateTypeOK'
    BY <1>2, RateAssumption, <1>1 DEF Grants, RateInv, RateTypeOK
<1>4. /\ Admitted' = Admitted \cup {k} /\ k \notin Admitted
      /\ admitted'[k] = g
      /\ \A i \in Admitted : admitted'[i] = admitted[i]
    BY Zenon, <1>1, <1>3, Appended DEF RateInv
<1>5. \A i \in Admitted : /\ admitted[i].at \in Nat /\ admitted[i].window \in Nat
                          /\ admitted[i].nth \in Nat
    BY GrantType DEF RateInv
<1>6. g.at = now /\ g.window = w /\ g.nth = CountNow + 1
    OBVIOUS
<1>7. mr_reg_window_start \in Nat /\ Second \in Nat /\ w \in Nat
    BY RateAssumption DEF RateInv, RateTypeOK
<1>8. WindowOver => w = now /\ mr_reg_window_start + Second <= w /\ CountNow = 0
    BY <1>7 DEF WindowOver, CountNow, RateInv, RateTypeOK
<1>9. ~WindowOver => w = mr_reg_window_start /\ CountNow = mr_reg_count
    BY DEF CountNow
<1> HIDE DEF w, g, k
<1>10. InWindow'
    <2>1. ASSUME NEW i \in Admitted
          PROVE  /\ admitted[i].window <= admitted[i].at
                 /\ admitted[i].at < admitted[i].window + Second
                 /\ admitted[i].at <= now
                 /\ admitted[i].window <= w
        BY <1>2, <1>5, <1>7 DEF RateInv, InWindow
    <2>2. ASSUME NEW i \in Admitted'
          PROVE  /\ admitted'[i].window <= admitted'[i].at
                 /\ admitted'[i].at < admitted'[i].window + Second
                 /\ admitted'[i].at <= now
                 /\ admitted'[i].window <= w
        BY <1>4, <2>1, <1>2, <1>6
    <2> QED
        BY Zenon, <1>1, <2>2 DEF InWindow
<1>11. ASSUME NEW i \in Admitted, admitted[i].window < w
       PROVE  admitted[i].window + Second <= w
    BY <1>5, <1>7, <1>8, <1>9, <1>11 DEF RateInv, InWindow, Apart
<1>12. Apart'
    <2>1. \A i \in Admitted : admitted[i].window <= w
        BY <1>2, <1>5, <1>7 DEF RateInv, InWindow
    <2>2. ASSUME NEW i \in Admitted', admitted'[i].window < w
          PROVE  admitted'[i].window + Second <= w
        BY <1>4, <1>11, <2>2, <1>6, <1>7
    <2>3. ASSUME NEW i \in Admitted', NEW j \in Admitted',
                 admitted'[i].window < admitted'[j].window
          PROVE  admitted'[i].window + Second <= admitted'[j].window
        <3>1. CASE i \in Admitted /\ j \in Admitted
            BY <1>4, <2>3, <3>1 DEF RateInv, Apart
        <3>2. CASE j = k
            BY <1>4, <1>6, <2>2, <2>3, <3>2
        <3>3. CASE i = k /\ j \in Admitted
            BY <1>4, <1>5, <1>6, <1>7, <2>1, <2>3, <3>3
        <3> QED
            BY <1>4, <3>1, <3>2, <3>3
    <2> QED
        BY Zenon, <1>1, <2>2, <2>3 DEF Apart
<1>13. \A i \in Admitted : admitted[i].window = w => admitted[i].nth <= CountNow
    BY <1>5, <1>7, <1>8, <1>9 DEF RateInv, InWindow, Numbered
<1>14. Numbered'
    <2>1. ASSUME NEW i \in Admitted', NEW j \in Admitted',
                 admitted'[i].window = admitted'[j].window,
                 admitted'[i].nth = admitted'[j].nth
          PROVE  i = j
        BY <1>4, <2>1, <1>2, <1>6, <1>13 DEF RateInv, Numbered
    <2>2. ASSUME NEW i \in Admitted', admitted'[i].window = w
          PROVE  admitted'[i].nth <= CountNow + 1
        BY <1>2, <1>4, <1>5, <1>6, <1>13, <2>2
    <2>3. ASSUME NEW n \in 1 .. CountNow + 1
          PROVE  \E i \in Admitted' : admitted'[i].window = w /\ admitted'[i].nth = n
        BY <1>4, <1>6, <1>2, <1>8, <1>9 DEF RateInv, Numbered
    <2> QED
        BY Zenon, <1>1, <2>1, <2>2, <2>3 DEF Numbered
<1> QED
    BY <1>3, <1>10, <1>12, <1>14 DEF RateInv

(* Every step keeps the invariant.                                          *)
LEMMA RateStepInv ==
    ASSUME RateInv, [RateNext]_rateVars
    PROVE  RateInv'
<1>1. CASE Tick
    BY <1>1, TickInv
<1>2. CASE MrReg /\ ~Refused
    BY <1>2, AdmittedInv
<1>3. CASE UNCHANGED rateVars
    BY <1>3 DEF rateVars, RateInv, RateTypeOK, InWindow, Apart, Numbered, Admitted
<1>4. CASE MrReg /\ Refused
    BY <1>3, <1>4, RefusedStutters DEF RateInv
<1> QED
    BY <1>1, <1>2, <1>3, <1>4 DEF RateNext
-----------------------------------------------------------------------------
(* What two windows admit comes to twice the limit at most.                 *)
LEMMA TwoWindows ==
    ASSUME RateInv, NEW S \in SUBSET Admitted, NEW v, NEW w,
           \A i \in S : admitted[i].window \in {v, w}
    PROVE  IsFiniteSet(S) /\ Cardinality(S) <= 2 * MrRegRateLimit
<1> DEFINE T == {v, w} \X (1 .. MrRegRateLimit)
           f == [i \in S |-> <<admitted[i].window, admitted[i].nth>>]
<1>1. f \in Injection(S, T)
    <2>1. \A i \in S : admitted[i].nth \in 1 .. MrRegRateLimit
        <3>1. \A i \in S : admitted[i] \in Grants
            BY DEF Admitted, RateInv, RateTypeOK
        <3> QED
            BY <3>1 DEF Grants
    <2> QED
        BY <2>1 DEF Injection, IsInjective, RateInv, Numbered
<1>2. /\ IsFiniteSet(1 .. MrRegRateLimit)
      /\ Cardinality(1 .. MrRegRateLimit) = MrRegRateLimit
    BY RateAssumption, FS_Interval
<1>3. IsFiniteSet({v, w}) /\ Cardinality({v, w}) \in {1, 2}
    <2>1. IsFiniteSet({v}) /\ Cardinality({v}) = 1
        BY Zenon, FS_Singleton
    <2> QED
        BY <2>1, FS_AddElement
<1>4. /\ IsFiniteSet(T)
      /\ Cardinality(T) = Cardinality({v, w}) * Cardinality(1 .. MrRegRateLimit)
    BY Zenon, <1>2, <1>3, FS_Product
<1>5. Cardinality(T) <= 2 * MrRegRateLimit /\ Cardinality(T) \in Nat
    <2> HIDE DEF T
    <2>1. CASE Cardinality({v, w}) = 1
        BY <1>2, <1>4, <2>1, RateAssumption
    <2>2. CASE Cardinality({v, w}) = 2
        BY <1>2, <1>4, <2>2, RateAssumption
    <2> QED
        BY <1>3, <2>1, <2>2
<1>6. IsFiniteSet(S) /\ Cardinality(S) <= Cardinality(T)
    <2> HIDE DEF T, f
    <2> QED
        BY <1>1, <1>4, FS_Injection
<1> QED
    <2> HIDE DEF T, f
    <2> QED
        BY <1>5, <1>6, FS_CardinalityType, RateAssumption

(* A second meets two windows at most.                                      *)
LEMMA TwoWindowsASecond ==
    ASSUME RateInv, NEW t \in Nat
    PROVE  \E v, w : \A i \in InSecond(t) : admitted[i].window \in {v, w}
<1>1. ASSUME NEW i \in InSecond(t)
      PROVE  /\ i \in Admitted
             /\ admitted[i].at \in Nat /\ admitted[i].window \in Nat
             /\ t - Second < admitted[i].at /\ admitted[i].at <= t
             /\ admitted[i].window <= admitted[i].at
             /\ admitted[i].at < admitted[i].window + Second
    BY GrantType DEF InSecond, Admitted, RateInv, InWindow
<1>2. ASSUME NEW i \in InSecond(t), NEW j \in InSecond(t), NEW l \in InSecond(t),
             admitted[i].window < admitted[j].window,
             admitted[j].window < admitted[l].window
      PROVE  FALSE
    BY <1>1, <1>2, RateAssumption DEF RateInv, Apart
<1>3. CASE \A i, j \in InSecond(t) : admitted[i].window = admitted[j].window
    <2>1. CASE InSecond(t) # {}
        <3>1. PICK i \in InSecond(t) : TRUE
            BY <2>1
        <3> WITNESS admitted[i].window, admitted[i].window
        <3> QED
            BY <1>3
    <2> QED
        BY <2>1
<1>4. CASE \E i, j \in InSecond(t) : admitted[i].window # admitted[j].window
    <2>1. PICK i \in InSecond(t), j \in InSecond(t) :
             admitted[i].window < admitted[j].window
        BY <1>1, <1>4
    <2>2. ASSUME NEW l \in InSecond(t)
          PROVE  admitted[l].window \in {admitted[i].window, admitted[j].window}
        BY <1>1, <1>2, <2>1
    <2> WITNESS admitted[i].window, admitted[j].window
    <2> QED
        BY <2>2
<1> QED
    BY <1>3, <1>4

(* Twice the limit, and a finite number, in any second.                     *)
LEMMA SecondBounded ==
    ASSUME RateInv, NEW t \in Nat
    PROVE  /\ IsFiniteSet(InSecond(t))
           /\ Cardinality(InSecond(t)) <= 2 * MrRegRateLimit
<1>1. InSecond(t) \in SUBSET Admitted
    BY DEF InSecond, Admitted
<1>2. PICK v, w : \A i \in InSecond(t) : admitted[i].window \in {v, w}
    BY Zenon, TwoWindowsASecond
<1> QED
    BY Zenon, <1>1, <1>2, TwoWindows

(* A full window that is still open admitted its limit within a second.     *)
LEMMA FullWindow ==
    ASSUME RateInv, ~WindowOver, mr_reg_count = MrRegRateLimit
    PROVE  Cardinality(InSecond(now)) >= MrRegRateLimit
<1> DEFINE L == 1 .. MrRegRateLimit
           P(n, i) == admitted[i].window = mr_reg_window_start /\ admitted[i].nth = n
           f == [n \in L |-> CHOOSE i \in InSecond(now) : P(n, i)]
<1>1. ASSUME NEW n \in L
      PROVE  \E i \in InSecond(now) : P(n, i)
    <2>1. PICK i \in Admitted : P(n, i)
        BY DEF RateInv, Numbered
    <2>2. i \in InSecond(now)
        BY <2>1, GrantType, RateAssumption DEF InSecond, Admitted, RateInv, RateTypeOK,
           WindowOver, InWindow
    <2> QED
        BY <2>1, <2>2
<1>2. f \in Injection(L, InSecond(now))
    BY <1>1 DEF Injection, IsInjective
<1>3. Cardinality(L) <= Cardinality(InSecond(now))
    <2> HIDE DEF L, f
    <2> QED
        BY <1>2, RateAssumption, SecondBounded, FS_Injection DEF RateInv, RateTypeOK,
           WindowOver
<1> QED
    BY <1>3, RateAssumption, FS_Interval
-----------------------------------------------------------------------------
(* The invariant holds in every run of the limiter.                         *)
THEOREM RateInvariant == RateSpec => []RateInv
BY PTL, RateInitInv, RateStepInv DEF RateSpec

(* The counter of handle_mr_reg never passes the limit, nor does the number *)
(* of a request within its window.                                          *)
THEOREM RateTypeCorrect == RateSpec => []RateTypeOK
<1>1. RateInv => RateTypeOK
    BY DEF RateInv
<1> QED
    BY PTL, <1>1, RateInvariant

(* No second admits more than twice the limit, for every limit, every       *)
(* length of a second and all arrivals of MR_REG.                           *)
THEOREM TwiceTheLimitAlways == RateSpec => []TwiceTheLimit
<1>1. RateInv => TwiceTheLimit
    BY SecondBounded DEF TwiceTheLimit
<1> QED
    BY PTL, <1>1, RateInvariant

(* handle_mr_reg refuses only a session that was admitted its limit within  *)
(* the last second.                                                         *)
THEOREM RefusalsAlwaysJustified == RateSpec => RefusalsJustified
<1> DEFINE Justified == (MrReg /\ admitted' = admitted) =>
                            Cardinality(InSecond(now)) >= MrRegRateLimit
<1>1. ASSUME RateInv, MrReg, admitted' = admitted
      PROVE  Cardinality(InSecond(now)) >= MrRegRateLimit
    BY <1>1, RefusedStutters, FullWindow DEF MrReg, RateInv
<1>2. RateInv => [Justified]_rateVars
    BY <1>1
<1> QED
    BY PTL, <1>2, RateInvariant DEF RefusalsJustified
=============================================================================
