------------------------ MODULE Http3ProviderProofs ------------------------
(* Proofs about Http3Provider, for any number of tasks and sessions: its     *)
(* limits, its signals, what a shutdown leaves behind, and that it           *)
(* implements ProviderSpec.                                                  *)
EXTENDS Http3Provider, FiniteSetTheorems, TLAPS

Enders == Closers \cup Retirers

\* A dialer holds the session its request or stream is on; a closing task
\* holds what it drained, and has stopped the one it is at.
HoldInv ==
    /\ \A d \in Dialers : pc[d] \in {"request", "stream"} =>
            job[d] = "dial" /\ \E s \in Sessions : holds[d] = {s}
    /\ \A d \in Dialers : pc[d] \notin {"request", "stream"} => holds[d] = {}
    /\ \A c \in Enders : pc[c] \notin {"retiring", "stopping", "joining"} => holds[c] = {}
    /\ \A c \in Enders : ending[c] # NoSession => ending[c] \in holds[c] \cap stopped

\* Who is where: dialers and closing tasks have steps of their own.
PlaceInv ==
    /\ \A d \in Dialers : pc[d] \in {"idle", "permit", "lock", "connect", "request", "stream", "full"}
    /\ \A c \in Enders : pc[c] \in {"idle", "retire", "shutdown", "retiring", "stopping", "joining",
                                    "waiting"}
    /\ \A d \in Dialers : pc[d] = "permit" => job[d] = "dial"

\* connect_lock is kept across a connection attempt, for which there is room,
\* and by a retire.
LockInv ==
    /\ \A d \in Dialers : pc[d] = "connect" =>
            lock = d /\ current = NoSession /\ Cardinality(all) < MaxSessions
    /\ \A c \in Enders : pc[c] \in {"retiring", "joining"} => lock = c

\* After the stop flag and a drain there is nothing to publish to.
StopInv ==
    /\ \A c \in Enders : pc[c] \in {"shutdown", "stopping", "waiting"} => stop
    /\ down => stop
    /\ down \/ (\E c \in Enders : pc[c] \in {"stopping", "waiting"}) => current = NoSession /\ all = {}

\* A session lives while somebody holds it; it is open until it is stopped, and
\* an open one is in `all', in the hands of a closing task, or was left behind by
\* a retire that was dropped.
LiveInv ==
    /\ current # NoSession => current \in all
    /\ dropping \cap Live(holds, current) = {}
    /\ opened \subseteq Live(holds, current) \cup dropping
    /\ Live(holds, current) \subseteq opened \cup stopped
    /\ opened \cap stopped = {}
    /\ \A s \in opened \ dropping : s \in all \cup strays \/ \E c \in Enders : s \in holds[c]

\* A writer task is its stream's, and outlives the stop of its session only
\* until it is collected.
WriterInv ==
    /\ \A s \in Sessions : \A d \in writers[s] : pc[d] = "stream" /\ holds[d] = {s}
    /\ \A s \in stopped : writers[s] # {} =>
            \E c \in Enders : ending[c] = s /\ pc[c] \in {"retiring", "stopping"}

\* What a dropped retire left behind is open, and nobody will come to it: it is
\* neither in `all' nor in the hands of a closing task.  What one closing task has
\* in hand is out of reach of the others.
StrayInv ==
    /\ strays \subseteq opened /\ strays \cap all = {}
    /\ \A c \in Enders : holds[c] \cap (all \cup strays) = {}
    /\ \A c, e \in Enders : c # e => holds[c] \cap holds[e] = {}

SessInv ==
    TypeOK /\ HoldInv /\ PlaceInv /\ LockInv /\ StopInv /\ LiveInv /\ WriterInv /\ StrayInv

\* A new provider satisfies the invariant.
LEMMA SessInit == Init => SessInv
<1> SUFFICES ASSUME Init PROVE SessInv
  OBVIOUS
<1> USE Http3Assumption DEF Init, Procs, Enders
<1>1. TypeOK
  BY DEF TypeOK
<1>2. HoldInv /\ PlaceInv /\ LockInv /\ StopInv
  BY DEF HoldInv, PlaceInv, LockInv, StopInv
<1>3. LiveInv
  BY DEF LiveInv, Live
<1>4. WriterInv /\ StrayInv
  BY DEF WriterInv, StrayInv
<1> QED
  BY <1>1, <1>2, <1>3, <1>4 DEF SessInv

\* Sets of sessions are finite.
LEMMA SessionsFinite ==
    \A S \in SUBSET Sessions : IsFiniteSet(S) /\ Cardinality(S) \in Nat
BY Http3Assumption, FS_Subset, FS_CardinalityType DEF Http3Assumption

\* Every step keeps the types.
LEMMA TypeNext == TypeOK /\ HoldInv /\ [Next]_vars => TypeOK'
<1> SUFFICES ASSUME TypeOK /\ HoldInv, [Next]_vars PROVE TypeOK'
  OBVIOUS
<1> USE Http3Assumption DEF Goto, Hold, sessVars, histVars, Procs, Enders, TypeOK, Live, Usable
<1>1. ASSUME NEW d \in Dialers, NEW j \in Jobs, Start(d, j) PROVE TypeOK'
  BY <1>1 DEF Start
<1>2. ASSUME NEW d \in Dialers, AcquirePermit(d) PROVE TypeOK'
  BY <1>2 DEF AcquirePermit
<1>3. ASSUME NEW d \in Dialers, TakeLock(d) /\ WithSession(d) PROVE TypeOK'
  BY <1>3 DEF TakeLock, WithSession
<1>4. ASSUME NEW d \in Dialers, TakeLock(d) /\ WithoutSession(d) PROVE TypeOK'
  BY <1>4 DEF TakeLock, WithoutSession, Counted
<1>5. ASSUME NEW d \in Dialers, Redial(d) PROVE TypeOK'
  BY <1>5 DEF Redial
<1>6. ASSUME NEW d \in Dialers, GiveUp(d) PROVE TypeOK'
  BY <1>6 DEF GiveUp
<1>7. ASSUME NEW d \in Dialers, DialEnds(d) PROVE TypeOK'
  BY <1>7 DEF DialEnds, Abandon
<1>8. ASSUME NEW d \in Dialers, RequestRefused(d) PROVE TypeOK'
  BY <1>8 DEF RequestRefused, Abandon
<1>9. ASSUME NEW d \in Dialers, NEW s \in Sessions, Connected(d, s) PROVE TypeOK'
  BY <1>9 DEF Connected, MayPublish, FreshSessions, RingAll
<1>10. ASSUME NEW d \in Dialers, OpenStream(d) PROVE TypeOK'
  <2>1. PICK s \in Sessions : holds[d] = {s}
    BY <1>10 DEF OpenStream, HoldInv
  <2> QED
    BY <1>10, <2>1 DEF OpenStream
<1>11. ASSUME NEW d \in Dialers, DropStream(d) PROVE TypeOK'
  BY <1>11 DEF DropStream
<1>12. ASSUME NEW c \in Closers \cup Retirers, Retire(c) PROVE TypeOK'
  BY <1>12 DEF Retire
<1>13. ASSUME NEW c \in Closers \cup Retirers, Shutdown(c) PROVE TypeOK'
  BY <1>13 DEF Shutdown
<1>14. ASSUME NEW c \in Closers \cup Retirers, Drain(c) PROVE TypeOK'
  BY <1>14 DEF Drain, MayDrain
<1>15. ASSUME NEW c \in Closers \cup Retirers, NEW s \in Sessions, StopSession(c, s) PROVE TypeOK'
  BY <1>15 DEF StopSession
<1>16. ASSUME NEW c \in Closers \cup Retirers, CollectWriters(c) PROVE TypeOK'
  BY <1>16 DEF CollectWriters
<1>17. ASSUME NEW c \in Closers \cup Retirers, Joined(c) PROVE TypeOK'
  BY <1>17 DEF Joined
<1>18. ASSUME NEW c \in Closers \cup Retirers, AllStopped(c) PROVE TypeOK'
  BY <1>18 DEF AllStopped
<1>19. ASSUME NEW c \in Closers \cup Retirers, Return(c) PROVE TypeOK'
  BY <1>19 DEF Return
<1>20. ASSUME NEW s \in Sessions, Break(s) PROVE TypeOK'
  BY <1>20 DEF Break
<1>21. ASSUME NEW s \in Sessions, Destroy(s) PROVE TypeOK'
  BY <1>21 DEF Destroy, Signal, RingAll
<1>22. CASE UNCHANGED vars
  BY <1>22 DEF vars
<1>23. ASSUME NEW c \in Closers \cup Retirers, CancelClose(c) PROVE TypeOK'
  BY <1>23 DEF CancelClose
<1> QED
  BY <1>1, <1>2, <1>3, <1>4, <1>5, <1>6, <1>7, <1>8, <1>9, <1>10, <1>11, <1>12, <1>13, <1>14,
     <1>15, <1>16, <1>17, <1>18, <1>19, <1>20, <1>21, <1>22, <1>23
     DEF Next, DialerNext, CloserNext, TakeLock

\* Every step keeps dialers and closing tasks to their places.
LEMMA PlaceNext == TypeOK /\ PlaceInv /\ [Next]_vars => PlaceInv'
<1> SUFFICES ASSUME TypeOK /\ PlaceInv, [Next]_vars PROVE PlaceInv'
  OBVIOUS
<1> USE Http3Assumption DEF Goto, Hold, sessVars, histVars, Procs, Enders, TypeOK, PlaceInv
<1>1. ASSUME NEW d \in Dialers, NEW j \in Jobs, Start(d, j) PROVE PlaceInv'
  BY <1>1 DEF Start
<1>2. ASSUME NEW d \in Dialers, AcquirePermit(d) PROVE PlaceInv'
  BY <1>2 DEF AcquirePermit
<1>3. ASSUME NEW d \in Dialers, TakeLock(d) /\ WithSession(d) PROVE PlaceInv'
  BY <1>3 DEF TakeLock, WithSession
<1>4. ASSUME NEW d \in Dialers, TakeLock(d) /\ WithoutSession(d) PROVE PlaceInv'
  BY <1>4 DEF TakeLock, WithoutSession, Counted
<1>5. ASSUME NEW d \in Dialers, Redial(d) PROVE PlaceInv'
  BY <1>5 DEF Redial
<1>6. ASSUME NEW d \in Dialers, GiveUp(d) PROVE PlaceInv'
  BY <1>6 DEF GiveUp
<1>7. ASSUME NEW d \in Dialers, DialEnds(d) PROVE PlaceInv'
  BY <1>7 DEF DialEnds, Abandon
<1>8. ASSUME NEW d \in Dialers, RequestRefused(d) PROVE PlaceInv'
  BY <1>8 DEF RequestRefused, Abandon
<1>9. ASSUME NEW d \in Dialers, NEW s \in Sessions, Connected(d, s) PROVE PlaceInv'
  BY <1>9 DEF Connected, MayPublish, FreshSessions, RingAll
<1>10. ASSUME NEW d \in Dialers, OpenStream(d) PROVE PlaceInv'
  BY <1>10 DEF OpenStream, MayWrite
<1>11. ASSUME NEW d \in Dialers, DropStream(d) PROVE PlaceInv'
  BY <1>11 DEF DropStream
<1>12. ASSUME NEW c \in Closers \cup Retirers, Retire(c) PROVE PlaceInv'
  BY <1>12 DEF Retire
<1>13. ASSUME NEW c \in Closers \cup Retirers, Shutdown(c) PROVE PlaceInv'
  BY <1>13 DEF Shutdown
<1>14. ASSUME NEW c \in Closers \cup Retirers, Drain(c) PROVE PlaceInv'
  BY <1>14 DEF Drain, MayDrain
<1>15. ASSUME NEW c \in Closers \cup Retirers, NEW s \in Sessions, StopSession(c,
              s) PROVE PlaceInv'
  BY <1>15 DEF StopSession
<1>16. ASSUME NEW c \in Closers \cup Retirers, CollectWriters(c) PROVE PlaceInv'
  BY <1>16 DEF CollectWriters
<1>17. ASSUME NEW c \in Closers \cup Retirers, Joined(c) PROVE PlaceInv'
  BY <1>17 DEF Joined
<1>18. ASSUME NEW c \in Closers \cup Retirers, AllStopped(c) PROVE PlaceInv'
  BY <1>18 DEF AllStopped
<1>19. ASSUME NEW c \in Closers \cup Retirers, Return(c) PROVE PlaceInv'
  BY <1>19 DEF Return
<1>20. ASSUME NEW s \in Sessions, Break(s) PROVE PlaceInv'
  BY <1>20 DEF Break
<1>21. ASSUME NEW s \in Sessions, Destroy(s) PROVE PlaceInv'
  BY <1>21 DEF Destroy, Signal, RingAll
<1>22. CASE UNCHANGED vars
  BY <1>22 DEF vars
<1>23. ASSUME NEW c \in Closers \cup Retirers, CancelClose(c) PROVE PlaceInv'
  BY <1>23 DEF CancelClose
<1> QED
  BY <1>1, <1>2, <1>3, <1>4, <1>5, <1>6, <1>7, <1>8, <1>9, <1>10, <1>11, <1>12, <1>13, <1>14,
     <1>15, <1>16, <1>17, <1>18, <1>19, <1>20, <1>21, <1>22, <1>23
     DEF Next, DialerNext, CloserNext, TakeLock

\* Every step keeps the holders.
LEMMA HoldNext == SessInv /\ [Next]_vars => HoldInv'
<1> SUFFICES ASSUME SessInv, [Next]_vars PROVE HoldInv'
  OBVIOUS
<1> USE Http3Assumption DEF Goto, Hold, sessVars, histVars, Procs, Enders, SessInv, TypeOK, PlaceInv,
        HoldInv, Usable, Live
<1>1. ASSUME NEW d \in Dialers, NEW j \in Jobs, Start(d, j) PROVE HoldInv'
  BY <1>1 DEF Start
<1>2. ASSUME NEW d \in Dialers, AcquirePermit(d) PROVE HoldInv'
  BY <1>2 DEF AcquirePermit
<1>3. ASSUME NEW d \in Dialers, TakeLock(d) /\ WithSession(d) PROVE HoldInv'
  BY <1>3 DEF TakeLock, WithSession
<1>4. ASSUME NEW d \in Dialers, TakeLock(d) /\ WithoutSession(d) PROVE HoldInv'
  BY <1>4 DEF TakeLock, WithoutSession, Counted
<1>5. ASSUME NEW d \in Dialers, Redial(d) PROVE HoldInv'
  BY <1>5 DEF Redial
<1>6. ASSUME NEW d \in Dialers, GiveUp(d) PROVE HoldInv'
  BY <1>6 DEF GiveUp
<1>7. ASSUME NEW d \in Dialers, DialEnds(d) PROVE HoldInv'
  BY <1>7 DEF DialEnds, Abandon
<1>8. ASSUME NEW d \in Dialers, RequestRefused(d) PROVE HoldInv'
  BY <1>8 DEF RequestRefused, Abandon
<1>9. ASSUME NEW d \in Dialers, NEW s \in Sessions, Connected(d, s) PROVE HoldInv'
  BY <1>9 DEF Connected, MayPublish, FreshSessions, RingAll
<1>10. ASSUME NEW d \in Dialers, OpenStream(d) PROVE HoldInv'
  BY <1>10 DEF OpenStream, MayWrite
<1>11. ASSUME NEW d \in Dialers, DropStream(d) PROVE HoldInv'
  BY <1>11 DEF DropStream
<1>12. ASSUME NEW c \in Closers \cup Retirers, Retire(c) PROVE HoldInv'
  BY <1>12 DEF Retire
<1>13. ASSUME NEW c \in Closers \cup Retirers, Shutdown(c) PROVE HoldInv'
  BY <1>13 DEF Shutdown
<1>14. ASSUME NEW c \in Closers \cup Retirers, Drain(c) PROVE HoldInv'
  BY <1>14 DEF Drain, MayDrain
<1>15. ASSUME NEW c \in Closers \cup Retirers, NEW s \in Sessions, StopSession(c,
              s) PROVE HoldInv'
  BY <1>15 DEF StopSession
<1>16. ASSUME NEW c \in Closers \cup Retirers, CollectWriters(c) PROVE HoldInv'
  BY <1>16 DEF CollectWriters
<1>17. ASSUME NEW c \in Closers \cup Retirers, Joined(c) PROVE HoldInv'
  BY <1>17 DEF Joined
<1>18. ASSUME NEW c \in Closers \cup Retirers, AllStopped(c) PROVE HoldInv'
  BY <1>18 DEF AllStopped
<1>19. ASSUME NEW c \in Closers \cup Retirers, Return(c) PROVE HoldInv'
  BY <1>19 DEF Return
<1>20. ASSUME NEW s \in Sessions, Break(s) PROVE HoldInv'
  BY <1>20 DEF Break
<1>21. ASSUME NEW s \in Sessions, Destroy(s) PROVE HoldInv'
  BY <1>21 DEF Destroy, LiveInv
<1>22. CASE UNCHANGED vars
  BY <1>22 DEF vars
<1>23. ASSUME NEW c \in Closers \cup Retirers, CancelClose(c) PROVE HoldInv'
  BY <1>23 DEF CancelClose
<1> QED
  BY <1>1, <1>2, <1>3, <1>4, <1>5, <1>6, <1>7, <1>8, <1>9, <1>10, <1>11, <1>12, <1>13, <1>14,
     <1>15, <1>16, <1>17, <1>18, <1>19, <1>20, <1>21, <1>22, <1>23
     DEF Next, DialerNext, CloserNext, TakeLock

\* Every step keeps the stop final.
LEMMA StopNext == SessInv /\ [Next]_vars => StopInv'
<1> SUFFICES ASSUME SessInv, [Next]_vars PROVE StopInv'
  OBVIOUS
<1> USE Http3Assumption DEF Goto, Hold, sessVars, histVars, Procs, Enders, SessInv, TypeOK, PlaceInv,
        StopInv
<1>1. ASSUME NEW d \in Dialers, NEW j \in Jobs, Start(d, j) PROVE StopInv'
  BY <1>1 DEF Start
<1>2. ASSUME NEW d \in Dialers, AcquirePermit(d) PROVE StopInv'
  BY <1>2 DEF AcquirePermit
<1>3. ASSUME NEW d \in Dialers, TakeLock(d) /\ WithSession(d) PROVE StopInv'
  BY <1>3 DEF TakeLock, WithSession
<1>4. ASSUME NEW d \in Dialers, TakeLock(d) /\ WithoutSession(d) PROVE StopInv'
  BY <1>4 DEF TakeLock, WithoutSession, Counted
<1>5. ASSUME NEW d \in Dialers, Redial(d) PROVE StopInv'
  BY <1>5 DEF Redial
<1>6. ASSUME NEW d \in Dialers, GiveUp(d) PROVE StopInv'
  BY <1>6 DEF GiveUp
<1>7. ASSUME NEW d \in Dialers, DialEnds(d) PROVE StopInv'
  BY <1>7 DEF DialEnds, Abandon
<1>8. ASSUME NEW d \in Dialers, RequestRefused(d) PROVE StopInv'
  BY <1>8 DEF RequestRefused, Abandon
<1>9. ASSUME NEW d \in Dialers, NEW s \in Sessions, Connected(d, s) PROVE StopInv'
  BY <1>9 DEF Connected, MayPublish, FreshSessions, RingAll
<1>10. ASSUME NEW d \in Dialers, OpenStream(d) PROVE StopInv'
  BY <1>10 DEF OpenStream, MayWrite
<1>11. ASSUME NEW d \in Dialers, DropStream(d) PROVE StopInv'
  BY <1>11 DEF DropStream
<1>12. ASSUME NEW c \in Closers \cup Retirers, Retire(c) PROVE StopInv'
  BY <1>12 DEF Retire
<1>13. ASSUME NEW c \in Closers \cup Retirers, Shutdown(c) PROVE StopInv'
  BY <1>13 DEF Shutdown
<1>14. ASSUME NEW c \in Closers \cup Retirers, Drain(c) PROVE StopInv'
  BY <1>14 DEF Drain, MayDrain
<1>15. ASSUME NEW c \in Closers \cup Retirers, NEW s \in Sessions, StopSession(c,
              s) PROVE StopInv'
  BY <1>15 DEF StopSession
<1>16. ASSUME NEW c \in Closers \cup Retirers, CollectWriters(c) PROVE StopInv'
  BY <1>16 DEF CollectWriters
<1>17. ASSUME NEW c \in Closers \cup Retirers, Joined(c) PROVE StopInv'
  BY <1>17 DEF Joined
<1>18. ASSUME NEW c \in Closers \cup Retirers, AllStopped(c) PROVE StopInv'
  BY <1>18 DEF AllStopped
<1>19. ASSUME NEW c \in Closers \cup Retirers, Return(c) PROVE StopInv'
  BY <1>19 DEF Return
<1>20. ASSUME NEW s \in Sessions, Break(s) PROVE StopInv'
  BY <1>20 DEF Break
<1>21. ASSUME NEW s \in Sessions, Destroy(s) PROVE StopInv'
  BY <1>21 DEF Destroy, Signal, RingAll
<1>22. CASE UNCHANGED vars
  BY <1>22 DEF vars
<1>23. ASSUME NEW c \in Closers \cup Retirers, CancelClose(c) PROVE StopInv'
  BY <1>23 DEF CancelClose
<1> QED
  BY <1>1, <1>2, <1>3, <1>4, <1>5, <1>6, <1>7, <1>8, <1>9, <1>10, <1>11, <1>12, <1>13, <1>14,
     <1>15, <1>16, <1>17, <1>18, <1>19, <1>20, <1>21, <1>22, <1>23
     DEF Next, DialerNext, CloserNext, TakeLock

\* Every step keeps connect_lock its holder's.
LEMMA LockNext == SessInv /\ [Next]_vars => LockInv'
<1> SUFFICES ASSUME SessInv, [Next]_vars PROVE LockInv'
  OBVIOUS
<1> USE Http3Assumption DEF Goto, Hold, sessVars, histVars, Procs, Enders, SessInv, TypeOK, PlaceInv,
        LockInv
<1>1. ASSUME NEW d \in Dialers, NEW j \in Jobs, Start(d, j) PROVE LockInv'
  BY <1>1 DEF Start
<1>2. ASSUME NEW d \in Dialers, AcquirePermit(d) PROVE LockInv'
  BY <1>2 DEF AcquirePermit
<1>3. ASSUME NEW d \in Dialers, TakeLock(d) /\ WithSession(d) PROVE LockInv'
  BY <1>3 DEF TakeLock, WithSession
<1>4. ASSUME NEW d \in Dialers, TakeLock(d) /\ WithoutSession(d) PROVE LockInv'
  <2>1. all' \subseteq Sessions
    BY <1>4 DEF TakeLock, WithoutSession
  <2>2. Cardinality(all') \in Nat
    BY <2>1, SessionsFinite
  <2> QED
    BY <1>4, <2>2 DEF TakeLock, WithoutSession, Counted
<1>5. ASSUME NEW d \in Dialers, Redial(d) PROVE LockInv'
  BY <1>5 DEF Redial
<1>6. ASSUME NEW d \in Dialers, GiveUp(d) PROVE LockInv'
  BY <1>6 DEF GiveUp
<1>7. ASSUME NEW d \in Dialers, DialEnds(d) PROVE LockInv'
  BY <1>7 DEF DialEnds, Abandon
<1>8. ASSUME NEW d \in Dialers, RequestRefused(d) PROVE LockInv'
  BY <1>8 DEF RequestRefused, Abandon
<1>9. ASSUME NEW d \in Dialers, NEW s \in Sessions, Connected(d, s) PROVE LockInv'
  BY <1>9 DEF Connected, MayPublish, FreshSessions, RingAll
<1>10. ASSUME NEW d \in Dialers, OpenStream(d) PROVE LockInv'
  BY <1>10 DEF OpenStream, MayWrite
<1>11. ASSUME NEW d \in Dialers, DropStream(d) PROVE LockInv'
  BY <1>11 DEF DropStream
<1>12. ASSUME NEW c \in Closers \cup Retirers, Retire(c) PROVE LockInv'
  BY <1>12 DEF Retire
<1>13. ASSUME NEW c \in Closers \cup Retirers, Shutdown(c) PROVE LockInv'
  BY <1>13 DEF Shutdown
<1>14. ASSUME NEW c \in Closers \cup Retirers, Drain(c) PROVE LockInv'
  <2>1. Cardinality(all') < MaxSessions
    BY <1>14, FS_EmptySet DEF Drain
  <2> QED
    BY <1>14, <2>1 DEF Drain, MayDrain
<1>15. ASSUME NEW c \in Closers \cup Retirers, NEW s \in Sessions, StopSession(c,
              s) PROVE LockInv'
  BY <1>15 DEF StopSession
<1>16. ASSUME NEW c \in Closers \cup Retirers, CollectWriters(c) PROVE LockInv'
  BY <1>16 DEF CollectWriters
<1>17. ASSUME NEW c \in Closers \cup Retirers, Joined(c) PROVE LockInv'
  BY <1>17 DEF Joined
<1>18. ASSUME NEW c \in Closers \cup Retirers, AllStopped(c) PROVE LockInv'
  BY <1>18 DEF AllStopped
<1>19. ASSUME NEW c \in Closers \cup Retirers, Return(c) PROVE LockInv'
  BY <1>19 DEF Return
<1>20. ASSUME NEW s \in Sessions, Break(s) PROVE LockInv'
  BY <1>20 DEF Break
<1>21. ASSUME NEW s \in Sessions, Destroy(s) PROVE LockInv'
  BY <1>21 DEF Destroy, Signal, RingAll
<1>22. CASE UNCHANGED vars
  BY <1>22 DEF vars
<1>23. ASSUME NEW c \in Closers \cup Retirers, CancelClose(c) PROVE LockInv'
  BY <1>23 DEF CancelClose
<1> QED
  BY <1>1, <1>2, <1>3, <1>4, <1>5, <1>6, <1>7, <1>8, <1>9, <1>10, <1>11, <1>12, <1>13, <1>14,
     <1>15, <1>16, <1>17, <1>18, <1>19, <1>20, <1>21, <1>22, <1>23
     DEF Next, DialerNext, CloserNext, TakeLock

\* Every step keeps the lives of the sessions.
LEMMA LiveNext == SessInv /\ [Next]_vars => LiveInv'
<1> SUFFICES ASSUME SessInv, [Next]_vars PROVE LiveInv'
  OBVIOUS
<1> USE Http3Assumption DEF Goto, Hold, sessVars, histVars, Procs, Enders, SessInv, TypeOK, PlaceInv,
        HoldInv, LiveInv, Usable, Live
<1>1. ASSUME NEW d \in Dialers, NEW j \in Jobs, Start(d, j) PROVE LiveInv'
  BY <1>1 DEF Start
<1>2. ASSUME NEW d \in Dialers, AcquirePermit(d) PROVE LiveInv'
  BY <1>2 DEF AcquirePermit
<1>3. ASSUME NEW d \in Dialers, TakeLock(d) /\ WithSession(d) PROVE LiveInv'
  BY <1>3 DEF TakeLock, WithSession
<1>4. ASSUME NEW d \in Dialers, TakeLock(d) /\ WithoutSession(d) PROVE LiveInv'
  BY <1>4 DEF TakeLock, WithoutSession, Counted
<1>5. ASSUME NEW d \in Dialers, Redial(d) PROVE LiveInv'
  BY <1>5 DEF Redial
<1>6. ASSUME NEW d \in Dialers, GiveUp(d) PROVE LiveInv'
  BY <1>6 DEF GiveUp
<1>7. ASSUME NEW d \in Dialers, DialEnds(d) PROVE LiveInv'
  BY <1>7 DEF DialEnds, Abandon
<1>8. ASSUME NEW d \in Dialers, RequestRefused(d) PROVE LiveInv'
  BY <1>8 DEF RequestRefused, Abandon
<1>9. ASSUME NEW d \in Dialers, NEW s \in Sessions, Connected(d, s) PROVE LiveInv'
  BY <1>9 DEF Connected, MayPublish, FreshSessions, RingAll
<1>10. ASSUME NEW d \in Dialers, OpenStream(d) PROVE LiveInv'
  BY <1>10 DEF OpenStream, MayWrite
<1>11. ASSUME NEW d \in Dialers, DropStream(d) PROVE LiveInv'
  BY <1>11 DEF DropStream
<1>12. ASSUME NEW c \in Closers \cup Retirers, Retire(c) PROVE LiveInv'
  BY <1>12 DEF Retire
<1>13. ASSUME NEW c \in Closers \cup Retirers, Shutdown(c) PROVE LiveInv'
  BY <1>13 DEF Shutdown
<1>14. ASSUME NEW c \in Closers \cup Retirers, Drain(c) PROVE LiveInv'
  BY <1>14 DEF Drain, MayDrain
<1>15. ASSUME NEW c \in Closers \cup Retirers, NEW s \in Sessions, StopSession(c,
              s) PROVE LiveInv'
  BY <1>15 DEF StopSession
<1>16. ASSUME NEW c \in Closers \cup Retirers, CollectWriters(c) PROVE LiveInv'
  BY <1>16 DEF CollectWriters
<1>17. ASSUME NEW c \in Closers \cup Retirers, Joined(c) PROVE LiveInv'
  BY <1>17 DEF Joined
<1>18. ASSUME NEW c \in Closers \cup Retirers, AllStopped(c) PROVE LiveInv'
  BY <1>18 DEF AllStopped
<1>19. ASSUME NEW c \in Closers \cup Retirers, Return(c) PROVE LiveInv'
  BY <1>19 DEF Return
<1>20. ASSUME NEW s \in Sessions, Break(s) PROVE LiveInv'
  BY <1>20 DEF Break
<1>21. ASSUME NEW s \in Sessions, Destroy(s) PROVE LiveInv'
  BY <1>21 DEF Destroy, Signal, RingAll
<1>22. CASE UNCHANGED vars
  BY <1>22 DEF vars
<1>23. ASSUME NEW c \in Closers \cup Retirers, CancelClose(c) PROVE LiveInv'
  BY <1>23 DEF CancelClose
<1> QED
  BY <1>1, <1>2, <1>3, <1>4, <1>5, <1>6, <1>7, <1>8, <1>9, <1>10, <1>11, <1>12, <1>13, <1>14,
     <1>15, <1>16, <1>17, <1>18, <1>19, <1>20, <1>21, <1>22, <1>23
     DEF Next, DialerNext, CloserNext, TakeLock

\* Every step keeps the writer tasks known.
LEMMA WriterNext == SessInv /\ [Next]_vars => WriterInv'
<1> SUFFICES ASSUME SessInv, [Next]_vars PROVE WriterInv'
  OBVIOUS
<1> USE Http3Assumption DEF Goto, Hold, sessVars, histVars, Procs, Enders, SessInv, TypeOK, PlaceInv,
        HoldInv, WriterInv, Live
<1>1. ASSUME NEW d \in Dialers, NEW j \in Jobs, Start(d, j) PROVE WriterInv'
  BY <1>1 DEF Start
<1>2. ASSUME NEW d \in Dialers, AcquirePermit(d) PROVE WriterInv'
  BY <1>2 DEF AcquirePermit
<1>3. ASSUME NEW d \in Dialers, TakeLock(d) /\ WithSession(d) PROVE WriterInv'
  BY <1>3 DEF TakeLock, WithSession
<1>4. ASSUME NEW d \in Dialers, TakeLock(d) /\ WithoutSession(d) PROVE WriterInv'
  BY <1>4 DEF TakeLock, WithoutSession, Counted
<1>5. ASSUME NEW d \in Dialers, Redial(d) PROVE WriterInv'
  BY <1>5 DEF Redial
<1>6. ASSUME NEW d \in Dialers, GiveUp(d) PROVE WriterInv'
  BY <1>6 DEF GiveUp
<1>7. ASSUME NEW d \in Dialers, DialEnds(d) PROVE WriterInv'
  BY <1>7 DEF DialEnds, Abandon
<1>8. ASSUME NEW d \in Dialers, RequestRefused(d) PROVE WriterInv'
  BY <1>8 DEF RequestRefused, Abandon
<1>9. ASSUME NEW d \in Dialers, NEW s \in Sessions, Connected(d, s) PROVE WriterInv'
  BY <1>9 DEF Connected, MayPublish, FreshSessions, RingAll
<1>10. ASSUME NEW d \in Dialers, OpenStream(d) PROVE WriterInv'
  BY <1>10 DEF OpenStream, MayWrite
<1>11. ASSUME NEW d \in Dialers, DropStream(d) PROVE WriterInv'
  BY <1>11 DEF DropStream
<1>12. ASSUME NEW c \in Closers \cup Retirers, Retire(c) PROVE WriterInv'
  BY <1>12 DEF Retire
<1>13. ASSUME NEW c \in Closers \cup Retirers, Shutdown(c) PROVE WriterInv'
  BY <1>13 DEF Shutdown
<1>14. ASSUME NEW c \in Closers \cup Retirers, Drain(c) PROVE WriterInv'
  BY <1>14 DEF Drain, MayDrain
<1>15. ASSUME NEW c \in Closers \cup Retirers, NEW s \in Sessions, StopSession(c,
              s) PROVE WriterInv'
  BY <1>15 DEF StopSession
<1>16. ASSUME NEW c \in Closers \cup Retirers, CollectWriters(c) PROVE WriterInv'
  BY <1>16 DEF CollectWriters
<1>17. ASSUME NEW c \in Closers \cup Retirers, Joined(c) PROVE WriterInv'
  BY <1>17 DEF Joined
<1>18. ASSUME NEW c \in Closers \cup Retirers, AllStopped(c) PROVE WriterInv'
  BY <1>18 DEF AllStopped
<1>19. ASSUME NEW c \in Closers \cup Retirers, Return(c) PROVE WriterInv'
  BY <1>19 DEF Return
<1>20. ASSUME NEW s \in Sessions, Break(s) PROVE WriterInv'
  BY <1>20 DEF Break
<1>21. ASSUME NEW s \in Sessions, Destroy(s) PROVE WriterInv'
  BY <1>21 DEF Destroy, Signal, RingAll
<1>22. CASE UNCHANGED vars
  BY <1>22 DEF vars
<1>23. ASSUME NEW c \in Closers \cup Retirers, CancelClose(c) PROVE WriterInv'
  BY <1>23 DEF CancelClose
<1> QED
  BY <1>1, <1>2, <1>3, <1>4, <1>5, <1>6, <1>7, <1>8, <1>9, <1>10, <1>11, <1>12, <1>13, <1>14,
     <1>15, <1>16, <1>17, <1>18, <1>19, <1>20, <1>21, <1>22, <1>23
     DEF Next, DialerNext, CloserNext, TakeLock

\* Every step leaves what was left behind alone.
LEMMA StrayNext == SessInv /\ [Next]_vars => StrayInv'
<1> SUFFICES ASSUME SessInv, [Next]_vars PROVE StrayInv'
  OBVIOUS
<1> USE Http3Assumption DEF Goto, Hold, sessVars, histVars, Procs, Enders, SessInv, TypeOK, PlaceInv,
        HoldInv, StrayInv, LiveInv, Live
<1>1. ASSUME NEW d \in Dialers, NEW j \in Jobs, Start(d, j) PROVE StrayInv'
  BY <1>1 DEF Start
<1>2. ASSUME NEW d \in Dialers, AcquirePermit(d) PROVE StrayInv'
  BY <1>2 DEF AcquirePermit
<1>3. ASSUME NEW d \in Dialers, TakeLock(d) /\ WithSession(d) PROVE StrayInv'
  BY <1>3 DEF TakeLock, WithSession
<1>4. ASSUME NEW d \in Dialers, TakeLock(d) /\ WithoutSession(d) PROVE StrayInv'
  BY <1>4 DEF TakeLock, WithoutSession, Counted
<1>5. ASSUME NEW d \in Dialers, Redial(d) PROVE StrayInv'
  BY <1>5 DEF Redial
<1>6. ASSUME NEW d \in Dialers, GiveUp(d) PROVE StrayInv'
  BY <1>6 DEF GiveUp
<1>7. ASSUME NEW d \in Dialers, DialEnds(d) PROVE StrayInv'
  BY <1>7 DEF DialEnds, Abandon
<1>8. ASSUME NEW d \in Dialers, RequestRefused(d) PROVE StrayInv'
  BY <1>8 DEF RequestRefused, Abandon
<1>9. ASSUME NEW d \in Dialers, NEW s \in Sessions, Connected(d, s) PROVE StrayInv'
  BY <1>9 DEF Connected, MayPublish, FreshSessions, RingAll
<1>10. ASSUME NEW d \in Dialers, OpenStream(d) PROVE StrayInv'
  BY <1>10 DEF OpenStream, MayWrite
<1>11. ASSUME NEW d \in Dialers, DropStream(d) PROVE StrayInv'
  BY <1>11 DEF DropStream
<1>12. ASSUME NEW c \in Closers \cup Retirers, Retire(c) PROVE StrayInv'
  BY <1>12 DEF Retire
<1>13. ASSUME NEW c \in Closers \cup Retirers, Shutdown(c) PROVE StrayInv'
  BY <1>13 DEF Shutdown
<1>14. ASSUME NEW c \in Closers \cup Retirers, Drain(c) PROVE StrayInv'
  BY <1>14 DEF Drain, MayDrain
<1>15. ASSUME NEW c \in Closers \cup Retirers, NEW s \in Sessions, StopSession(c,
              s) PROVE StrayInv'
  BY <1>15 DEF StopSession
<1>16. ASSUME NEW c \in Closers \cup Retirers, CollectWriters(c) PROVE StrayInv'
  BY <1>16 DEF CollectWriters
<1>17. ASSUME NEW c \in Closers \cup Retirers, Joined(c) PROVE StrayInv'
  BY <1>17 DEF Joined
<1>18. ASSUME NEW c \in Closers \cup Retirers, AllStopped(c) PROVE StrayInv'
  BY <1>18 DEF AllStopped
<1>19. ASSUME NEW c \in Closers \cup Retirers, Return(c) PROVE StrayInv'
  BY <1>19 DEF Return
<1>20. ASSUME NEW s \in Sessions, Break(s) PROVE StrayInv'
  BY <1>20 DEF Break
<1>21. ASSUME NEW s \in Sessions, Destroy(s) PROVE StrayInv'
  BY <1>21 DEF Destroy, Signal, RingAll
<1>22. CASE UNCHANGED vars
  BY <1>22 DEF vars
<1>23. ASSUME NEW c \in Closers \cup Retirers, CancelClose(c) PROVE StrayInv'
  BY <1>23 DEF CancelClose
<1> QED
  BY <1>1, <1>2, <1>3, <1>4, <1>5, <1>6, <1>7, <1>8, <1>9, <1>10, <1>11, <1>12, <1>13, <1>14,
     <1>15, <1>16, <1>17, <1>18, <1>19, <1>20, <1>21, <1>22, <1>23
     DEF Next, DialerNext, CloserNext, TakeLock

\* The sessions' invariant is inductive.
THEOREM SessInvariant == Spec => []SessInv
<1>1. SessInv /\ [Next]_vars => SessInv'
  BY TypeNext, PlaceNext, HoldNext, StopNext, LockNext, LiveNext, WriterNext, StrayNext
     DEF SessInv
<1> QED
  BY <1>1, SessInit, PTL DEF Spec

\* The provider's fields and its tasks' local state keep their types.
THEOREM Http3TypeCorrect == Spec => []TypeOK
<1>1. SessInv => TypeOK
  BY DEF SessInv
<1> QED
  BY <1>1, SessInvariant, PTL

\* Once a shutdown has returned, every session that no unfinished retire or
\* shutdown has in hand and no dropped retire left behind is closed and has no
\* writer task (shutdown, Session::stop, Http3Stream::new).
THEOREM Http3ShutdownCloses == Spec => []ShutdownClosesAll
<1>1. SessInv => ShutdownClosesAll
  <2> SUFFICES ASSUME SessInv, down, NEW s \in Sessions,
                      s \notin strays, \A c \in Enders : s \notin holds[c]
               PROVE  s \notin opened \ dropping /\ writers[s] = {}
    BY DEF ShutdownClosesAll, Closed, Enders
  <2> USE DEF SessInv
  <2>1. all = {}
    BY DEF StopInv
  <2>2. s \notin opened \ dropping
    BY <2>1 DEF LiveInv
  <2>3. ASSUME NEW d \in writers[s] PROVE FALSE
    <3>1. d \in Dialers /\ holds[d] = {s}
      BY DEF WriterInv, TypeOK
    <3>2. s \in Live(holds, current)
      BY <3>1 DEF Live, Procs
    <3>3. s \in stopped
      BY <2>2, <3>2 DEF LiveInv
    <3>4. PICK c \in Enders : ending[c] = s
      BY <3>3 DEF WriterInv
    <3> QED
      BY <3>4, Http3Assumption DEF HoldInv
  <2> QED
    BY <2>2, <2>3 DEF TypeOK
<1> QED
  BY <1>1, SessInvariant, PTL

\* A part of a set of sessions is no larger.
LEMMA FewerSessions ==
    \A S, T \in SUBSET Sessions : S \subseteq T => Cardinality(S) <= Cardinality(T)
BY SessionsFinite, FS_Subset

\* The sessions that count, and the permits taken.
Counting == (opened \ dropping) \ strays

LimitInv ==
    /\ Cardinality(Counting) <= MaxSessions
    /\ Cardinality(Permits) <= MaxStreams

\* Only a new connection adds a session, and there is room for it.
LEMMA SessionLimitNext ==
    ASSUME SessInv, SessInv', LimitInv, [Next]_vars
    PROVE  Cardinality(Counting') <= MaxSessions
<1> USE Http3Assumption DEF Http3Assumption
<1>0. Counting \in SUBSET Sessions /\ Counting' \in SUBSET Sessions
  BY DEF Counting, SessInv, TypeOK
<1>1. CASE \E d \in Dialers, s \in Sessions : Connected(d, s) /\ MayPublish
  <2>1. PICK d \in Dialers, s \in Sessions : Connected(d, s) /\ MayPublish
    BY <1>1
  <2>2. lock = d /\ Cardinality(all) < MaxSessions /\ ~stop
    BY <2>1 DEF Connected, MayPublish, SessInv, LockInv
  <2>3. \A c \in Enders : holds[c] = {}
    BY <2>2, Http3Assumption DEF SessInv, LockInv, StopInv, HoldInv, PlaceInv, Enders
  <2>4. Counting' \subseteq all \cup {s}
    BY <2>1, <2>3 DEF Connected, Hold, Counting, histVars, SessInv, LiveInv
  <2>5. Cardinality(all \cup {s}) = Cardinality(all) + 1
    <3>1. s \notin all /\ IsFiniteSet(all)
      BY <2>1, SessionsFinite DEF Connected, FreshSessions, SessInv, TypeOK
    <3> QED
      BY <3>1, FS_AddElement
  <2>6. Cardinality(Counting') <= Cardinality(all \cup {s})
    BY <1>0, <2>4, FewerSessions DEF SessInv, TypeOK
  <2>7. /\ Cardinality(all) \in Nat /\ Cardinality(all \cup {s}) \in Nat
        /\ Cardinality(Counting') \in Nat
    BY <1>0, SessionsFinite DEF SessInv, TypeOK
  <2> QED
    BY <2>2, <2>5, <2>6, <2>7
<1>2. CASE Counting' \subseteq Counting
  <2>1. Cardinality(Counting') <= Cardinality(Counting)
    BY <1>0, <1>2, FewerSessions
  <2>2. Cardinality(Counting') \in Nat /\ Cardinality(Counting) \in Nat
    BY <1>0, SessionsFinite DEF SessInv, TypeOK
  <2> QED
    BY <2>1, <2>2 DEF LimitInv
<1>3. ASSUME ~(\E d \in Dialers, s \in Sessions : Connected(d, s) /\ MayPublish)
      PROVE  Counting' \subseteq Counting
  <2> USE DEF Counting, Hold, sessVars, histVars
  <2>1. ASSUME NEW d \in Dialers,
               DialerNext(d) PROVE Counting' \subseteq Counting
    BY <1>3, <2>1
       DEF DialerNext, Start, AcquirePermit, TakeLock, WithSession, WithoutSession, Redial,
       GiveUp,
           DialEnds, RequestRefused, Abandon, Connected, OpenStream, DropStream
  <2>2. ASSUME NEW c \in Enders,
               CloserNext(c) PROVE Counting' \subseteq Counting
    BY <2>2 DEF CloserNext, Retire, Shutdown, Drain, StopSession, CollectWriters, Joined,
       AllStopped, Return, CancelClose
  <2>3. ASSUME NEW s \in Sessions, Break(s) \/ Destroy(s)
        PROVE  Counting' \subseteq Counting
    BY <2>3 DEF Break, Destroy
  <2> QED
    BY <2>1, <2>2, <2>3 DEF Next, vars, Enders
<1> QED
  BY <1>1, <1>2, <1>3

\* Only AcquirePermit takes a permit, and only one that is left.
LEMMA PermitNext ==
    ASSUME SessInv, SessInv', LimitInv, [Next]_vars
    PROVE  Cardinality(Permits') <= MaxStreams
<1> USE Http3Assumption DEF Http3Assumption
<1>1. /\ IsFiniteSet(Permits) /\ Cardinality(Permits) \in Nat
      /\ IsFiniteSet(Permits') /\ Cardinality(Permits') \in Nat
  <2>1. Permits \subseteq Procs /\ Permits' \subseteq Procs
    BY DEF Permits, Procs
  <2> QED
    BY <2>1, FS_Subset, FS_CardinalityType
<1>2. ASSUME NEW e \in Dialers, AcquirePermit(e) PROVE Cardinality(Permits') <= MaxStreams
  <2>1. Permits' = Permits \cup {e}
    BY <1>2 DEF AcquirePermit, Permits, Goto, SessInv, PlaceInv, TypeOK
  <2>2. Cardinality(Permits') <= Cardinality(Permits) + 1
    BY <1>1, <2>1, FS_AddElement
  <2> QED
    BY <1>1, <1>2, <2>2 DEF AcquirePermit
<1>3. CASE Permits' \subseteq Permits
  <2>1. Cardinality(Permits') <= Cardinality(Permits)
    BY <1>1, <1>3, FS_Subset
  <2> QED
    BY <1>1, <2>1 DEF LimitInv
<1>4. ASSUME ~(\E e \in Dialers : AcquirePermit(e)) PROVE Permits' \subseteq Permits
  <2> SUFFICES ASSUME NEW e \in Dialers, job'[e] = "dial",
                      pc'[e] \in {"lock", "connect", "request", "stream"}
               PROVE  job[e] = "dial" /\ pc[e] \in {"lock", "connect", "request", "stream"}
    BY DEF Permits
  <2> USE DEF SessInv, TypeOK, PlaceInv, Goto, Procs
  <2>1. ASSUME NEW d \in Dialers, DialerNext(d)
        PROVE  job[e] = "dial" /\ pc[e] \in {"lock", "connect", "request", "stream"}
    <3>1. CASE \E j \in Jobs : Start(d, j)
      BY <3>1 DEF Start
    <3>2. CASE TakeLock(d)
      BY <3>2 DEF TakeLock, WithSession, WithoutSession
    <3>3. CASE Redial(d) \/ GiveUp(d)
      BY <3>3 DEF Redial, GiveUp
    <3>4. CASE DialEnds(d) \/ RequestRefused(d) \/ OpenStream(d) \/ DropStream(d)
      BY <3>4 DEF DialEnds, RequestRefused, Abandon, OpenStream, DropStream
    <3>5. CASE \E s \in Sessions : Connected(d, s)
      BY <3>5 DEF Connected
    <3> QED
      BY <1>4, <2>1, <3>1, <3>2, <3>3, <3>4, <3>5 DEF DialerNext
  <2>2. ASSUME NEW c \in Enders, CloserNext(c)
        PROVE  job[e] = "dial" /\ pc[e] \in {"lock", "connect", "request", "stream"}
    BY <2>2 DEF CloserNext, Retire, Shutdown, Drain, StopSession, CollectWriters, Joined,
       AllStopped,
                Return, CancelClose, Enders
  <2>3. ASSUME NEW s \in Sessions, Break(s) \/ Destroy(s)
        PROVE  job[e] = "dial" /\ pc[e] \in {"lock", "connect", "request", "stream"}
    BY <2>3 DEF Break, Destroy
  <2> QED
    BY <2>1, <2>2, <2>3 DEF Next, vars, Enders
<1> QED
  BY <1>2, <1>3, <1>4

\* Neither limit is passed but by what dropped calls of retire left behind: sessions
\* that drain after GOAWAY, or that a retire has in hand, count still (session(), connect_addresses, the permits of dial).
THEOREM Http3LimitsKept == Spec => []LimitsKept
<1>1. Init => LimitInv
  <2>1. ASSUME Init PROVE Counting = {} /\ Permits = {}
    BY <2>1 DEF Init, Counting, Permits, Procs
  <2> QED
    BY <2>1, FS_EmptySet, Http3Assumption DEF LimitInv, Http3Assumption
<1>2. SessInv /\ SessInv' /\ LimitInv /\ [Next]_vars => LimitInv'
  BY SessionLimitNext, PermitNext DEF LimitInv
<1>3. SessInv /\ LimitInv => LimitsKept
  <2> SUFFICES ASSUME SessInv, LimitInv PROVE LimitsKept
    OBVIOUS
  <2>1. {d \in Dialers : pc[d] = "stream"} \subseteq Permits
    BY DEF Permits, SessInv, HoldInv
  <2>2. Permits \subseteq Procs
    BY DEF Permits, Procs
  <2>3. IsFiniteSet(Permits)
    BY <2>2, FS_Subset, Http3Assumption DEF Http3Assumption
  <2>4. PICK n : n = Cardinality({d \in Dialers : pc[d] = "stream"})
    OBVIOUS
  <2>5. PICK m : m = Cardinality(Permits)
    OBVIOUS
  <2>6. n \in Nat /\ m \in Nat /\ n <= m
    BY <2>1, <2>3, <2>4, <2>5, FS_Subset, FS_CardinalityType
  <2>7. n <= MaxStreams
    BY <2>5, <2>6, Http3Assumption DEF LimitInv, Http3Assumption
  <2> QED
    BY <2>4, <2>7 DEF LimitInv, LimitsKept, Counting
<1> QED
  BY <1>1, <1>2, <1>3, SessInvariant, PTL DEF Spec

\* Whoever lets go of the last reference to a session leaves it to its
\* destructor, and only the destructor takes it from there.
LEMMA DroppedNext ==
    ASSUME SessInv, [Next]_vars, ~(\E s \in Sessions : Destroy(s))
    PROVE  dropping \cup (Live(holds, current) \ Live(holds', current')) \subseteq dropping'
<1> DEFINE Goal == dropping \cup (Live(holds, current) \ Live(holds',
    current')) \subseteq dropping'
<1>1. ASSUME UNCHANGED <<holds, current, dropping>> PROVE Goal
  BY <1>1
<1>2. ASSUME NEW h, NEW cur, Hold(h, cur) PROVE Goal
  BY <1>2 DEF Hold
<1> HIDE DEF Goal
<1>3. ASSUME NEW d \in Dialers, DialerNext(d) PROVE Goal
  BY <1>3, <1>1, <1>2
     DEF DialerNext, Start, AcquirePermit, TakeLock, WithSession, WithoutSession, Redial, GiveUp,
         DialEnds, RequestRefused, Abandon, Connected, OpenStream, DropStream, sessVars, histVars
<1>4. ASSUME NEW c \in Enders, CloserNext(c) PROVE Goal
  BY <1>4, <1>1, <1>2
     DEF CloserNext, Retire, Shutdown, Drain, StopSession, CollectWriters, Joined, AllStopped,
     Return, CancelClose,
         sessVars, histVars
<1>5. ASSUME NEW s \in Sessions, Break(s) PROVE Goal
  BY <1>5, <1>1 DEF Break
<1>6. CASE UNCHANGED vars
  BY <1>6, <1>1 DEF vars, sessVars, histVars
<1>7. CASE Next
  <2>1. CASE \E d \in Dialers : DialerNext(d)
    BY <1>3, <2>1 DEF Goal
  <2>2. CASE \E c \in Enders : CloserNext(c)
    BY <1>4, <2>2 DEF Goal
  <2>3. CASE \E s \in Sessions : Break(s) \/ Destroy(s)
    BY <1>5, <2>3 DEF Goal
  <2> QED
    BY <1>7, <2>1, <2>2, <2>3 DEF Next, Enders
<1> QED
  BY <1>6, <1>7 DEF Goal

\* A caller that goes to wait on `freed', or goes on waiting, was told the truth.
LEMMA FullNext ==
    ASSUME SessInv, [Next]_vars, NEW e \in Dialers, pc'[e] = "full", bell'[e] = "armed"
    PROVE  \/ pc[e] = "full" /\ bell[e] = "armed" /\ ~(\E s \in Sessions : Destroy(s))
           \/ /\ all' \subseteq Live(holds', current') /\ Cardinality(all') >= MaxSessions
              /\ ~(\E s \in Sessions : Destroy(s))
<1> USE DEF SessInv, TypeOK, PlaceInv, Goto, Procs
<1>1. ASSUME NEW s \in Sessions, Destroy(s) PROVE FALSE
  BY <1>1 DEF Destroy, Signal, RingAll
<1>2. ASSUME NEW d \in Dialers, DialerNext(d), ~(TakeLock(d) /\ WithoutSession(d))
      PROVE  pc[e] = "full" /\ bell[e] = "armed"
  <2>1. CASE (\E j \in Jobs : Start(d, j)) \/ AcquirePermit(d) \/ Redial(d) \/ GiveUp(d)
    BY <2>1 DEF Start, AcquirePermit, Redial, GiveUp
  <2>2. CASE TakeLock(d)
    BY <1>2, <2>2 DEF TakeLock, WithSession
  <2>3. CASE DialEnds(d) \/ RequestRefused(d) \/ OpenStream(d) \/ DropStream(d)
    BY <2>3 DEF DialEnds, RequestRefused, Abandon, OpenStream, DropStream
  <2>4. CASE \E s \in Sessions : Connected(d, s)
    BY <2>4 DEF Connected, RingAll
  <2> QED
    BY <1>2, <2>1, <2>2, <2>3, <2>4 DEF DialerNext
<1>3. ASSUME NEW d \in Dialers, TakeLock(d), WithoutSession(d), d # e
      PROVE  pc[e] = "full" /\ bell[e] = "armed"
  BY <1>3 DEF TakeLock, WithoutSession
<1>4. ASSUME TakeLock(e), WithoutSession(e)
      PROVE  all' \subseteq Live(holds', current') /\ Cardinality(all') >= MaxSessions
  <2>1. holds' = holds /\ current' = NoSession /\ all' = all \cap Live(holds, NoSession)
    BY <1>4 DEF WithoutSession, Hold
  <2>2. Cardinality(all') >= MaxSessions
    BY <1>4 DEF WithoutSession, Counted
  <2> QED
    BY <2>1, <2>2
<1>5. ASSUME NEW c \in Enders, CloserNext(c) PROVE pc[e] = "full" /\ bell[e] = "armed"
  BY <1>5, Http3Assumption
     DEF CloserNext, Retire, Shutdown, Drain, StopSession, CollectWriters, Joined, AllStopped,
     Return, CancelClose,
         Enders, Http3Assumption
<1>6. ASSUME NEW s \in Sessions, Break(s) PROVE pc[e] = "full" /\ bell[e] = "armed"
  BY <1>6 DEF Break
<1>7. CASE UNCHANGED vars
  BY <1>1, <1>7 DEF vars
<1> QED
  BY <1>1, <1>2, <1>3, <1>4, <1>5, <1>6, <1>7 DEF Next, Enders

\* No caller waits for the signal while there is room for a session and no
\* destructor is about to signal (AtCapacity, SlotFreed, Drop for Session).
THEOREM Http3FreedNotMissed == Spec => []FreedNotMissed
<1>1. Init => FreedNotMissed
  BY DEF Init, FreedNotMissed, Procs
<1>2. ASSUME SessInv, SessInv', FreedNotMissed, [Next]_vars PROVE FreedNotMissed'
  <2> SUFFICES ASSUME NEW e \in Dialers, pc'[e] = "full", bell'[e] = "armed", ~stop',
                      dropping' = {}
               PROVE  Cardinality(Live(holds', current')) >= MaxSessions
    BY <1>2 DEF FreedNotMissed
  <2>1. /\ Live(holds, current) \subseteq Sessions /\ Live(holds', current') \subseteq Sessions
        /\ all' \subseteq Sessions
    BY <1>2 DEF Live, SessInv, TypeOK
  <2>2. PICK n \in Nat : n = Cardinality(Live(holds', current'))
    BY <2>1, SessionsFinite
  <2>3. ~stop
    BY <1>2, Http3Assumption
       DEF Next, DialerNext, CloserNext, Start, AcquirePermit, TakeLock, Redial, GiveUp, DialEnds,
           RequestRefused, Abandon, Connected, OpenStream, DropStream, Retire, Shutdown, Drain,
           StopSession, CollectWriters, Joined, AllStopped, Return, CancelClose, Break,
           Destroy, vars
  <2>4. CASE all' \subseteq Live(holds', current') /\ Cardinality(all') >= MaxSessions
    <3>1. PICK m \in Nat : m = Cardinality(all')
      BY <2>1, SessionsFinite
    <3>2. m <= n
      BY <2>1, <2>2, <2>4, <3>1, FewerSessions
    <3> QED
      BY <2>2, <2>4, <3>1, <3>2, Http3Assumption DEF Http3Assumption
  <2>5. CASE pc[e] = "full" /\ bell[e] = "armed" /\ ~(\E s \in Sessions : Destroy(s))
    <3>1. dropping = {} /\ Live(holds, current) \subseteq Live(holds', current')
      BY <1>2, <2>5, DroppedNext
    <3>2. PICK m \in Nat : m = Cardinality(Live(holds, current))
      BY <2>1, SessionsFinite
    <3>3. m <= n
      BY <2>1, <2>2, <3>1, <3>2, FewerSessions
    <3>4. m >= MaxSessions
      BY <1>2, <2>3, <2>5, <3>1, <3>2 DEF FreedNotMissed
    <3> QED
      BY <2>2, <3>3, <3>4, Http3Assumption DEF Http3Assumption
  <2> QED
    BY <1>2, <2>4, <2>5, FullNext
<1> QED
  BY <1>1, <1>2, SessInvariant, PTL DEF Spec

\* Http3TunnelProvider implements the contract of TunnelProvider: once shutdown
\* has returned, no session is ever published again.
THEOREM Http3ImplementsProvider == Spec => ImplementsProvider
<1>1. Init => Provider!PInit
  BY DEF Init, Provider!PInit, Phase
<1>2. SessInv /\ [Next]_vars => [Provider!PNext]_(Provider!pvars)
  <2> USE DEF SessInv, Phase, Provider!PNext, Provider!pvars, Provider!Establish,
          Provider!Release,
              Provider!BeginShutdown, Provider!EndShutdown, sessVars, histVars, Hold
  <2> SUFFICES ASSUME SessInv, [Next]_vars PROVE [Provider!PNext]_(Provider!pvars)
    OBVIOUS
  <2>1. ASSUME NEW d \in Dialers, DialerNext(d) PROVE [Provider!PNext]_(Provider!pvars)
    <3>1. CASE TakeLock(d)
      BY <3>1 DEF TakeLock, WithSession, WithoutSession
    <3>2. CASE \E s \in Sessions : Connected(d, s)
      BY <3>2 DEF Connected, MayPublish, LockInv, StopInv
    <3>3. ASSUME UNCHANGED <<current, stop, down>> PROVE [Provider!PNext]_(Provider!pvars)
      BY <3>3
    <3> QED
      BY <2>1, <3>1, <3>2, <3>3
         DEF DialerNext, Start, AcquirePermit, Redial, GiveUp, DialEnds, RequestRefused, Abandon,
             OpenStream, DropStream
  <2>2. ASSUME NEW c \in Enders, CloserNext(c) PROVE [Provider!PNext]_(Provider!pvars)
    <3>1. CASE Shutdown(c) \/ Drain(c)
      BY <3>1 DEF Shutdown, Drain, StopInv
    <3>2. CASE Return(c)
      BY <2>2, <3>2 DEF Return, StopInv
    <3>3. ASSUME UNCHANGED <<current, stop, down>> PROVE [Provider!PNext]_(Provider!pvars)
      BY <3>3
    <3> QED
      BY <2>2, <3>1, <3>2, <3>3
         DEF CloserNext, Retire, StopSession, CollectWriters, Joined, AllStopped, CancelClose
  <2>3. ASSUME NEW s \in Sessions, Break(s) \/ Destroy(s) PROVE [Provider!PNext]_(Provider!pvars)
    BY <2>3 DEF Break, Destroy
  <2>4. CASE UNCHANGED vars
    BY <2>4 DEF vars
  <2> QED
    BY <2>1, <2>2, <2>3, <2>4 DEF Next, Enders
<1> QED
  BY SessInvariant, <1>1, <1>2, PTL DEF Spec, ImplementsProvider, Provider!PSpec

=============================================================================
