------------------------- MODULE SshProviderProofs -------------------------
(* Proofs about SshProvider, for any number of dialers, closers, keys and    *)
(* sessions.  The runs check the same invariants on small instances.         *)
EXTENDS SshProvider, SequenceTheorems, TLAPS

\* Whoever connects or disconnects holds the session mutex, over an empty slot.
LockInv ==
    /\ \A d \in Dialers : pc[d] \in {"connect", "auth"} => lock = d
    /\ \A c \in Closers : pc[c] \in {"retiring", "stopping"} => lock = c
    /\ lock # NoProc => slot = NoSession

\* A shutdown raises the flag before it waits for the mutex, so once it has
\* returned there is no session and nobody on the way to one.
ClosedInv ==
    /\ \A c \in Closers : pc[c] \in {"shutdown", "stopping"} => closed
    /\ down => /\ closed /\ slot = NoSession
               /\ \A d \in Dialers : pc[d] \notin {"connect", "auth"}

\* The host key state: one fingerprint, reported together with the first
\* session that was established under it.
KeyInv ==
    /\ \A d \in Dialers : pc[d] = "auth" => shown[d] = learned /\ learned # NoKey
    /\ Pin # NoKey => learned \in {NoKey, Pin} /\ ~newly
    /\ Pin = NoKey => (newly <=> learned # NoKey)
    /\ reported => learned # NoKey /\ learned \in authed
    /\ pins = IF reported /\ newly THEN <<learned>> ELSE <<>>
    /\ \A s \in alive : keyOf[s] = learned
    /\ alive # {} => reported

\* A dial about to replace a session saw it fail.
SuspectInv ==
    \A d \in Dialers :
        /\ pc[d] \in {"open", "replace"} => held[d] \in Sessions
        /\ pc[d] = "replace" => held[d] \in suspect

SshInv == TypeOK /\ LockInv /\ ClosedInv /\ KeyInv /\ SuspectInv

\* The initial state of SshTunnelProvider::new satisfies the invariant.
LEMMA SshInit == Init => SshInv
<1> USE SshAssumption DEF Init, Procs
<1> SUFFICES ASSUME Init PROVE SshInv
  OBVIOUS
<1>1. TypeOK
  <2>1. pins \in Seq(Keys)
    OBVIOUS
  <2>2. retried \in [Dialers -> BOOLEAN]
    OBVIOUS
  <2>3. closed \in BOOLEAN /\ newly \in BOOLEAN /\ reported \in BOOLEAN /\ down \in BOOLEAN
    OBVIOUS
  <2>4. alive \subseteq Sessions /\ suspect \subseteq Sessions /\ authed \subseteq Keys
    OBVIOUS
  <2>5. pc \in [Procs -> DialerPcs \cup CloserPcs] /\ (\A d \in Dialers : pc[d] \in DialerPcs) /\ (\A c \in Closers : pc[c] \in CloserPcs)
    BY DEF DialerPcs, CloserPcs
  <2> QED
    BY <2>1, <2>2, <2>3, <2>4, <2>5 DEF TypeOK, DialerPcs, CloserPcs
<1>2. LockInv /\ ClosedInv /\ SuspectInv
  BY DEF LockInv, ClosedInv, SuspectInv
<1>3. KeyInv
  BY DEF KeyInv
<1> QED
  BY <1>1, <1>2, <1>3 DEF SshInv

\* Every step of dial, prepare, retire, shutdown, the server and the network
\* preserves the types.
LEMMA SshTypeStep == SshInv /\ [Next]_vars => TypeOK'
<1> USE SshAssumption DEF Procs, Goto, Finish, Proceed, taskVars, keyVars, sessVars
<1> SUFFICES ASSUME SshInv, [Next]_vars PROVE TypeOK'
  OBVIOUS
<1> USE DEF SshInv, TypeOK, DialerPcs, CloserPcs
<1>1. ASSUME NEW d \in Dialers, NEW j \in Jobs, Start(d, j) PROVE TypeOK'
  BY <1>1 DEF Start
<1>2. ASSUME NEW d \in Dialers, Acquire(d) PROVE TypeOK'
  BY <1>2 DEF Acquire, ClosedSeen, MustConnect, Stale
<1>3. ASSUME NEW d \in Dialers, ConnectFails(d) PROVE TypeOK'
  BY <1>3 DEF ConnectFails
<1>4. ASSUME NEW d \in Dialers, NEW k \in Keys, CheckServerKey(d, k) PROVE TypeOK'
  <2>1. CASE Expected \notin {NoKey, k}
    BY <1>4, <2>1, SMTT(20) DEF CheckServerKey
  <2>2. CASE Expected \in {NoKey, k}
    <3>1. newly' \in BOOLEAN
      BY <1>4, <2>2 DEF CheckServerKey, NewlyPinned
    <3>2. newly' \in BOOLEAN => TypeOK'
      BY <1>4, <2>2, SMTT(20) DEF CheckServerKey, Learn
    <3> QED
      BY <3>1, <3>2
  <2> QED
    BY <2>1, <2>2
<1>5. ASSUME NEW d \in Dialers, AuthFails(d) PROVE TypeOK'
  BY <1>5 DEF AuthFails
<1>6. ASSUME NEW d \in Dialers, Unauthorized(d) PROVE TypeOK'
  <2>1. shown[d] \in Keys
    BY <1>6 DEF Unauthorized, KeyInv
  <2> QED
    BY <1>6, <2>1 DEF Unauthorized
<1>7. ASSUME NEW d \in Dialers, NEW s \in Sessions, Authenticated(d, s) PROVE TypeOK'
  <2>1. shown[d] \in Keys /\ learned \in Keys
    BY <1>7 DEF Authenticated, KeyInv
  <2>2. pins' \in Seq(Keys)
    BY <1>7, <2>1 DEF Authenticated
  <2> QED
    BY <1>7, <2>1, <2>2 DEF Authenticated
<1>8. ASSUME NEW d \in Dialers, ChannelOpened(d) PROVE TypeOK'
  BY <1>8 DEF ChannelOpened
<1>9. ASSUME NEW d \in Dialers, DestinationFails(d) PROVE TypeOK'
  BY <1>9 DEF DestinationFails
<1>10. ASSUME NEW d \in Dialers, SessionFails(d) PROVE TypeOK'
  <2>1. held[d] \in Sessions
    BY <1>10 DEF SessionFails, SuspectInv
  <2> QED
    BY <1>10, <2>1 DEF SessionFails
<1>11. ASSUME NEW d \in Dialers, Cancel(d) PROVE TypeOK'
  BY <1>11 DEF Cancel
<1>12. ASSUME NEW c \in Closers, Retire(c) PROVE TypeOK'
  BY <1>12 DEF Retire
<1>13. ASSUME NEW c \in Closers, Shutdown(c) PROVE TypeOK'
  BY <1>13 DEF Shutdown
<1>14. ASSUME NEW c \in Closers, TakeSession(c) PROVE TypeOK'
  BY <1>14 DEF TakeSession
<1>15. ASSUME NEW c \in Closers, Disconnect(c) PROVE TypeOK'
  BY <1>15 DEF Disconnect
<1>16. ASSUME NEW c \in Closers, NothingToRetire(c) PROVE TypeOK'
  BY <1>16 DEF NothingToRetire
<1>17. ASSUME NEW s \in Sessions, SessionDies(s) PROVE TypeOK'
  BY <1>17 DEF SessionDies
<1>18. ASSUME NEW s \in Sessions, NEW k \in Keys, Rekey(s, k) PROVE TypeOK'
  BY <1>18 DEF Rekey, Expected
<1>19. ASSUME UNCHANGED vars PROVE TypeOK'
  BY <1>19 DEF vars
<1>20. ASSUME NEW c \in Closers, NEW sent \in BOOLEAN, CancelClose(c, sent) PROVE TypeOK'
  BY <1>20 DEF CancelClose
<1> QED
  BY <1>1, <1>2, <1>3, <1>4, <1>5, <1>6, <1>7, <1>8, <1>9, <1>10, <1>11, <1>12, <1>13, <1>14, <1>15, <1>16, <1>17, <1>18, <1>19, <1>20
     DEF Next, DialerNext, CloserNext, ServerNext

\* The session mutex guards connect and disconnect at every step.
LEMMA SshLockStep == SshInv /\ [Next]_vars => LockInv'
<1> USE SshAssumption DEF Procs, Goto, Finish, Proceed, taskVars, keyVars, sessVars
<1> SUFFICES ASSUME SshInv, [Next]_vars PROVE LockInv'
  OBVIOUS
<1> USE DEF SshInv, TypeOK, DialerPcs, CloserPcs, LockInv
<1>1. ASSUME NEW d \in Dialers, NEW j \in Jobs, Start(d, j) PROVE LockInv'
  BY <1>1 DEF Start
<1>2. ASSUME NEW d \in Dialers, Acquire(d) PROVE LockInv'
  BY <1>2 DEF Acquire, ClosedSeen, MustConnect, Stale
<1>3. ASSUME NEW d \in Dialers, ConnectFails(d) PROVE LockInv'
  BY <1>3 DEF ConnectFails
<1>4. ASSUME NEW d \in Dialers, NEW k \in Keys, CheckServerKey(d, k) PROVE LockInv'
  <2>1. CASE Expected \notin {NoKey, k}
    BY <1>4, <2>1 DEF CheckServerKey
  <2>2. CASE Expected \in {NoKey, k}
    BY <1>4, <2>2 DEF CheckServerKey
  <2> QED
    BY <2>1, <2>2
<1>5. ASSUME NEW d \in Dialers, AuthFails(d) PROVE LockInv'
  BY <1>5 DEF AuthFails
<1>6. ASSUME NEW d \in Dialers, Unauthorized(d) PROVE LockInv'
  BY <1>6 DEF Unauthorized
<1>7. ASSUME NEW d \in Dialers, NEW s \in Sessions, Authenticated(d, s) PROVE LockInv'
  BY <1>7 DEF Authenticated, FreeSessions, ReportPin
<1>8. ASSUME NEW d \in Dialers, ChannelOpened(d) PROVE LockInv'
  BY <1>8 DEF ChannelOpened
<1>9. ASSUME NEW d \in Dialers, DestinationFails(d) PROVE LockInv'
  BY <1>9 DEF DestinationFails
<1>10. ASSUME NEW d \in Dialers, SessionFails(d) PROVE LockInv'
  BY <1>10 DEF SessionFails
<1>11. ASSUME NEW d \in Dialers, Cancel(d) PROVE LockInv'
  BY <1>11 DEF Cancel
<1>12. ASSUME NEW c \in Closers, Retire(c) PROVE LockInv'
  BY <1>12 DEF Retire
<1>13. ASSUME NEW c \in Closers, Shutdown(c) PROVE LockInv'
  BY <1>13 DEF Shutdown
<1>14. ASSUME NEW c \in Closers, TakeSession(c) PROVE LockInv'
  BY <1>14 DEF TakeSession
<1>15. ASSUME NEW c \in Closers, Disconnect(c) PROVE LockInv'
  BY <1>15 DEF Disconnect
<1>16. ASSUME NEW c \in Closers, NothingToRetire(c) PROVE LockInv'
  BY <1>16 DEF NothingToRetire
<1>17. ASSUME NEW s \in Sessions, SessionDies(s) PROVE LockInv'
  BY <1>17 DEF SessionDies
<1>18. ASSUME NEW s \in Sessions, NEW k \in Keys, Rekey(s, k) PROVE LockInv'
  BY <1>18 DEF Rekey, Expected
<1>19. ASSUME UNCHANGED vars PROVE LockInv'
  BY <1>19 DEF vars
<1>20. ASSUME NEW c \in Closers, NEW sent \in BOOLEAN, CancelClose(c, sent) PROVE LockInv'
  BY <1>20 DEF CancelClose
<1> QED
  BY <1>1, <1>2, <1>3, <1>4, <1>5, <1>6, <1>7, <1>8, <1>9, <1>10, <1>11, <1>12, <1>13, <1>14, <1>15, <1>16, <1>17, <1>18, <1>19, <1>20
     DEF Next, DialerNext, CloserNext, ServerNext

\* No step brings a session, or a connection attempt, back after shutdown.
LEMMA SshClosedStep == SshInv /\ [Next]_vars => ClosedInv'
<1> USE SshAssumption DEF Procs, Goto, Finish, Proceed, taskVars, keyVars, sessVars
<1> SUFFICES ASSUME SshInv, [Next]_vars PROVE ClosedInv'
  OBVIOUS
<1> USE DEF SshInv, TypeOK, DialerPcs, CloserPcs, LockInv, ClosedInv
<1>1. ASSUME NEW d \in Dialers, NEW j \in Jobs, Start(d, j) PROVE ClosedInv'
  BY <1>1 DEF Start
<1>2. ASSUME NEW d \in Dialers, Acquire(d) PROVE ClosedInv'
  BY <1>2 DEF Acquire, ClosedSeen, MustConnect, Stale
<1>3. ASSUME NEW d \in Dialers, ConnectFails(d) PROVE ClosedInv'
  BY <1>3 DEF ConnectFails
<1>4. ASSUME NEW d \in Dialers, NEW k \in Keys, CheckServerKey(d, k) PROVE ClosedInv'
  <2>1. /\ UNCHANGED <<job, slot, closed, down>>
        /\ \A e \in Procs : pc'[e] = pc[e] \/ (e = d /\ pc'[e] \in {"idle", "auth"})
    BY <1>4 DEF CheckServerKey, sessVars
  <2> QED
    BY <1>4, <2>1 DEF CheckServerKey
<1>5. ASSUME NEW d \in Dialers, AuthFails(d) PROVE ClosedInv'
  BY <1>5 DEF AuthFails
<1>6. ASSUME NEW d \in Dialers, Unauthorized(d) PROVE ClosedInv'
  BY <1>6 DEF Unauthorized
<1>7. ASSUME NEW d \in Dialers, NEW s \in Sessions, Authenticated(d, s) PROVE ClosedInv'
  BY <1>7 DEF Authenticated, FreeSessions, ReportPin
<1>8. ASSUME NEW d \in Dialers, ChannelOpened(d) PROVE ClosedInv'
  BY <1>8 DEF ChannelOpened
<1>9. ASSUME NEW d \in Dialers, DestinationFails(d) PROVE ClosedInv'
  BY <1>9 DEF DestinationFails
<1>10. ASSUME NEW d \in Dialers, SessionFails(d) PROVE ClosedInv'
  BY <1>10 DEF SessionFails
<1>11. ASSUME NEW d \in Dialers, Cancel(d) PROVE ClosedInv'
  BY <1>11 DEF Cancel
<1>12. ASSUME NEW c \in Closers, Retire(c) PROVE ClosedInv'
  BY <1>12 DEF Retire
<1>13. ASSUME NEW c \in Closers, Shutdown(c) PROVE ClosedInv'
  BY <1>13 DEF Shutdown
<1>14. ASSUME NEW c \in Closers, TakeSession(c) PROVE ClosedInv'
  BY <1>14 DEF TakeSession
<1>15. ASSUME NEW c \in Closers, Disconnect(c) PROVE ClosedInv'
  BY <1>15 DEF Disconnect
<1>16. ASSUME NEW c \in Closers, NothingToRetire(c) PROVE ClosedInv'
  BY <1>16 DEF NothingToRetire
<1>17. ASSUME NEW s \in Sessions, SessionDies(s) PROVE ClosedInv'
  BY <1>17 DEF SessionDies
<1>18. ASSUME NEW s \in Sessions, NEW k \in Keys, Rekey(s, k) PROVE ClosedInv'
  BY <1>18 DEF Rekey, Expected
<1>19. ASSUME UNCHANGED vars PROVE ClosedInv'
  BY <1>19 DEF vars
<1>20. ASSUME NEW c \in Closers, NEW sent \in BOOLEAN, CancelClose(c, sent) PROVE ClosedInv'
  BY <1>20 DEF CancelClose
<1> QED
  BY <1>1, <1>2, <1>3, <1>4, <1>5, <1>6, <1>7, <1>8, <1>9, <1>10, <1>11, <1>12, <1>13, <1>14, <1>15, <1>16, <1>17, <1>18, <1>19, <1>20
     DEF Next, DialerNext, CloserNext, ServerNext

\* Every step keeps the one fingerprint and its one report.
LEMMA SshKeyStep == SshInv /\ [Next]_vars => KeyInv'
<1> USE SshAssumption DEF Procs, Goto, Finish, Proceed, taskVars, keyVars, sessVars
<1> SUFFICES ASSUME SshInv, [Next]_vars PROVE KeyInv'
  OBVIOUS
<1> USE DEF SshInv, TypeOK, DialerPcs, CloserPcs, LockInv, KeyInv
<1>1. ASSUME NEW d \in Dialers, NEW j \in Jobs, Start(d, j) PROVE KeyInv'
  BY <1>1 DEF Start
<1>2. ASSUME NEW d \in Dialers, Acquire(d) PROVE KeyInv'
  BY <1>2 DEF Acquire, ClosedSeen, MustConnect, Stale
<1>3. ASSUME NEW d \in Dialers, ConnectFails(d) PROVE KeyInv'
  BY <1>3 DEF ConnectFails
<1>4. ASSUME NEW d \in Dialers, NEW k \in Keys, CheckServerKey(d, k) PROVE KeyInv'
  <2>1. CASE Expected \notin {NoKey, k}
    BY <1>4, <2>1 DEF CheckServerKey
  <2>2. CASE Expected \in {NoKey, k}
    <3> USE <1>4, <2>2 DEF CheckServerKey, Learn
    <3>1. learned' = k /\ k # NoKey /\ learned \in {NoKey, k}
      BY DEF Expected
    <3>2. \A e \in Dialers : pc'[e] = "auth" => shown'[e] = learned'
      <4> SUFFICES ASSUME NEW e \in Dialers, pc'[e] = "auth" PROVE shown'[e] = learned'
        OBVIOUS
      <4>1. lock = d
        OBVIOUS
      <4>2. e = d
        BY <4>1
      <4> QED
        BY <3>1, <4>2
    <3>3. (Pin # NoKey => learned' \in {NoKey, Pin} /\ ~newly')
          /\ (Pin = NoKey => (newly' <=> learned' # NoKey))
      BY <3>1 DEF NewlyPinned, Expected
    <3>4. pins' = IF reported' /\ newly' THEN <<learned'>> ELSE <<>>
      BY <3>1, <3>3
    <3>5. \A s \in alive' : keyOf'[s] = learned'
      BY <3>1
    <3> QED
      BY <3>1, <3>2, <3>3, <3>4, <3>5
  <2> QED
    BY <2>1, <2>2
<1>5. ASSUME NEW d \in Dialers, AuthFails(d) PROVE KeyInv'
  BY <1>5 DEF AuthFails
<1>6. ASSUME NEW d \in Dialers, Unauthorized(d) PROVE KeyInv'
  BY <1>6 DEF Unauthorized
<1>7. ASSUME NEW d \in Dialers, NEW s \in Sessions, Authenticated(d, s) PROVE KeyInv'
  BY <1>7 DEF Authenticated, FreeSessions, ReportPin
<1>8. ASSUME NEW d \in Dialers, ChannelOpened(d) PROVE KeyInv'
  BY <1>8 DEF ChannelOpened
<1>9. ASSUME NEW d \in Dialers, DestinationFails(d) PROVE KeyInv'
  BY <1>9 DEF DestinationFails
<1>10. ASSUME NEW d \in Dialers, SessionFails(d) PROVE KeyInv'
  BY <1>10 DEF SessionFails
<1>11. ASSUME NEW d \in Dialers, Cancel(d) PROVE KeyInv'
  BY <1>11 DEF Cancel
<1>12. ASSUME NEW c \in Closers, Retire(c) PROVE KeyInv'
  BY <1>12 DEF Retire
<1>13. ASSUME NEW c \in Closers, Shutdown(c) PROVE KeyInv'
  BY <1>13 DEF Shutdown
<1>14. ASSUME NEW c \in Closers, TakeSession(c) PROVE KeyInv'
  BY <1>14 DEF TakeSession
<1>15. ASSUME NEW c \in Closers, Disconnect(c) PROVE KeyInv'
  BY <1>15 DEF Disconnect
<1>16. ASSUME NEW c \in Closers, NothingToRetire(c) PROVE KeyInv'
  BY <1>16 DEF NothingToRetire
<1>17. ASSUME NEW s \in Sessions, SessionDies(s) PROVE KeyInv'
  BY <1>17 DEF SessionDies
<1>18. ASSUME NEW s \in Sessions, NEW k \in Keys, Rekey(s, k) PROVE KeyInv'
  BY <1>18 DEF Rekey, Expected
<1>19. ASSUME UNCHANGED vars PROVE KeyInv'
  BY <1>19 DEF vars
<1>20. ASSUME NEW c \in Closers, NEW sent \in BOOLEAN, CancelClose(c, sent) PROVE KeyInv'
  BY <1>20 DEF CancelClose
<1> QED
  BY <1>1, <1>2, <1>3, <1>4, <1>5, <1>6, <1>7, <1>8, <1>9, <1>10, <1>11, <1>12, <1>13, <1>14, <1>15, <1>16, <1>17, <1>18, <1>19, <1>20
     DEF Next, DialerNext, CloserNext, ServerNext

\* A dial gives up on a session only after it failed.
LEMMA SshSuspectStep == SshInv /\ [Next]_vars => SuspectInv'
<1> USE SshAssumption DEF Procs, Goto, Finish, Proceed, taskVars, keyVars, sessVars
<1> SUFFICES ASSUME SshInv, [Next]_vars PROVE SuspectInv'
  OBVIOUS
<1> USE DEF SshInv, TypeOK, DialerPcs, CloserPcs, SuspectInv
<1>1. ASSUME NEW d \in Dialers, NEW j \in Jobs, Start(d, j) PROVE SuspectInv'
  BY <1>1 DEF Start
<1>2. ASSUME NEW d \in Dialers, Acquire(d) PROVE SuspectInv'
  BY <1>2 DEF Acquire, ClosedSeen, MustConnect, Stale
<1>3. ASSUME NEW d \in Dialers, ConnectFails(d) PROVE SuspectInv'
  BY <1>3 DEF ConnectFails
<1>4. ASSUME NEW d \in Dialers, NEW k \in Keys, CheckServerKey(d, k) PROVE SuspectInv'
  <2>1. CASE Expected \notin {NoKey, k}
    BY <1>4, <2>1 DEF CheckServerKey
  <2>2. CASE Expected \in {NoKey, k}
    BY <1>4, <2>2 DEF CheckServerKey
  <2> QED
    BY <2>1, <2>2
<1>5. ASSUME NEW d \in Dialers, AuthFails(d) PROVE SuspectInv'
  BY <1>5 DEF AuthFails
<1>6. ASSUME NEW d \in Dialers, Unauthorized(d) PROVE SuspectInv'
  BY <1>6 DEF Unauthorized
<1>7. ASSUME NEW d \in Dialers, NEW s \in Sessions, Authenticated(d, s) PROVE SuspectInv'
  BY <1>7 DEF Authenticated, FreeSessions, ReportPin
<1>8. ASSUME NEW d \in Dialers, ChannelOpened(d) PROVE SuspectInv'
  BY <1>8 DEF ChannelOpened
<1>9. ASSUME NEW d \in Dialers, DestinationFails(d) PROVE SuspectInv'
  BY <1>9 DEF DestinationFails
<1>10. ASSUME NEW d \in Dialers, SessionFails(d) PROVE SuspectInv'
  BY <1>10 DEF SessionFails
<1>11. ASSUME NEW d \in Dialers, Cancel(d) PROVE SuspectInv'
  BY <1>11 DEF Cancel
<1>12. ASSUME NEW c \in Closers, Retire(c) PROVE SuspectInv'
  BY <1>12 DEF Retire
<1>13. ASSUME NEW c \in Closers, Shutdown(c) PROVE SuspectInv'
  BY <1>13 DEF Shutdown
<1>14. ASSUME NEW c \in Closers, TakeSession(c) PROVE SuspectInv'
  BY <1>14 DEF TakeSession
<1>15. ASSUME NEW c \in Closers, Disconnect(c) PROVE SuspectInv'
  BY <1>15 DEF Disconnect
<1>16. ASSUME NEW c \in Closers, NothingToRetire(c) PROVE SuspectInv'
  BY <1>16 DEF NothingToRetire
<1>17. ASSUME NEW s \in Sessions, SessionDies(s) PROVE SuspectInv'
  BY <1>17 DEF SessionDies
<1>18. ASSUME NEW s \in Sessions, NEW k \in Keys, Rekey(s, k) PROVE SuspectInv'
  BY <1>18 DEF Rekey, Expected
<1>19. ASSUME UNCHANGED vars PROVE SuspectInv'
  BY <1>19 DEF vars
<1>20. ASSUME NEW c \in Closers, NEW sent \in BOOLEAN, CancelClose(c, sent) PROVE SuspectInv'
  BY <1>20 DEF CancelClose
<1> QED
  BY <1>1, <1>2, <1>3, <1>4, <1>5, <1>6, <1>7, <1>8, <1>9, <1>10, <1>11, <1>12, <1>13, <1>14, <1>15, <1>16, <1>17, <1>18, <1>19, <1>20
     DEF Next, DialerNext, CloserNext, ServerNext

\* The invariant the theorems rest on holds of every reachable state.
THEOREM SshInvariant == Spec => []SshInv
<1>1. SshInv /\ [Next]_vars => SshInv'
  BY SshTypeStep, SshLockStep, SshClosedStep, SshKeyStep, SshSuspectStep DEF SshInv
<1> QED
  BY SshInit, <1>1, PTL DEF Spec

\* The provider's fields and the tasks' local state keep their types.
THEOREM SshTypeCorrect == Spec => []TypeOK
<1>1. SshInv => TypeOK
  BY DEF SshInv
<1> QED
  BY SshInvariant, <1>1, PTL

\* All sessions that answer are under one host key, the pin if there is one.
THEOREM SshKeyContinuity == Spec => []KeyContinuity
<1>1. SshInv => KeyContinuity
  <2> SUFFICES ASSUME SshInv, NEW s \in alive
               PROVE  keyOf[s] = learned /\ Pin \in {NoKey, keyOf[s]}
    BY DEF KeyContinuity
  <2>1. keyOf[s] = learned /\ learned # NoKey
    BY DEF SshInv, KeyInv
  <2> QED
    BY <2>1 DEF SshInv, KeyInv
<1> QED
  BY SshInvariant, <1>1, PTL

\* The observer is told of a first-use key exactly once.
THEOREM SshPinnedOnce == Spec => []PinnedOnce
<1>1. SshInv => PinnedOnce
  <2> SUFFICES ASSUME SshInv PROVE PinnedOnce
    OBVIOUS
  <2>1. Len(pins) <= 1 /\ \A i \in 1 .. Len(pins) : pins[i] \in authed
    BY DEF SshInv, KeyInv
  <2>2. Pin # NoKey => pins = <<>>
    BY DEF SshInv, KeyInv
  <2>3. alive # {} /\ Pin = NoKey => pins = <<learned>>
    BY DEF SshInv, KeyInv
  <2> QED
    BY <2>1, <2>2, <2>3 DEF PinnedOnce
<1> QED
  BY SshInvariant, <1>1, PTL

\* Only a session that failed a dial is replaced by a dial.
THEOREM SshOnlySuspectReplaced == Spec => OnlySuspectReplaced
<1> DEFINE Step == slot # NoSession /\ slot' # slot =>
                     \/ slot \in suspect
                     \/ \E c \in Closers : pc[c] \in {"retire", "shutdown"} /\ lock' = c
<1>1. SshInv /\ [Next]_vars => [Step]_vars
  <2> USE DEF taskVars, keyVars, sessVars
  <2> SUFFICES ASSUME SshInv, [Next]_vars PROVE Step
    OBVIOUS
  <2>1. ASSUME NEW d \in Dialers, DialerNext(d) PROVE Step
    <3>1. CASE Acquire(d)
      BY <3>1 DEF Acquire, MustConnect, Stale, SshInv, SuspectInv
    <3>2. CASE \E s \in Sessions : Authenticated(d, s)
      BY <3>2, SshAssumption DEF Authenticated, SshInv, LockInv, TypeOK, Procs
    <3>3. ASSUME UNCHANGED slot PROVE Step
      BY <3>3
    <3> QED
      BY <2>1, <3>1, <3>2, <3>3
         DEF DialerNext, Start, ConnectFails, CheckServerKey, AuthFails, Unauthorized,
             ChannelOpened, DestinationFails, SessionFails, Cancel
  <2>2. ASSUME NEW c \in Closers, CloserNext(c) PROVE Step
    BY <2>2 DEF CloserNext, Retire, Shutdown, TakeSession, Disconnect, NothingToRetire,
       CancelClose
  <2>3. ASSUME ServerNext PROVE Step
    BY <2>3 DEF ServerNext, SessionDies, Rekey
  <2>4. ASSUME UNCHANGED vars PROVE Step
    BY <2>4 DEF vars
  <2> QED
    BY <2>1, <2>2, <2>3, <2>4 DEF Next
<1> QED
  BY SshInvariant, <1>1, PTL DEF Spec, OnlySuspectReplaced

\* SshTunnelProvider implements the contract of TunnelProvider: once shutdown
\* has returned, no session is ever established again.
THEOREM SshImplementsProvider == Spec => ImplementsProvider
<1>1. Init => Provider!PInit
  BY DEF Init, Provider!PInit, Phase
<1>2. SshInv /\ SshInv' /\ [Next]_vars => [Provider!PNext]_(Provider!pvars)
  <2> USE SshAssumption
      DEF Phase, Provider!PNext, Provider!pvars, Provider!Establish, Provider!Release,
          Provider!BeginShutdown, Provider!EndShutdown, SshInv, TypeOK, taskVars
  <2> SUFFICES ASSUME SshInv, SshInv', [Next]_vars
               PROVE  [Provider!PNext]_(Provider!pvars)
    OBVIOUS
  <2>1. ASSUME NEW d \in Dialers, DialerNext(d) PROVE [Provider!PNext]_(Provider!pvars)
    <3>1. CASE Acquire(d)
      BY <3>1 DEF Acquire
    <3>2. CASE \E s \in Sessions : Authenticated(d, s)
      BY <3>2 DEF Authenticated, LockInv, ClosedInv, Procs
    <3>3. ASSUME UNCHANGED <<slot, closed, down>> PROVE [Provider!PNext]_(Provider!pvars)
      BY <3>3
    <3> QED
      BY <2>1, <3>1, <3>2, <3>3
         DEF DialerNext, Start, ConnectFails, CheckServerKey, AuthFails, Unauthorized,
             ChannelOpened, DestinationFails, SessionFails, Cancel
  <2>2. ASSUME NEW c \in Closers, CloserNext(c) PROVE [Provider!PNext]_(Provider!pvars)
    <3>1. CASE Retire(c) \/ Shutdown(c) \/ TakeSession(c)
      BY <3>1 DEF Retire, Shutdown, TakeSession, ClosedInv
    <3>2. CASE Disconnect(c)
      BY <3>2 DEF Disconnect, LockInv, ClosedInv, Procs
    <3>3. CASE NothingToRetire(c)
      BY <3>3 DEF NothingToRetire, ClosedInv
    <3>4. CASE \E sent \in BOOLEAN : CancelClose(c, sent)
      BY <3>4 DEF CancelClose
    <3> QED
      BY <2>2, <3>1, <3>2, <3>3, <3>4 DEF CloserNext
  <2>3. ASSUME ServerNext PROVE [Provider!PNext]_(Provider!pvars)
    BY <2>3 DEF ServerNext, SessionDies, Rekey
  <2>4. ASSUME UNCHANGED vars PROVE [Provider!PNext]_(Provider!pvars)
    BY <2>4 DEF vars
  <2> QED
    BY <2>1, <2>2, <2>3, <2>4 DEF Next
<1> QED
  BY SshInvariant, <1>1, <1>2, PTL DEF Spec, ImplementsProvider, Provider!PSpec

=============================================================================
