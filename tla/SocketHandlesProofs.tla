------------------------ MODULE SocketHandlesProofs -------------------------
(***************************************************************************)
(* SocketHandles proved for any number of descriptors, threads and objects:*)
(* the classes implement DescriptorOwnership, and so no descriptor leaks,  *)
(* has two holders, or is closed under its holder.                         *)
(***************************************************************************)
EXTENDS SocketHandles, TLAPS

(***************************************************************************)
(* The inductive invariant.                                                *)
(***************************************************************************)

\* The locals of a thread agree with the place it is in.
LocalsOK(t) ==
  /\ sock[t] \in Fds <=> pc[t] \in Making
  /\ pc[t] \in {"idle", "startup"} => self[t] = None /\ other[t] = None
  /\ pc[t] \in Making \cup {"accept"} => self[t] \in Objs /\ self[t] \notin alive
  /\ pc[t] \in SetupCalls \cup {"close"} => other[t] = None
  /\ pc[t] = "accept" => self[t] \in Streams /\ other[t] \in Listeners
  /\ pc[t] = "assign" => /\ self[t] \in alive /\ other[t] \in alive
                         /\ self[t] # other[t] /\ SameClass(self[t], other[t])
  /\ other[t] # None => other[t] \in alive

\* No two threads work on the same object.
Apart(t, u) ==
  /\ self[t] # None => self[t] # self[u] /\ self[t] # other[u]
  /\ other[t] # None => other[t] # self[u] /\ other[t] # other[u]

\* Storage without an object has no descriptor in it.
StorageEmpty == \A o \in Objs \ alive : m_fd[o] = InvalidSockFd

LocalInv ==
  /\ TypeOK
  /\ \A t \in Threads : LocalsOK(t)
  /\ \A t, u \in Threads : t # u => Apart(t, u)
  /\ StorageEmpty

\* Exactly the open descriptors have a holder, and just one.
OneHolder == \A fd \in Fds :
  IF fd \in open THEN \E h : HoldersOf(fd) = {h} ELSE HoldersOf(fd) = {}

-----------------------------------------------------------------------------
\* A result made from an errno of the model is a NetResult of it.
LEMMA ErrInNetResults ==
  ASSUME NEW e \in Errnos
  PROVE  Err(lastOsError(Platform, e)) \in NetResults
BY DEF NetResults, OsErrors

\* The places a thread goes to are places.
LEMMA NextPlaces ==
  /\ \A o, v6 : v6 \in BOOLEAN => FirstCall(o, v6) \in SetupCalls
  /\ \A t : AfterCall(t) \in Making
BY DEF FirstCall, AfterCall, SetupCalls, Making

\* Type correctness is inductive by itself, up to the objects and listeners
\* that the locals of a thread name.
LEMMA TypeStep ==
  ASSUME LocalInv, [Next]_vars
  PROVE  TypeOK'
<1> USE DEF LocalInv, TypeOK
<1>0. CASE UNCHANGED vars
  BY <1>0 DEF vars, kernel, objects, local, errors, process
<1>a. ASSUME NEW fd \in Fds, appClose(fd) PROVE TypeOK'
  BY <1>a DEF appClose, CloseFd, objects, local, errors, process
<1>b. ASSUME NEW t \in Threads, ThreadStep(t) PROVE TypeOK'
  <2> USE DEF kernel, objects, local, errors, process
  <2>1. CASE startupBegins(t) \/ startupFailed(t) \/ initSockets(t)
    <3>1. startupFailed(t) => Err(error) \in NetResults
      BY DEF startupFailed, NetResults
    <3>2. NoOs \in Errnos /\ Ok \in NetResults
      BY DEF Errnos, NetResults
    <3>. QED BY <2>1, <3>1, <3>2 DEF startupBegins, startupFailed, initSockets, PCs
  <2>1a. ASSUME NEW s \in StartupOutcomes, startupEnds(t, s) PROVE TypeOK'
    <3>1. s \in {"ok", "failed"}
      BY HandlesAssumption
    <3>. QED BY <2>1a, <3>1 DEF startupEnds, PCs
  <2>2. ASSUME NEW o \in Objs, NEW v6 \in BOOLEAN, newSocket(t, o, v6) PROVE TypeOK'
    <3>1. FirstCall(o, v6) \in PCs
      BY NextPlaces DEF PCs, Making
    <3>. QED BY <2>2, <3>1 DEF newSocket, OpenFd
  <2>3. ASSUME NEW e \in CallErrnos, newSocketFails(t, e) PROVE TypeOK'
    <3>1. e \in Errnos /\ Err(lastOsError(Platform, e)) \in NetResults
      BY ErrInNetResults DEF Errnos
    <3>. QED BY <2>3, <3>1 DEF newSocketFails, ReturnErr
  <2>4. ASSUME NEW e \in CallErrnos, setupCallFails(t, e) PROVE TypeOK'
    <3>1. e \in Errnos /\ Err(lastOsError(Platform, e)) \in NetResults
      BY ErrInNetResults DEF Errnos
    <3>. QED BY <2>4, <3>1 DEF setupCallFails, PCs, Making
  <2>5. CASE setupCall(t)
    <3>1. AfterCall(t) \in PCs
      BY NextPlaces DEF PCs
    <3>. QED BY <2>5, <3>1 DEF setupCall
  <2>6. CASE closeSocket(t)
    <3>1. PICK e \in ErrnoAfterClose(t) : ret' = [ret EXCEPT ![t] = ErrAfterClose(t, e)]
      BY <2>6 DEF closeSocket
    <3>2. e \in Errnos /\ NoOs \in Errnos
      BY DEF ErrnoAfterClose, Errnos
    <3>3. ErrAfterClose(t, e) \in NetResults
      BY <3>2, ErrInNetResults DEF ErrAfterClose
    <3>. QED BY <2>6, <3>1, <3>2, <3>3 DEF closeSocket, CloseFd, PCs
  <2>7. CASE construct(t)
    <3>1. sock[t] \in Fds /\ self[t] \in Objs
      BY <2>7 DEF construct, LocalsOK, Making
    <3>2. NoOs \in Errnos /\ Ok \in NetResults
      BY DEF Errnos, NetResults
    <3>. QED BY <2>7, <3>1, <3>2 DEF construct, PCs
  <2>8. ASSUME NEW l \in Listeners, NEW o \in Streams, accept(t, l, o) PROVE TypeOK'
    BY <2>8 DEF accept, PCs, Objs
  <2>9. CASE acceptReturns(t)
    <3>1. m_fd[other[t]] \in Fds
      BY <2>9 DEF acceptReturns
    <3>. QED BY <2>9, <3>1 DEF acceptReturns, OpenFd, PCs, Making
  <2>10. ASSUME NEW e \in CallErrnos \cup {BadFd}, acceptFails(t, e) PROVE TypeOK'
    <3>1. e \in Errnos /\ Err(lastOsError(Platform, e)) \in NetResults
      BY ErrInNetResults DEF Errnos
    <3>. QED BY <2>10, <3>1 DEF acceptFails, ReturnErr, PCs
  <2>11. ASSUME NEW dst \in Objs, NEW src \in Objs, moveConstruct(t, dst, src) PROVE TypeOK'
    <3>1. dst \in Udps => src \in Udps
      BY <2>11, HandlesAssumption DEF moveConstruct, SameClass
    <3>. QED BY <2>11, <3>1 DEF moveConstruct, Moved, FlagMoved
  <2>12. ASSUME NEW dst \in Objs, NEW src \in Objs, moveAssign(t, dst, src) PROVE TypeOK'
    BY <2>12 DEF moveAssign, CloseHeld, CloseFd, PCs
  <2>13. CASE moveAssignTake(t)
    <3>1. self[t] \in Objs /\ other[t] \in Objs
      BY <2>13 DEF moveAssignTake, LocalsOK
    <3>2. self[t] \in Udps => other[t] \in Udps
      BY <2>13, HandlesAssumption DEF moveAssignTake, LocalsOK, SameClass
    <3>. QED BY <2>13, <3>1, <3>2 DEF moveAssignTake, Moved, FlagMoved, PCs
  <2>14. ASSUME NEW o \in Objs, destroy(t, o) PROVE TypeOK'
    BY <2>14 DEF destroy, CloseHeld, CloseFd
  <2>15. ASSUME NEW o \in Streams, releaseHandle(t, o) PROVE TypeOK'
    BY <2>15 DEF releaseHandle, HandedOver, Objs
  <2>. QED BY <1>b, <2>1, <2>1a, <2>2, <2>3, <2>4, <2>5, <2>6, <2>7, <2>8, <2>9, <2>10,
              <2>11, <2>12, <2>13, <2>14, <2>15 DEF ThreadStep
<1>. QED BY <1>0, <1>a, <1>b DEF Next

\* The locals stay consistent, threads stay apart and storage stays empty when
\* a step of one thread leaves the locals of the others alone.
LEMMA LocalStep ==
  ASSUME LocalInv, [Next]_vars
  PROVE  LocalInv'
<1>1. TypeOK'
  BY TypeStep
<1> USE DEF LocalInv, TypeOK, kernel, objects, local, errors, process, LocalsOK, Apart,
            StorageEmpty, Making, SetupCalls
<1>2. CASE UNCHANGED vars
  BY <1>1, <1>2 DEF vars
<1>3. ASSUME NEW fd \in Fds, appClose(fd) PROVE LocalInv'
  BY <1>1, <1>3 DEF appClose
<1>4. ASSUME NEW t \in Threads, ThreadStep(t) PROVE LocalInv'
  <2>1. CASE startupBegins(t) \/ startupFailed(t) \/ initSockets(t)
    BY <1>1, <2>1 DEF startupBegins, startupFailed, initSockets
  <2>1a. ASSUME NEW s \in StartupOutcomes, startupEnds(t, s) PROVE LocalInv'
    BY <1>1, <2>1a DEF startupEnds
  <2>2. ASSUME NEW o \in Objs, NEW v6 \in BOOLEAN, newSocket(t, o, v6) PROVE LocalInv'
    <3>1. FirstCall(o, v6) \in {"v6only", "bind", "listen", "connect"}
      BY NextPlaces
    <3>. QED BY <1>1, <2>2, <3>1, HandlesAssumption DEF newSocket, Unused
  <2>3. ASSUME NEW e \in CallErrnos, newSocketFails(t, e) PROVE LocalInv'
    BY <1>1, <2>3 DEF newSocketFails
  <2>4. ASSUME NEW e \in CallErrnos, setupCallFails(t, e) PROVE LocalInv'
    BY <1>1, <2>4 DEF setupCallFails
  <2>5. CASE setupCall(t)
    <3>1. AfterCall(t) \in {"bind", "listen", "construct"}
      BY DEF AfterCall
    <3>. QED BY <1>1, <2>5, <3>1 DEF setupCall
  <2>6. CASE closeSocket(t)
    BY <1>1, <2>6, HandlesAssumption DEF closeSocket
  <2>7. CASE construct(t)
    BY <1>1, <2>7, HandlesAssumption DEF construct
  <2>8. ASSUME NEW l \in Listeners, NEW o \in Streams, accept(t, l, o) PROVE LocalInv'
    BY <1>1, <2>8, HandlesAssumption DEF accept, Unused, Objs
  <2>9. CASE acceptReturns(t)
    BY <1>1, <2>9, HandlesAssumption DEF acceptReturns
  <2>10. ASSUME NEW e \in CallErrnos \cup {BadFd}, acceptFails(t, e) PROVE LocalInv'
    BY <1>1, <2>10, HandlesAssumption DEF acceptFails
  <2>11. ASSUME NEW dst \in Objs, NEW src \in Objs, moveConstruct(t, dst, src) PROVE LocalInv'
    BY <1>1, <2>11, HandlesAssumption DEF moveConstruct, Moved, Unused
  <2>12. ASSUME NEW dst \in Objs, NEW src \in Objs, moveAssign(t, dst, src) PROVE LocalInv'
    BY <1>1, <2>12, HandlesAssumption DEF moveAssign, Unused
  <2>13. CASE moveAssignTake(t)
    <3>0. /\ self[t] \in alive /\ other[t] \in alive /\ alive' = alive /\ sock' = sock
          /\ pc' = [pc EXCEPT ![t] = "idle"] /\ self' = [self EXCEPT ![t] = None]
          /\ other' = [other EXCEPT ![t] = None]
      BY <2>13 DEF moveAssignTake
    <3>1. StorageEmpty'
      BY <2>13, <3>0 DEF moveAssignTake, Moved
    <3>2. ASSUME NEW u \in Threads PROVE LocalsOK(u)'
      <4>1. LocalsOK(u) /\ LocalsOK(t) /\ pc[t] = "assign"
        BY <2>13 DEF moveAssignTake
      <4>. QED BY <3>0, <4>1, HandlesAssumption
    <3>3. ASSUME NEW u \in Threads, NEW v \in Threads, u # v PROVE Apart(u, v)'
      <4>1. Apart(u, v)
        BY <3>3
      <4>. QED BY <3>0, <4>1, HandlesAssumption
    <3>. QED BY <1>1, <3>1, <3>2, <3>3
  <2>14. ASSUME NEW o \in Objs, destroy(t, o) PROVE LocalInv'
    <3>1. StorageEmpty'
      BY <2>14 DEF destroy
    <3>2. ASSUME NEW u \in Threads PROVE LocalsOK(u)'
      <4>1. self[u] # o /\ other[u] # o
        BY <2>14 DEF destroy, Unused
      <4>2. LocalsOK(u)
        OBVIOUS
      <4>. QED BY <2>14, <4>1, <4>2, HandlesAssumption DEF destroy
    <3>3. ASSUME NEW u \in Threads, NEW v \in Threads, u # v PROVE Apart(u, v)'
      BY <2>14, <3>3 DEF destroy
    <3>. QED BY <1>1, <3>1, <3>2, <3>3
  <2>15. ASSUME NEW o \in Streams, releaseHandle(t, o) PROVE LocalInv'
    BY <1>1, <2>15, HandlesAssumption DEF releaseHandle
  <2>. QED BY <1>4, <2>1, <2>1a, <2>2, <2>3, <2>4, <2>5, <2>6, <2>7, <2>8, <2>9, <2>10,
              <2>11, <2>12, <2>13, <2>14, <2>15 DEF ThreadStep
<1>. QED BY <1>2, <1>3, <1>4 DEF Next

\* The bookkeeping invariant holds at the start.
LEMMA LocalInit == Init => LocalInv
BY HandlesAssumption DEF Init, LocalInv, TypeOK, LocalsOK, Apart, StorageEmpty,
   Making, SetupCalls, PCs, Errnos, NetResults

\* Every state the program reaches is well typed: descriptors are descriptors
\* or InvalidSockFd, and results come from the errno of some failed call.
THEOREM TypeCorrect == Spec => []TypeOK
<1>1. LocalInv => TypeOK
  BY DEF LocalInv
<1>. QED BY <1>1, LocalInit, LocalStep, PTL DEF Spec

-----------------------------------------------------------------------------
(***************************************************************************)
(* What a step does to the holders, as a step of DescriptorOwnership.      *)
(***************************************************************************)
Holders == Objs \cup Threads \cup {App}

\* When one descriptor gets its first holder, the abstract specification acquires.
LEMMA AcquireMaps ==
  ASSUME NEW fd \in Fds, NEW h \in Holders,
         fd \notin open, HoldersOf(fd) = {}, open' = open \cup {fd},
         \A f \in Fds : HoldersOf(f)' = IF f = fd THEN {h} ELSE HoldersOf(f)
  PROVE  Ownership!Next
BY DEF Ownership!Next, Ownership!Acquire, Holders

\* When the one holder of a descriptor changes, it transfers.
LEMMA TransferMaps ==
  ASSUME NEW fd \in Fds, NEW h \in Holders, NEW g \in Holders,
         fd \in open, HoldersOf(fd) = {h}, open' = open,
         \A f \in Fds : HoldersOf(f)' = IF f = fd THEN {g} ELSE HoldersOf(f)
  PROVE  Ownership!Next
BY DEF Ownership!Next, Ownership!Transfer, Holders

\* When a descriptor is closed by its one holder, it releases.
LEMMA ReleaseMaps ==
  ASSUME NEW fd \in Fds, NEW h \in Holders,
         fd \in open, HoldersOf(fd) = {h}, open' = open \ {fd},
         \A f \in Fds : HoldersOf(f)' = IF f = fd THEN {} ELSE HoldersOf(f)
  PROVE  Ownership!Next
BY DEF Ownership!Next, Ownership!Release, Holders

\* When no descriptor and no holder changes, it stutters.
LEMMA StutterMaps ==
  ASSUME open' = open, \A f \in Fds : HoldersOf(f)' = HoldersOf(f)
  PROVE  UNCHANGED Ownership!vars
BY DEF Ownership!vars

\* Nothing but moveAssign and moveAssignTake changes which objects are in the
\* middle of an assignment.
LEMMA AssigningKept ==
  ASSUME TypeOK, NEW t \in Threads, pc[t] # "assign", pc'[t] # "assign",
         \A u \in Threads \ {t} : pc'[u] = pc[u] /\ self'[u] = self[u]
  PROVE  \A o : Assigning(o)' <=> Assigning(o)
BY DEF Assigning, TypeOK

\* A holder is one.
LEMMA HolderTypes ==
  ASSUME TypeOK, NEW fd \in Fds
  PROVE  HoldersOf(fd) \subseteq Holders
BY DEF HoldersOf, ObjHolders, FactoryHolders, Holders, TypeOK

\* In a state with one holder per open descriptor, a holder is the only one.
LEMMA TheHolder ==
  ASSUME OneHolder, NEW fd \in Fds, NEW h \in HoldersOf(fd)
  PROVE  fd \in open /\ HoldersOf(fd) = {h}
BY DEF OneHolder

\* Every step of the program is a step of the abstract specification, or none.
LEMMA OwnershipStep ==
  ASSUME LocalInv, OneHolder, [Next]_vars
  PROVE  [Ownership!Next]_(Ownership!vars)
<1> USE DEF kernel, objects, local, errors
<1> DEFINE Goal == [Ownership!Next]_(Ownership!vars)
           Kept == \A f \in Fds : HoldersOf(f)' = HoldersOf(f)
<1>1. TypeOK
  BY DEF LocalInv
<1>2. ASSUME alive' = alive, m_fd' = m_fd, sock' = sock, released' = released,
             \A o : Assigning(o)' <=> Assigning(o)
      PROVE  Kept
  BY <1>2 DEF HoldersOf, ObjHolders, FactoryHolders
<1>3. CASE UNCHANGED vars
  <2>1. \A o : Assigning(o)' <=> Assigning(o)
    BY <1>3 DEF vars, Assigning
  <2>. QED BY <1>2, <1>3, <2>1, StutterMaps DEF vars
<1>4. ASSUME NEW fd \in Fds, appClose(fd) PROVE Goal
  <2>1. App \in HoldersOf(fd) /\ App \in Holders
    BY <1>4 DEF appClose, HoldersOf, Holders
  <2>2. fd \in open /\ HoldersOf(fd) = {App}
    BY <2>1, TheHolder
  <2>3. \A o : Assigning(o)' <=> Assigning(o)
    BY <1>4 DEF appClose, Assigning
  <2>4. \A f \in Fds : HoldersOf(f)' = IF f = fd THEN {} ELSE HoldersOf(f)
    BY <1>1, <1>4, <2>2, <2>3, HandlesAssumption
       DEF appClose, HoldersOf, ObjHolders, FactoryHolders, TypeOK
  <2>. QED BY <1>4, <2>1, <2>2, <2>4, ReleaseMaps DEF appClose, CloseFd
<1>5. ASSUME NEW t \in Threads, ThreadStep(t) PROVE Goal
  <2> DEFINE SameAssigning == \A o : Assigning(o)' <=> Assigning(o)
  <2>0. LocalsOK(t)
    BY DEF LocalInv
  <2>1. CASE startupBegins(t) \/ startupFailed(t) \/ initSockets(t)
    <3>1. SameAssigning
      BY <1>1, <2>1, AssigningKept DEF startupBegins, startupFailed, initSockets, TypeOK
    <3>. QED BY <1>2, <2>1, <3>1, StutterMaps DEF startupBegins, startupFailed, initSockets
  <2>1a. ASSUME NEW s \in StartupOutcomes, startupEnds(t, s) PROVE Goal
    <3>1. SameAssigning
      BY <1>1, <2>1a, AssigningKept DEF startupEnds, TypeOK
    <3>. QED BY <1>2, <2>1a, <3>1, StutterMaps DEF startupEnds
  <2>2. ASSUME NEW o \in Objs, NEW v6 \in BOOLEAN, newSocket(t, o, v6) PROVE Goal
    <3>1. pc'[t] \in SetupCalls
      BY <1>1, <2>2, NextPlaces DEF newSocket, TypeOK
    <3>2. SameAssigning
      BY <1>1, <2>2, <3>1, AssigningKept DEF newSocket, TypeOK, SetupCalls
    <3>3. PICK fd \in Fds : OpenFd(fd, v6) /\ sock' = [sock EXCEPT ![t] = fd]
      BY <2>2 DEF newSocket
    <3>4. fd \notin open /\ HoldersOf(fd) = {}
      BY <3>3 DEF OpenFd, OneHolder
    <3>5. sock[t] \notin Fds
      BY <2>0, <2>2 DEF newSocket, LocalsOK, Making, SetupCalls
    <3>6. \A f \in Fds : HoldersOf(f)' = IF f = fd THEN {t} ELSE HoldersOf(f)
      BY <1>1, <2>2, <3>2, <3>3, <3>4, <3>5
         DEF newSocket, HoldersOf, ObjHolders, FactoryHolders, TypeOK
    <3>. QED BY <3>3, <3>4, <3>6, AcquireMaps DEF OpenFd, Holders
  <2>3. ASSUME NEW e \in CallErrnos, newSocketFails(t, e) PROVE Goal
    <3>1. SameAssigning
      BY <2>3 DEF newSocketFails, Assigning
    <3>. QED BY <1>2, <2>3, <3>1, StutterMaps DEF newSocketFails
  <2>4. ASSUME NEW e \in CallErrnos, setupCallFails(t, e) PROVE Goal
    <3>1. SameAssigning
      BY <1>1, <2>4, AssigningKept DEF setupCallFails, TypeOK, SetupCalls
    <3>. QED BY <1>2, <2>4, <3>1, StutterMaps DEF setupCallFails
  <2>5. CASE setupCall(t)
    <3>1. AfterCall(t) # "assign"
      BY DEF AfterCall
    <3>2. SameAssigning
      BY <1>1, <2>5, <3>1, AssigningKept DEF setupCall, TypeOK, SetupCalls
    <3>. QED BY <1>2, <2>5, <3>2, StutterMaps DEF setupCall
  <2>6. CASE closeSocket(t)
    <3>1. sock[t] \in Fds /\ t \in HoldersOf(sock[t])
      BY <2>0, <2>6 DEF closeSocket, LocalsOK, Making, HoldersOf, FactoryHolders
    <3>2. sock[t] \in open /\ HoldersOf(sock[t]) = {t}
      BY <3>1, TheHolder
    <3>3. SameAssigning
      BY <1>1, <2>6, AssigningKept DEF closeSocket, TypeOK
    <3>4. \A f \in Fds : HoldersOf(f)' = IF f = sock[t] THEN {} ELSE HoldersOf(f)
      BY <1>1, <2>6, <3>1, <3>2, <3>3, HandlesAssumption
         DEF closeSocket, HoldersOf, ObjHolders, FactoryHolders, TypeOK
    <3>. QED BY <2>6, <3>1, <3>2, <3>4, ReleaseMaps DEF closeSocket, CloseFd, Holders
  <2>7. CASE construct(t)
    <3> DEFINE fd == sock[t]
               o  == self[t]
    <3>1. fd \in Fds /\ t \in HoldersOf(fd) /\ o \in Objs /\ o \notin alive
      BY <2>0, <2>7 DEF construct, LocalsOK, Making, HoldersOf, FactoryHolders
    <3>2. fd \in open /\ HoldersOf(fd) = {t}
      BY <3>1, TheHolder
    <3>3. SameAssigning
      BY <1>1, <2>7, AssigningKept DEF construct, TypeOK
    <3>4. ~Assigning(o)
      BY <3>1 DEF Assigning, LocalInv, LocalsOK
    <3>5. \A f \in Fds : HoldersOf(f)' = IF f = fd THEN {o} ELSE HoldersOf(f)
      <4>1. \A f \in Fds : ObjHolders(f)' = ObjHolders(f) \cup (IF f = fd THEN {o} ELSE {})
        BY <1>1, <2>7, <3>1, <3>3, <3>4 DEF construct, ObjHolders, TypeOK
      <4>2. \A f \in Fds : FactoryHolders(f)' = FactoryHolders(f) \ {t}
        BY <1>1, <2>7, HandlesAssumption DEF construct, FactoryHolders, TypeOK
      <4>3. released' = released
        BY <2>7 DEF construct
      <4>4. \A f \in Fds : t \in FactoryHolders(f) => f = fd
        BY DEF FactoryHolders
      <4>5. ObjHolders(fd) = {} /\ fd \notin released
        BY <1>1, <3>1, <3>2, HandlesAssumption DEF HoldersOf, ObjHolders, TypeOK
      <4>. HIDE DEF fd, o
      <4>. QED BY <3>2, <4>1, <4>2, <4>3, <4>4, <4>5 DEF HoldersOf
    <3>. QED BY <2>7, <3>1, <3>2, <3>5, TransferMaps DEF construct, Holders
  <2>8. ASSUME NEW l \in Listeners, NEW o \in Streams, accept(t, l, o) PROVE Goal
    <3>1. SameAssigning
      BY <1>1, <2>8, AssigningKept DEF accept, TypeOK
    <3>. QED BY <1>2, <2>8, <3>1, StutterMaps DEF accept
  <2>9. CASE acceptReturns(t)
    <3>1. SameAssigning
      BY <1>1, <2>9, AssigningKept DEF acceptReturns, TypeOK
    <3>2. PICK fd \in Fds : /\ OpenFd(fd, isV6[m_fd[other[t]]])
                            /\ sock' = [sock EXCEPT ![t] = fd]
      BY <2>9 DEF acceptReturns
    <3>3. fd \notin open /\ HoldersOf(fd) = {}
      BY <3>2 DEF OpenFd, OneHolder
    <3>4. sock[t] \notin Fds
      BY <2>0, <2>9 DEF acceptReturns, LocalsOK, Making, SetupCalls
    <3>5. \A f \in Fds : HoldersOf(f)' = IF f = fd THEN {t} ELSE HoldersOf(f)
      BY <1>1, <2>9, <3>1, <3>2, <3>3, <3>4
         DEF acceptReturns, HoldersOf, ObjHolders, FactoryHolders, TypeOK
    <3>. QED BY <3>2, <3>3, <3>5, AcquireMaps DEF OpenFd, Holders
  <2>10. ASSUME NEW e \in CallErrnos \cup {BadFd}, acceptFails(t, e) PROVE Goal
    <3>1. SameAssigning
      BY <1>1, <2>10, AssigningKept DEF acceptFails, TypeOK
    <3>. QED BY <1>2, <2>10, <3>1, StutterMaps DEF acceptFails
  <2>11. ASSUME NEW dst \in Objs, NEW src \in Objs, moveConstruct(t, dst, src) PROVE Goal
    <3>1. SameAssigning
      BY <2>11 DEF moveConstruct, Assigning
    <3>2. /\ src \in alive /\ dst \notin alive /\ src # dst
          /\ ~Assigning(src) /\ ~Assigning(dst)
      BY <2>11 DEF moveConstruct, Unused, Assigning
    <3>3. CASE m_fd[src] = InvalidSockFd
      <4>1. \A f \in Fds : HoldersOf(f)' = HoldersOf(f)
        BY <1>1, <2>11, <3>1, <3>2, <3>3, HandlesAssumption
           DEF moveConstruct, Moved, HoldersOf, ObjHolders, FactoryHolders, TypeOK
      <4>. QED BY <2>11, <4>1, StutterMaps DEF moveConstruct
    <3>4. CASE m_fd[src] # InvalidSockFd
      <4> DEFINE fd == m_fd[src]
      <4>1. fd \in Fds /\ src \in HoldersOf(fd)
        BY <1>1, <3>2, <3>4 DEF TypeOK, HoldersOf, ObjHolders
      <4>2. fd \in open /\ HoldersOf(fd) = {src}
        BY <4>1, TheHolder
      <4>3. \A f \in Fds : HoldersOf(f)' = IF f = fd THEN {dst} ELSE HoldersOf(f)
        BY <1>1, <2>11, <3>1, <3>2, <4>1, <4>2, HandlesAssumption
           DEF moveConstruct, Moved, HoldersOf, ObjHolders, FactoryHolders, TypeOK
      <4>. QED BY <2>11, <4>1, <4>2, <4>3, TransferMaps DEF moveConstruct, Holders
    <3>. QED BY <3>3, <3>4
  <2>12. ASSUME NEW dst \in Objs, NEW src \in Objs, moveAssign(t, dst, src) PROVE Goal
    <3>1. \A o : Assigning(o)' <=> Assigning(o) \/ o = dst
      BY <1>1, <2>12 DEF moveAssign, Assigning, TypeOK
    <3>2. dst \in alive /\ ~Assigning(dst)
      BY <2>12 DEF moveAssign, Unused, Assigning
    <3>3. CASE m_fd[dst] = InvalidSockFd
      <4>1. \A f \in Fds : HoldersOf(f)' = HoldersOf(f)
        BY <1>1, <2>12, <3>1, <3>3, HandlesAssumption
           DEF moveAssign, HoldersOf, ObjHolders, FactoryHolders, TypeOK
      <4>. QED BY <2>12, <3>3, <4>1, StutterMaps DEF moveAssign, CloseHeld
    <3>4. CASE m_fd[dst] # InvalidSockFd
      <4> DEFINE fd == m_fd[dst]
      <4>1. fd \in Fds /\ dst \in HoldersOf(fd)
        BY <1>1, <3>2, <3>4 DEF TypeOK, HoldersOf, ObjHolders
      <4>2. fd \in open /\ HoldersOf(fd) = {dst}
        BY <4>1, TheHolder
      <4>3. \A f \in Fds : HoldersOf(f)' = IF f = fd THEN {} ELSE HoldersOf(f)
        BY <1>1, <2>12, <3>1, <4>1, <4>2, HandlesAssumption
           DEF moveAssign, HoldersOf, ObjHolders, FactoryHolders, TypeOK
      <4>. QED BY <2>12, <3>4, <4>1, <4>2, <4>3, ReleaseMaps
               DEF moveAssign, CloseHeld, CloseFd, Holders
    <3>. QED BY <3>3, <3>4
  <2>13. CASE moveAssignTake(t)
    <3> DEFINE dst == self[t]
               src == other[t]
    <3>1. dst \in alive /\ src \in alive /\ dst # src /\ dst \in Objs /\ src \in Objs
      BY <1>1, <2>0, <2>13 DEF moveAssignTake, LocalsOK, TypeOK
    <3>2. \A o : Assigning(o)' <=> Assigning(o) /\ o # dst
      BY <1>1, <2>13, <3>1, HandlesAssumption
         DEF moveAssignTake, Assigning, TypeOK, LocalInv, Apart
    <3>3. Assigning(dst) /\ ~Assigning(src)
      BY <2>13, <3>1, HandlesAssumption DEF moveAssignTake, Assigning, LocalInv, Apart
    <3>4. CASE m_fd[src] = InvalidSockFd
      <4>1. \A f \in Fds : HoldersOf(f)' = HoldersOf(f)
        BY <1>1, <2>13, <3>1, <3>2, <3>3, <3>4, HandlesAssumption
           DEF moveAssignTake, Moved, HoldersOf, ObjHolders, FactoryHolders, TypeOK
      <4>. QED BY <2>13, <4>1, StutterMaps DEF moveAssignTake
    <3>5. CASE m_fd[src] # InvalidSockFd
      <4> DEFINE fd == m_fd[src]
      <4>1. fd \in Fds /\ src \in HoldersOf(fd)
        BY <1>1, <3>1, <3>3, <3>5 DEF TypeOK, HoldersOf, ObjHolders
      <4>2. fd \in open /\ HoldersOf(fd) = {src}
        BY <4>1, TheHolder
      <4>3. \A f \in Fds : HoldersOf(f)' = IF f = fd THEN {dst} ELSE HoldersOf(f)
        BY <1>1, <2>13, <3>1, <3>2, <3>3, <4>1, <4>2, HandlesAssumption
           DEF moveAssignTake, Moved, HoldersOf, ObjHolders, FactoryHolders, TypeOK
      <4>. QED BY <2>13, <3>1, <4>1, <4>2, <4>3, TransferMaps DEF moveAssignTake, Holders
    <3>. QED BY <3>4, <3>5
  <2>14. ASSUME NEW o \in Objs, destroy(t, o) PROVE Goal
    <3>1. SameAssigning
      BY <2>14 DEF destroy, Assigning
    <3>2. o \in alive /\ ~Assigning(o)
      BY <2>14 DEF destroy, Unused, Assigning
    <3>3. CASE m_fd[o] = InvalidSockFd
      <4>1. \A f \in Fds : HoldersOf(f)' = HoldersOf(f)
        BY <1>1, <2>14, <3>1, <3>3, HandlesAssumption
           DEF destroy, HoldersOf, ObjHolders, FactoryHolders, TypeOK
      <4>. QED BY <2>14, <3>3, <4>1, StutterMaps DEF destroy, CloseHeld
    <3>4. CASE m_fd[o] # InvalidSockFd
      <4> DEFINE fd == m_fd[o]
      <4>1. fd \in Fds /\ o \in HoldersOf(fd)
        BY <1>1, <3>2, <3>4 DEF TypeOK, HoldersOf, ObjHolders
      <4>2. fd \in open /\ HoldersOf(fd) = {o}
        BY <4>1, TheHolder
      <4>3. \A f \in Fds : HoldersOf(f)' = IF f = fd THEN {} ELSE HoldersOf(f)
        BY <1>1, <2>14, <3>1, <4>1, <4>2, HandlesAssumption
           DEF destroy, HoldersOf, ObjHolders, FactoryHolders, TypeOK
      <4>. QED BY <2>14, <3>4, <4>1, <4>2, <4>3, ReleaseMaps
               DEF destroy, CloseHeld, CloseFd, Holders
    <3>. QED BY <3>3, <3>4
  <2>15. ASSUME NEW o \in Streams, releaseHandle(t, o) PROVE Goal
    <3>1. SameAssigning
      BY <2>15 DEF releaseHandle, Assigning
    <3>2. o \in alive /\ ~Assigning(o) /\ o \in Objs
      BY <2>15 DEF releaseHandle, Unused, Assigning, Objs
    <3>3. CASE m_fd[o] = InvalidSockFd
      <4>1. \A f \in Fds : HoldersOf(f)' = HoldersOf(f)
        BY <1>1, <2>15, <3>1, <3>3, HandlesAssumption
           DEF releaseHandle, HandedOver, HoldersOf, ObjHolders, FactoryHolders, TypeOK
      <4>. QED BY <2>15, <4>1, StutterMaps DEF releaseHandle
    <3>4. CASE m_fd[o] # InvalidSockFd
      <4> DEFINE fd == m_fd[o]
      <4>1. fd \in Fds /\ o \in HoldersOf(fd)
        BY <1>1, <3>2, <3>4 DEF TypeOK, HoldersOf, ObjHolders
      <4>2. fd \in open /\ HoldersOf(fd) = {o}
        BY <4>1, TheHolder
      <4>3. \A f \in Fds : HoldersOf(f)' = IF f = fd THEN {App} ELSE HoldersOf(f)
        BY <1>1, <2>15, <3>1, <3>2, <4>1, <4>2, HandlesAssumption
           DEF releaseHandle, HandedOver, HoldersOf, ObjHolders, FactoryHolders, TypeOK
      <4>. QED BY <2>15, <3>2, <4>1, <4>2, <4>3, TransferMaps DEF releaseHandle, Holders
    <3>. QED BY <3>3, <3>4
  <2>. QED BY <1>5, <2>1, <2>1a, <2>2, <2>3, <2>4, <2>5, <2>6, <2>7, <2>8, <2>9, <2>10,
              <2>11, <2>12, <2>13, <2>14, <2>15 DEF ThreadStep
<1>. QED BY <1>3, <1>4, <1>5 DEF Next

\* The abstract step keeps the one holder of every open descriptor.
LEMMA OneHolderStep ==
  ASSUME OneHolder, [Ownership!Next]_(Ownership!vars)
  PROVE  OneHolder'
<1> DEFINE hld == [fd \in Fds |-> HoldersOf(fd)]
<1>1. \A fd \in Fds : HoldersOf(fd)' = hld'[fd] /\ HoldersOf(fd) = hld[fd]
  OBVIOUS
<1>2. CASE UNCHANGED Ownership!vars
  <2>1. open' = open /\ hld' = hld
    BY <1>2 DEF Ownership!vars
  <2>. HIDE DEF hld
  <2>. QED BY <1>1, <2>1 DEF OneHolder
<1>3. ASSUME NEW fd \in Fds, NEW h, NEW S,
             hld' = [hld EXCEPT ![fd] = S],
             \/ open' = open \cup {fd} /\ S = {h}
             \/ fd \in open /\ open' = open /\ S = {h}
             \/ open' = open \ {fd} /\ S = {}
      PROVE  OneHolder'
  <2>1. hld'[fd] = S /\ \A f \in Fds \ {fd} : hld'[f] = hld[f]
    BY <1>3
  <2>. HIDE DEF hld
  <2>. QED BY <1>1, <1>3, <2>1 DEF OneHolder
<1>4. CASE Ownership!Next
  <2>1. PICK fd \in Fds, h \in Objs \cup Threads \cup {App} :
               \/ Ownership!Acquire(fd, h)
               \/ Ownership!Release(fd, h)
               \/ \E g \in Objs \cup Threads \cup {App} : Ownership!Transfer(fd, h, g)
    BY <1>4 DEF Ownership!Next
  <2>2. CASE Ownership!Acquire(fd, h)
    BY <1>3, <2>2 DEF Ownership!Acquire
  <2>3. CASE Ownership!Release(fd, h)
    BY <1>3, <2>3 DEF Ownership!Release
  <2>4. ASSUME NEW g \in Objs \cup Threads \cup {App}, Ownership!Transfer(fd, h, g)
        PROVE  OneHolder'
    BY <1>3, <2>4 DEF Ownership!Transfer
  <2>. QED BY <2>1, <2>2, <2>3, <2>4
<1>. QED BY <1>2, <1>4

\* At the start nothing is open and nothing is held.
LEMMA OwnershipInit == Init => OneHolder /\ Ownership!Init
BY HandlesAssumption DEF Init, OneHolder, Ownership!Init, HoldersOf, ObjHolders,
   FactoryHolders

\* The socket classes implement the ownership discipline: every step of every
\* thread opens a descriptor for one holder, hands one over, closes one by its
\* only holder, or leaves descriptors alone.
THEOREM Implementation == Spec => ImplementsOwnership
<1>1. LocalInv /\ OneHolder /\ [Next]_vars => [Ownership!Next]_(Ownership!vars)
  BY OwnershipStep
<1>2. LocalInv /\ OneHolder /\ [Next]_vars => LocalInv' /\ OneHolder'
  BY LocalStep, OwnershipStep, OneHolderStep
<1>3. Init => LocalInv /\ OneHolder /\ Ownership!Init
  BY LocalInit, OwnershipInit
<1>. QED BY <1>1, <1>2, <1>3, PTL DEF Spec, ImplementsOwnership, Ownership!Spec

\* The inductive invariant: the locals of every thread agree with the place it is
\* in, no two threads work on one object, storage without an object is empty, and
\* exactly the open descriptors have a holder, just one each.
THEOREM Invariance == Spec => [](LocalInv /\ OneHolder)
<1>1. LocalInv /\ OneHolder /\ [Next]_vars => LocalInv' /\ OneHolder'
  BY LocalStep, OwnershipStep, OneHolderStep
<1>2. Init => LocalInv /\ OneHolder
  BY LocalInit, OwnershipInit
<1>. QED BY <1>1, <1>2, PTL DEF Spec

\* No descriptor has two holders that would both close it.
THEOREM NoDoubleHolder == Spec => []SingleHolder
<1>1. OneHolder => SingleHolder
  BY DEF OneHolder, SingleHolder
<1>. QED BY <1>1, Invariance, PTL

\* Nobody but its holder ever closes a descriptor.
THEOREM NoStrayClose == Spec => []HeldIsOpen
<1>1. OneHolder => HeldIsOpen
  BY DEF OneHolder, HeldIsOpen
<1>. QED BY <1>1, Invariance, PTL

\* Every open descriptor is still held: no error path leaks one.
THEOREM NoDescriptorLeaks == Spec => []NoLeak
<1>1. LocalInv /\ OneHolder => NoLeak
  BY DEF OneHolder, NoLeak, LocalInv, TypeOK
<1>. QED BY <1>1, Invariance, PTL

-----------------------------------------------------------------------------
(***************************************************************************)
(* What the results and flags say.                                         *)
(***************************************************************************)
\* One thread runs the startup, while it is running, and before that nobody has a
\* descriptor.
StartupInv ==
  /\ StartupFirst
  /\ \A t \in Threads : pc[t] = "startup" => startup = "running"
  /\ \A t, u \in Threads : pc[t] = "startup" /\ pc[u] = "startup" => t = u

\* A step opens a descriptor only when the startup succeeded, which no step undoes.
LEMMA StartupStep ==
  ASSUME LocalInv, StartupInv, [Next]_vars
  PROVE  StartupInv'
<1> USE DEF StartupInv, StartupFirst, kernel, objects, local, errors, process
<1>1. TypeOK
  BY DEF LocalInv
<1> USE <1>1 DEF TypeOK
<1>2. CASE UNCHANGED vars
  BY <1>2 DEF vars
<1>3. ASSUME NEW fd \in Fds, appClose(fd) PROVE StartupInv'
  BY <1>3 DEF appClose, CloseFd
<1>4. ASSUME NEW t \in Threads, ThreadStep(t) PROVE StartupInv'
  <2>1. CASE startupBegins(t) \/ startupFailed(t) \/ initSockets(t)
    BY <2>1 DEF startupBegins, startupFailed, initSockets
  <2>2. ASSUME NEW s \in StartupOutcomes, startupEnds(t, s) PROVE StartupInv'
    BY <2>2 DEF startupEnds
  <2>3. ASSUME NEW o \in Objs, NEW v6 \in BOOLEAN, newSocket(t, o, v6) PROVE StartupInv'
    <3>1. FirstCall(o, v6) # "startup"
      BY NextPlaces DEF SetupCalls
    <3>. QED BY <2>3, <3>1 DEF newSocket
  <2>4. ASSUME NEW e \in CallErrnos, newSocketFails(t, e) \/ setupCallFails(t, e)
        PROVE  StartupInv'
    BY <2>4 DEF newSocketFails, setupCallFails
  <2>5. CASE acceptReturns(t)
    <3>1. open # {}
      BY <2>5 DEF acceptReturns
    <3>. QED BY <2>5, <3>1 DEF acceptReturns
  <2>6. CASE closeSocket(t)
    BY <2>6 DEF closeSocket, CloseFd
  <2>7. ASSUME NEW dst \in Objs, NEW src \in Objs,
               moveConstruct(t, dst, src) \/ moveAssign(t, dst, src)
        PROVE  StartupInv'
    BY <2>7 DEF moveConstruct, moveAssign, CloseHeld, CloseFd
  <2>8. ASSUME NEW o \in Objs, destroy(t, o) PROVE StartupInv'
    BY <2>8 DEF destroy, CloseHeld, CloseFd
  <2>9. CASE setupCall(t)
    <3>1. AfterCall(t) # "startup"
      BY NextPlaces DEF Making, SetupCalls
    <3>. QED BY <2>9, <3>1 DEF setupCall
  <2>10. CASE construct(t) \/ moveAssignTake(t)
    BY <2>10 DEF construct, moveAssignTake
  <2>11. CASE \/ \E l \in Listeners, o \in Streams : accept(t, l, o)
              \/ \E e \in CallErrnos \cup {BadFd} : acceptFails(t, e)
              \/ \E o \in Streams : releaseHandle(t, o)
    BY <2>11 DEF accept, acceptFails, releaseHandle
  <2>. QED BY <1>4, <2>1, <2>2, <2>3, <2>4, <2>5, <2>6, <2>7, <2>8, <2>9, <2>10,
              <2>11 DEF ThreadStep
<1>. QED BY <1>2, <1>3, <1>4 DEF Next

\* No descriptor is ever opened unless the one startup of the process succeeded.
THEOREM StartupComesFirst == Spec => []StartupFirst
<1>1. Init => StartupInv
  BY DEF Init, StartupInv, StartupFirst
<1>2. StartupInv => StartupFirst
  BY DEF StartupInv
<1>. QED BY <1>1, <1>2, StartupStep, Invariance, PTL DEF Spec

\* The error of a failing connect is in ret already when its socket is closed.
\* While no startup has succeeded no factory is under way, and an Err is the
\* startup's.
CauseInv == \A t \in Threads :
  /\ pc[t] \notin Making /\ ~ret[t].ok /\ cause[t] # Late =>
       ret[t].err = IF startup = "ok" THEN lastOsError(Platform, cause[t]) ELSE error
  /\ pc[t] \in SetupCalls => (pc[t] = "connect" <=> self[t] \in Streams)
  /\ pc[t] = "close" /\ self[t] \in Streams =>
       ret[t] = Err(lastOsError(Platform, cause[t])) /\ cause[t] # Late
  /\ startup \in {"unset", "running"} => ret[t].ok
  /\ startup # "ok" => alive = {} /\ pc[t] \in {"idle", "startup"}

\* No close gets between a failing connect or accept and its Err.
LEMMA CauseStep ==
  ASSUME LocalInv, OneHolder, StartupInv, CauseInv, [Next]_vars
  PROVE  CauseInv'
<1> USE DEF CauseInv, Making, SetupCalls, kernel, objects, local, errors, process
<1>1. TypeOK
  BY DEF LocalInv
<1>2. \A e : Err(e).err = e /\ ~Err(e).ok /\ Ok.ok
  BY DEF Err, Ok
<1>2a. CallErrnos \cup {BadFd} \subseteq Errnos /\ Late \notin CallErrnos \cup {BadFd, NoOs}
  BY HandlesAssumption DEF Errnos, Late, BadFd, NoOs
<1>2b. StartupInv
  OBVIOUS
<1>3. CASE UNCHANGED vars
  BY <1>3 DEF vars
<1>4. ASSUME NEW fd \in Fds, appClose(fd) PROVE CauseInv'
  BY <1>4 DEF appClose
<1>5. ASSUME NEW t \in Threads, ThreadStep(t) PROVE CauseInv'
  <2> USE <1>1 DEF TypeOK
  <2>1. CASE startupBegins(t) \/ startupFailed(t) \/ initSockets(t)
    BY <1>2, <2>1 DEF startupBegins, startupFailed, initSockets
  <2>1a. ASSUME NEW s \in StartupOutcomes, startupEnds(t, s) PROVE CauseInv'
    <3>1. startup = "running" /\ s \in {"ok", "failed"}
      BY <1>2b, <2>1a, HandlesAssumption DEF startupEnds, StartupInv
    <3>. QED BY <2>1a, <3>1 DEF startupEnds
  <2>2. ASSUME NEW o \in Objs, NEW v6 \in BOOLEAN, newSocket(t, o, v6) PROVE CauseInv'
    <3>1. /\ FirstCall(o, v6) \in SetupCalls
          /\ FirstCall(o, v6) = "connect" <=> o \in Streams
      BY DEF FirstCall
    <3>. QED BY <2>2, <3>1 DEF newSocket
  <2>3. ASSUME NEW e \in CallErrnos, newSocketFails(t, e) PROVE CauseInv'
    BY <1>2, <1>2a, <2>3 DEF newSocketFails, ReturnErr
  <2>4. ASSUME NEW e \in CallErrnos, setupCallFails(t, e) PROVE CauseInv'
    BY <1>2, <1>2a, <2>4 DEF setupCallFails
  <2>5. CASE setupCall(t)
    <3>1. /\ AfterCall(t) \in {"bind", "listen", "construct"}
          /\ pc[t] = "connect" => AfterCall(t) = "construct"
      BY DEF AfterCall
    <3>. QED BY <2>5, <3>1 DEF setupCall
  <2>6. CASE closeSocket(t)
    BY <1>2, <2>6 DEF closeSocket, ErrAfterClose
  <2>7. CASE construct(t)
    BY <1>2, <2>7 DEF construct
  <2>8. ASSUME NEW l \in Listeners, NEW o \in Streams, accept(t, l, o) PROVE CauseInv'
    BY <2>8 DEF accept
  <2>9. CASE acceptReturns(t)
    BY <2>9 DEF acceptReturns
  <2>10. ASSUME NEW e \in CallErrnos \cup {BadFd}, acceptFails(t, e) PROVE CauseInv'
    BY <1>2, <1>2a, <2>10 DEF acceptFails, ReturnErr
  <2>11. ASSUME NEW dst \in Objs, NEW src \in Objs,
                moveConstruct(t, dst, src) \/ moveAssign(t, dst, src)
         PROVE  CauseInv'
    BY <2>11 DEF moveConstruct, moveAssign
  <2>12. CASE moveAssignTake(t)
    BY <2>12 DEF moveAssignTake
  <2>13. CASE \/ \E o \in Objs : destroy(t, o)
              \/ \E o \in Streams : releaseHandle(t, o)
    BY <2>13 DEF destroy, releaseHandle
  <2>. QED BY <1>5, <2>1, <2>1a, <2>2, <2>3, <2>4, <2>5, <2>6, <2>7, <2>8, <2>9, <2>10,
              <2>11, <2>12, <2>13 DEF ThreadStep
<1>. QED BY <1>3, <1>4, <1>5 DEF Next

\* A failed connect or accept names the call that failed, whatever the close of
\* its socket does to errno, and a process without startup the startup's error.
THEOREM TheCauseIsReported == Spec => []ReportsCause
<1>1. Init => StartupInv /\ CauseInv
  BY DEF Init, CauseInv, StartupInv, StartupFirst, Making, SetupCalls, Ok
<1>2. CauseInv => ReportsCause
  BY DEF CauseInv, ReportsCause, Making, SetupCalls
<1>. QED BY <1>1, <1>2, CauseStep, StartupStep, Invariance, PTL DEF Spec

\* A descriptor that keeps a holder keeps its family, and one that is opened
\* had no holder; so only moves and constructions can upset the flag.
LEMMA FamilyStep ==
  ASSUME LocalInv, OneHolder, FamilyFlag, [Next]_vars
  PROVE  FamilyFlag'
<1> USE DEF FamilyFlag, kernel, objects, local, errors, process
<1>1. TypeOK
  BY DEF LocalInv
<1>2. ASSUME NEW u \in Udps \cap alive, m_fd[u] \in Fds, ~Assigning(u)
      PROVE  u \in HoldersOf(m_fd[u]) /\ m_fd[u] \in open
  <2>1. u \in HoldersOf(m_fd[u])
    BY <1>2 DEF HoldersOf, ObjHolders
  <2>. QED BY <1>2, <2>1, TheHolder
\* The objects are untouched, and so is the family of every object's descriptor.
<1>3. ASSUME alive' \subseteq alive,
             \A u \in Udps \cap alive' : m_fd'[u] = m_fd[u] /\ ipv6'[u] = ipv6[u],
             \A o \in Udps \cap alive' : Assigning(o) => Assigning(o)',
             \A u \in Udps \cap alive' :
               m_fd[u] \in Fds /\ ~Assigning(u)' => isV6'[m_fd[u]] = isV6[m_fd[u]]
      PROVE  FamilyFlag'
  BY <1>3
<1>4. CASE UNCHANGED vars
  BY <1>4 DEF vars, Assigning
<1>5. ASSUME NEW fd \in Fds, appClose(fd) PROVE FamilyFlag'
  <2>1. App \in HoldersOf(fd)
    BY <1>5 DEF appClose, HoldersOf
  <2>2. \A u \in Udps \cap alive : m_fd[u] \in Fds /\ ~Assigning(u) => m_fd[u] # fd
    <3>1. HoldersOf(fd) = {App}
      BY <2>1, TheHolder
    <3>. QED BY <1>1, <1>2, <3>1, HandlesAssumption DEF TypeOK
  <2>3. \A o : Assigning(o)' <=> Assigning(o)
    BY <1>5 DEF appClose, Assigning
  <2>. QED BY <1>1, <1>3, <1>5, <2>2, <2>3 DEF appClose, CloseFd, TypeOK
<1>6. ASSUME NEW t \in Threads, ThreadStep(t) PROVE FamilyFlag'
  <2>0. LocalsOK(t)
    BY DEF LocalInv
  <2>a. ASSUME alive' = alive, m_fd' = m_fd, ipv6' = ipv6, isV6' = isV6,
               pc[t] # "assign", pc'[t] # "assign",
               \A u \in Threads \ {t} : pc'[u] = pc[u] /\ self'[u] = self[u]
        PROVE  FamilyFlag'
    <3>1. \A o : Assigning(o)' <=> Assigning(o)
      BY <1>1, <2>a, AssigningKept
    <3>. QED BY <2>a, <3>1
  <2>b. ASSUME NEW fd \in Fds, NEW v6, OpenFd(fd, v6),
               alive' = alive, m_fd' = m_fd, ipv6' = ipv6,
               pc[t] # "assign", pc'[t] # "assign",
               \A u \in Threads \ {t} : pc'[u] = pc[u] /\ self'[u] = self[u]
        PROVE  FamilyFlag'
    <3>1. \A o : Assigning(o)' <=> Assigning(o)
      BY <1>1, <2>b, AssigningKept
    <3>. QED BY <1>1, <1>2, <2>b, <3>1 DEF OpenFd, TypeOK
  <2>1. CASE \/ startupBegins(t) \/ startupFailed(t) \/ initSockets(t)
             \/ \E s \in StartupOutcomes : startupEnds(t, s)
             \/ \E e \in CallErrnos : newSocketFails(t, e)
    BY <1>1, <2>1, <2>a DEF startupBegins, startupFailed, initSockets, startupEnds, newSocketFails, TypeOK
  <2>2. ASSUME NEW o \in Objs, NEW v6 \in BOOLEAN, newSocket(t, o, v6) PROVE FamilyFlag'
    <3>1. FirstCall(o, v6) # "assign"
      BY NextPlaces DEF SetupCalls
    <3>2. PICK fd \in Fds : OpenFd(fd, v6)
      BY <2>2 DEF newSocket
    <3>. QED BY <1>1, <2>2, <2>b, <3>1, <3>2 DEF newSocket, TypeOK
  <2>3. CASE \/ \E e \in CallErrnos : setupCallFails(t, e)
             \/ \E e \in CallErrnos \cup {BadFd} : acceptFails(t, e)
             \/ \E l \in Listeners, o \in Streams : accept(t, l, o)
    BY <1>1, <2>3, <2>a DEF setupCallFails, acceptFails, accept, TypeOK, SetupCalls
  <2>4. CASE setupCall(t)
    <3>1. AfterCall(t) # "assign"
      BY DEF AfterCall
    <3>. QED BY <1>1, <2>4, <2>a, <3>1 DEF setupCall, TypeOK, SetupCalls
  <2>5. CASE acceptReturns(t)
    <3>1. PICK fd \in Fds : OpenFd(fd, isV6[m_fd[other[t]]])
      BY <2>5 DEF acceptReturns
    <3>. QED BY <1>1, <2>5, <2>b, <3>1 DEF acceptReturns, TypeOK
  <2>6. CASE closeSocket(t)
    <3>1. sock[t] \in Fds /\ HoldersOf(sock[t]) = {t}
      <4>1. sock[t] \in Fds /\ t \in HoldersOf(sock[t])
        BY <2>0, <2>6 DEF closeSocket, LocalsOK, Making, HoldersOf, FactoryHolders
      <4>. QED BY <4>1, TheHolder
    <3>2. \A o : Assigning(o)' <=> Assigning(o)
      BY <1>1, <2>6, AssigningKept DEF closeSocket, TypeOK
    <3>3. \A u \in Udps \cap alive : m_fd[u] \in Fds /\ ~Assigning(u) => m_fd[u] # sock[t]
      BY <1>1, <1>2, <3>1, HandlesAssumption DEF TypeOK, Objs
    <3>. QED BY <1>1, <1>3, <2>6, <3>1, <3>2, <3>3 DEF closeSocket, CloseFd, TypeOK
  <2>7. CASE construct(t)
    <3>1. self[t] \in Objs /\ self[t] \notin alive
      BY <2>0, <2>7 DEF construct, LocalsOK, Making
    <3>2. \A o : Assigning(o)' <=> Assigning(o)
      BY <1>1, <2>7, AssigningKept DEF construct, TypeOK
    <3>. QED BY <1>1, <2>7, <3>1, <3>2 DEF construct, TypeOK
  <2>8. ASSUME NEW dst \in Objs, NEW src \in Objs, moveConstruct(t, dst, src) PROVE FamilyFlag'
    <3>1. \A o : Assigning(o)' <=> Assigning(o)
      BY <2>8 DEF moveConstruct, Assigning
    <3>2. /\ src \in alive /\ dst # src /\ ~Assigning(src)
          /\ dst \in Udps => src \in Udps
      BY <2>8, HandlesAssumption DEF moveConstruct, Unused, Assigning, SameClass
    <3>. QED BY <1>1, <2>8, <3>1, <3>2, HandlesAssumption
             DEF moveConstruct, Moved, FlagMoved, TypeOK
  <2>9. ASSUME NEW dst \in Objs, NEW src \in Objs, moveAssign(t, dst, src) PROVE FamilyFlag'
    <3>1. \A o : Assigning(o)' <=> Assigning(o) \/ o = dst
      BY <1>1, <2>9 DEF moveAssign, Assigning, TypeOK
    <3>2. ASSUME NEW u \in Udps \cap alive, m_fd[u] \in Fds, ~Assigning(u), u # dst
          PROVE  m_fd[u] # m_fd[dst]
      <4>1. ~Assigning(dst) /\ dst \in alive
        BY <2>9 DEF moveAssign, Unused, Assigning
      <4>2. HoldersOf(m_fd[u]) = {u}
        BY <1>2, <3>2, TheHolder
      <4>. QED BY <3>2, <4>1, <4>2 DEF HoldersOf, ObjHolders
    <3>. QED BY <1>1, <1>3, <2>9, <3>1, <3>2 DEF moveAssign, CloseHeld, CloseFd, TypeOK
  <2>10. CASE moveAssignTake(t)
    <3> DEFINE dst == self[t]
               src == other[t]
    <3>1. /\ dst \in alive /\ src \in alive /\ dst # src
          /\ dst \in Objs /\ src \in Objs
          /\ dst \in Udps => src \in Udps
      BY <1>1, <2>0, <2>10, HandlesAssumption
         DEF moveAssignTake, LocalsOK, SameClass, TypeOK
    <3>2. \A o : Assigning(o)' <=> Assigning(o) /\ o # dst
      BY <1>1, <2>10, <3>1, HandlesAssumption
         DEF moveAssignTake, Assigning, TypeOK, LocalInv, Apart
    <3>3. ~Assigning(src)
      BY <2>10, <3>1, HandlesAssumption DEF moveAssignTake, Assigning, LocalInv, Apart
    <3>. QED BY <1>1, <2>10, <3>1, <3>2, <3>3, HandlesAssumption
             DEF moveAssignTake, Moved, FlagMoved, TypeOK
  <2>11. ASSUME NEW o \in Objs, destroy(t, o) PROVE FamilyFlag'
    <3>1. \A p : Assigning(p)' <=> Assigning(p)
      BY <2>11 DEF destroy, Assigning
    <3>2. ASSUME NEW u \in Udps \cap alive, m_fd[u] \in Fds, ~Assigning(u), u # o
          PROVE  m_fd[u] # m_fd[o]
      <4>1. ~Assigning(o) /\ o \in alive
        BY <2>11 DEF destroy, Unused, Assigning
      <4>2. HoldersOf(m_fd[u]) = {u}
        BY <1>2, <3>2, TheHolder
      <4>. QED BY <3>2, <4>1, <4>2 DEF HoldersOf, ObjHolders
    <3>. QED BY <1>1, <1>3, <2>11, <3>1, <3>2 DEF destroy, CloseHeld, CloseFd, TypeOK
  <2>12. ASSUME NEW o \in Streams, releaseHandle(t, o) PROVE FamilyFlag'
    <3>1. o \notin Udps
      BY HandlesAssumption
    <3>2. \A p : Assigning(p)' <=> Assigning(p)
      BY <2>12 DEF releaseHandle, Assigning
    <3>. QED BY <1>1, <1>3, <2>12, <3>1, <3>2 DEF releaseHandle, TypeOK
  <2>. QED BY <1>6, <2>1, <2>2, <2>3, <2>4, <2>5, <2>6, <2>7, <2>8, <2>9, <2>10,
              <2>11, <2>12 DEF ThreadStep
<1>. QED BY <1>4, <1>5, <1>6 DEF Next

\* A UdpSocket knows the family of its descriptor, through any chain of moves.
THEOREM TheFamilyIsKnown == Spec => []FamilyFlag
<1>1. Init => FamilyFlag
  BY DEF Init, FamilyFlag
<1>. QED BY <1>1, FamilyStep, Invariance, PTL DEF Spec

=============================================================================
