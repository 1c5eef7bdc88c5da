---------------------------- MODULE ProxyProofs ----------------------------
(***************************************************************************)
(* Theorems on the connections of the proxy: on DisplayStream, for any     *)
(* viewers, any room between the app and the proxy and any number of       *)
(* faults, on AudioStream, for any number of faults and restarts, and on   *)
(* FileTransfer, for any names and contents and any number of broken       *)
(* connections. And on SessionPod, for any template whose sockets have     *)
(* paths that both containers can share.                                   *)
(***************************************************************************)
EXTENDS DisplayStream, AudioStream, FileTransfer, SessionPod, WellFoundedInduction, TLAPS

(* While its handler is in one of these places, a viewer has the lock ...  *)
Holding == {"dial", "status", "upgrade", "stream", "closeConn", "release"}

(* ... and only in these is the app's end of its connection open. *)
Linked == {"status", "upgrade", "stream", "closeConn"}

AppRecord == [at : {"idle", "lock", "dial", "status", "upgrade", "stream",
                    "closeConn", "release", "end", "held", "dead"},
              up : Copying, down : Copying]
LinkRecord == [app : {"none", "open", "closed"}, prx : {"none", "open", "closed"},
               status : {"none", "ok", "failed"}, sent : Nat]

LockInv ==
    /\ app \in [Viewer -> AppRecord]
    /\ link \in [Viewer -> LinkRecord]
    /\ \A v \in Viewer : app[v].at \in Holding => holder = v
    /\ \A v \in Viewer : link[v].app = "open" => app[v].at \in Linked

-----------------------------------------------------------------------------
(* The lock and the connection in the app's handler.                       *)

(* Nobody has the lock at first, and nothing is connected.                 *)
LEMMA LockInit == DisplayInit => LockInv
BY DisplayAssumption DEF DisplayInit, LockInv, AppRecord, LinkRecord, Copying, Holding, Linked

(* A step that changes the connection and the handler of one viewer, and   *)
(* puts into the connection only what AppWrite does.                       *)
Relinks(v, r) ==
    /\ link' = [link EXCEPT ![v] = r]
    /\ r \in LinkRecord
    /\ r.app = "open" => app'[v].at \in Linked
    /\ r.sent > link[v].sent => link[v].app = "open"

(* Such a step keeps the lock with its viewer.                             *)
LEMMA RelinksKeepsLock ==
  ASSUME LockInv, NEW v \in Viewer, NEW r, Relinks(v, r), UNCHANGED holder,
         app' \in [Viewer -> AppRecord], \A w \in Viewer : w # v => app'[w] = app[w],
         app'[v].at \in Holding => app[v].at \in Holding
  PROVE  LockInv'
<1>1. /\ link' \in [Viewer -> LinkRecord]
      /\ link'[v] = r
      /\ \A w \in Viewer : w # v => link'[w] = link[w]
  BY DEF Relinks, LockInv
<1> QED
  BY <1>1 DEF LockInv, Relinks

(* The actions that do so.                                                 *)
Relinking(v) ==
    \/ Dial(v) \/ ReadStatus(v) \/ CloseConn(v) \/ AppDies(v) \/ AppWrite(v)
    \/ DialDisplay(v) \/ WriteStatus(v) \/ PrxUp(v) \/ PrxClose(v)

(* Each of these actions is such a step.                                   *)
LEMMA RelinkingRelinks ==
  ASSUME LockInv, NEW v \in Viewer, Relinking(v)
  PROVE  /\ \E r : Relinks(v, r)
         /\ UNCHANGED holder
         /\ app' \in [Viewer -> AppRecord] /\ \A w \in Viewer : w # v => app'[w] = app[w]
         /\ app'[v].at \in Holding => app[v].at \in Holding
<1> DEFINE R == \E r : Relinks(v, r)
           A == /\ UNCHANGED holder
                /\ app' \in [Viewer -> AppRecord] /\ \A w \in Viewer : w # v => app'[w] = app[w]
                /\ app'[v].at \in Holding => app[v].at \in Holding
<1> SUFFICES R /\ A
  OBVIOUS
<1>0. link[v] \in LinkRecord /\ link \in [Viewer -> LinkRecord] /\ app \in [Viewer -> AppRecord]
  BY DEF LockInv
<1>u. ASSUME UNCHANGED link, link[v].app = "open" => app'[v].at \in Linked
      PROVE  R
  <2>1. link' = [link EXCEPT ![v] = link[v]]
    BY <1>0, <1>u
  <2> QED BY <1>0, <1>u, <2>1 DEF Relinks, LinkRecord
<1>a. ASSUME UNCHANGED <<holder, app>>
      PROVE  A
  BY <1>0, <1>a
<1>o. ASSUME UNCHANGED app, link[v].app = "open"
      PROVE  app'[v].at \in Linked
  BY <1>o DEF LockInv
<1>1. CASE Dial(v)
  <2> DEFINE r == [link[v] EXCEPT !.app = "open", !.prx = "open"]
  <2>1. link' = [link EXCEPT ![v] = r] /\ r \in LinkRecord /\ r.sent = link[v].sent
    BY <1>0, <1>1 DEF Dial, LinkRecord
  <2>2. A /\ app'[v].at \in Linked
    BY <1>0, <1>1 DEF Dial, AppGoes, AppRecord, Linked, Holding
  <2> HIDE DEF r
  <2>3. Relinks(v, r)
    BY <1>0, <2>1, <2>2 DEF Relinks, LinkRecord
  <2> QED BY <2>2, <2>3
<1>2. CASE ReadStatus(v)
  <2>1. A
    BY <1>0, <1>2 DEF ReadStatus, AppGoes, AppRecord, Holding
  <2>2. CASE UNCHANGED link /\ AppGoes(v, "upgrade")
    BY <1>0, <1>u, <2>1, <2>2 DEF AppGoes, AppRecord, Linked
  <2>3. CASE link' = [link EXCEPT ![v].app = "closed"]
    <3> DEFINE r == [link[v] EXCEPT !.app = "closed"]
    <3>1. link' = [link EXCEPT ![v] = r] /\ r \in LinkRecord /\ r.sent = link[v].sent /\ r.app = "closed"
      BY <1>0, <2>3 DEF LinkRecord
    <3> HIDE DEF r
    <3>2. Relinks(v, r)
      BY <1>0, <3>1 DEF Relinks, LinkRecord
    <3> QED BY <2>1, <3>2
  <2> QED BY <1>2, <2>2, <2>3 DEF ReadStatus
<1>3. CASE CloseConn(v) \/ AppDies(v)
  <2>1. A
    BY <1>0, <1>3 DEF CloseConn, AppDies, Fault, AppGoes, AppRecord, Copying, Holding
  <2>2. PICK c \in {"none", "closed"} : link' = [link EXCEPT ![v].app = c]
    BY <1>0, <1>3 DEF CloseConn, AppDies, LinkRecord
  <2> DEFINE r == [link[v] EXCEPT !.app = c]
  <2>3. link' = [link EXCEPT ![v] = r] /\ r \in LinkRecord /\ r.sent = link[v].sent /\ r.app = c
    BY <1>0, <2>2 DEF LinkRecord
  <2> HIDE DEF r
  <2>4. Relinks(v, r)
    BY <1>0, <2>3 DEF Relinks, LinkRecord
  <2> QED BY <2>1, <2>4
<1>4. CASE AppWrite(v)
  <2>1. A /\ app'[v].at = app[v].at
    BY <1>0, <1>4 DEF AppWrite, AppRecord, Copying
  <2>2. CASE UNCHANGED link
    BY <1>u, <2>1, <2>2 DEF LockInv
  <2>3. CASE link[v].app = "open" /\ link' = [link EXCEPT ![v].sent = @ + 1]
    <3> DEFINE r == [link[v] EXCEPT !.sent = @ + 1]
    <3>1. link' = [link EXCEPT ![v] = r] /\ r \in LinkRecord
      BY <1>0, <2>3 DEF LinkRecord
    <3>2. app'[v].at \in Linked
      BY <2>1, <2>3 DEF LockInv
    <3> HIDE DEF r
    <3>3. Relinks(v, r)
      BY <2>3, <3>1, <3>2 DEF Relinks
    <3> QED BY <2>1, <3>3
  <2> QED BY <1>4, <2>2, <2>3 DEF AppWrite
<1>5. ASSUME NEW r \in LinkRecord, link' = [link EXCEPT ![v] = r],
             r.app = link[v].app, r.sent <= link[v].sent, UNCHANGED app
      PROVE  R
  <2>1. Relinks(v, r)
    BY <1>0, <1>5, <1>o DEF Relinks, LinkRecord
  <2> QED BY <2>1
<1>6. CASE DialDisplay(v) \/ WriteStatus(v)
  <2>1. A /\ UNCHANGED app
    BY <1>a, <1>6 DEF DialDisplay, WriteStatus
  <2>2. CASE UNCHANGED link
    BY <1>u, <1>o, <2>1, <2>2
  <2>3. ASSUME NEW c \in {"ok", "failed"}, link' = [link EXCEPT ![v].status = c]
        PROVE  R
    <3> DEFINE r == [link[v] EXCEPT !.status = c]
    <3>1. /\ link' = [link EXCEPT ![v] = r] /\ r \in LinkRecord
          /\ r.app = link[v].app /\ r.sent = link[v].sent /\ link[v].sent \in Nat
      BY <1>0, <2>3 DEF LinkRecord
    <3> HIDE DEF r
    <3>2. r.sent <= link[v].sent
      BY <3>1
    <3> QED BY <1>5, <2>1, <3>1, <3>2
  <2> QED BY <1>6, <2>1, <2>2, <2>3 DEF DialDisplay, WriteStatus
<1>7. CASE PrxUp(v)
  <2>1. A /\ UNCHANGED app
    BY <1>a, <1>7 DEF PrxUp
  <2>2. CASE UNCHANGED link
    BY <1>u, <1>o, <2>1, <2>2
  <2>3. CASE link[v].sent > 0 /\ link' = [link EXCEPT ![v].sent = @ - 1]
    <3> DEFINE r == [link[v] EXCEPT !.sent = @ - 1]
    <3>1. /\ link' = [link EXCEPT ![v] = r] /\ r \in LinkRecord
          /\ r.app = link[v].app /\ r.sent <= link[v].sent
      BY <1>0, <2>3 DEF LinkRecord
    <3> HIDE DEF r
    <3> QED BY <1>5, <2>1, <3>1
  <2> QED BY <1>7, <2>1, <2>2, <2>3 DEF PrxUp
<1>8. CASE PrxClose(v)
  <2>1. A /\ UNCHANGED app
    BY <1>a, <1>8 DEF PrxClose
  <2> DEFINE r == [link[v] EXCEPT !.prx = "closed", !.sent = 0]
  <2>2. /\ link' = [link EXCEPT ![v] = r] /\ r \in LinkRecord
        /\ r.app = link[v].app /\ r.sent = 0 /\ link[v].sent \in Nat
    BY <1>0, <1>8 DEF PrxClose, LinkRecord
  <2> HIDE DEF r
  <2>3. r.sent <= link[v].sent
    BY <2>2
  <2> QED BY <1>5, <2>1, <2>2, <2>3
<1> QED
  BY <1>1, <1>2, <1>3, <1>4, <1>6, <1>7, <1>8 DEF Relinking

(* The other actions of a viewer leave the connections alone.              *)
LEMMA RelinkingOnly ==
  ASSUME LockInv, NEW v \in Viewer,
         \/ Request(v) \/ Acquire(v) \/ AcquireLost(v) \/ AcquireFails(v) \/ DialFails(v) \/ Upgrade(v)
         \/ CloseWebsocket(v) \/ Release(v) \/ ReleaseFails(v) \/ AppRead(v) \/ AppReadEnds(v)
         \/ AppDown(v) \/ CollectLock(v) \/ Leave(v)
         \/ NewManager(v) \/ WaitForReady(v) \/ AddSink(v) \/ AddSource(v)
         \/ SetDefaultSource(v) \/ Unload(v) \/ UnloadFails(v) \/ Disconnect(v)
         \/ Woken(v) \/ PrxDown(v) \/ PrxDownEnds(v) \/ DisplayCloses(v) \/ Finalize(v)
  PROVE  UNCHANGED link
BY DEF Request, Acquire, AcquireLost, AcquireFails, DialFails, Upgrade, CloseWebsocket, Release, ReleaseFails,
       AppRead, AppReadEnds, AppDown, CollectLock, Leave,
       NewManager, WaitForReady, AddSink, AddSource, SetDefaultSource, Unload,
       UnloadFails, Disconnect, Woken, PrxDown, PrxDownEnds, DisplayCloses, Finalize

(* The end of the proxy's process closes its ends only.                    *)
LEMMA ProcessEndUnlinks ==
  ASSUME LockInv, ProcessEnds, NEW w \in Viewer
  PROVE  /\ link'[w] \in LinkRecord
         /\ link'[w].app = link[w].app
         /\ link'[w].sent <= link[w].sent
<1>1. link[w] \in LinkRecord
  BY DEF LockInv
<1> DEFINE r == [link[w] EXCEPT !.prx = "closed", !.sent = 0]
<1>2. r \in LinkRecord /\ r.app = link[w].app /\ r.sent = 0
  BY <1>1 DEF LinkRecord
<1>3. link'[w] = r \/ link'[w] = link[w]
  BY DEF ProcessEnds
<1> HIDE DEF r
<1> QED
  BY <1>1, <1>2, <1>3 DEF LinkRecord

(* Every step keeps the lock with the viewer whose connection is open.     *)
LEMMA LockStep == LockInv /\ [DisplayNext]_displayVars => LockInv'
<1> SUFFICES ASSUME LockInv, [DisplayNext]_displayVars PROVE LockInv'
  OBVIOUS
<1> USE DisplayAssumption
<1>1. ASSUME UNCHANGED <<holder, app, link>>
      PROVE  LockInv'
  BY <1>1 DEF LockInv
<1>2. CASE UNCHANGED displayVars
  BY <1>1, <1>2 DEF displayVars
<1>3. ASSUME NEW v \in Viewer, Relinking(v)
      PROVE  LockInv'
  BY <1>3, RelinkingRelinks, RelinksKeepsLock
<1>4. ASSUME NEW v \in Viewer,
             \/ Request(v) \/ Acquire(v) \/ AcquireLost(v) \/ AcquireFails(v) \/ DialFails(v)
             \/ CloseWebsocket(v) \/ Release(v) \/ ReleaseFails(v)
      PROVE  LockInv'
  BY <1>4 DEF Request, Acquire, AcquireLost, AcquireFails, DialFails, CloseWebsocket, Release, ReleaseFails,
              AppGoes, Fault, LockInv, AppRecord, Holding, Linked
<1>5. ASSUME NEW v \in Viewer, CollectLock(v)
      PROVE  LockInv'
  BY <1>5 DEF CollectLock, LockInv, Holding
<1>6. ASSUME NEW v \in Viewer, Upgrade(v)
      PROVE  LockInv'
  BY <1>6 DEF Upgrade, AppGoes, LockInv, AppRecord, Copying, Holding, Linked
<1>7. ASSUME NEW v \in Viewer, AppRead(v) \/ AppReadEnds(v) \/ AppDown(v)
      PROVE  LockInv'
  BY <1>7 DEF AppRead, AppReadEnds, AppDown, LockInv, AppRecord, Copying
<1>8. ASSUME NEW v \in Viewer,
             \/ Leave(v) \/ NewManager(v) \/ WaitForReady(v) \/ AddSink(v) \/ AddSource(v)
             \/ SetDefaultSource(v) \/ Unload(v) \/ UnloadFails(v) \/ Disconnect(v)
             \/ Woken(v) \/ PrxDown(v) \/ PrxDownEnds(v) \/ DisplayCloses(v) \/ Finalize(v)
      PROVE  UNCHANGED <<holder, app, link>>
  BY <1>8 DEF Leave, NewManager, WaitForReady, AddSink, AddSource, SetDefaultSource, Unload,
              UnloadFails, Disconnect, Woken, PrxDown, PrxDownEnds, DisplayCloses, Finalize
<1>9. ASSUME ProcessEnds
      PROVE  LockInv'
  <2>1. link' \in [Viewer -> LinkRecord]
    <3>1. link' = [v \in Viewer |-> link'[v]]
      BY <1>9 DEF ProcessEnds
    <3> QED BY <1>9, <3>1, ProcessEndUnlinks
  <2>2. UNCHANGED <<holder, app>>
    BY <1>9 DEF ProcessEnds
  <2> QED BY <1>9, <2>1, <2>2, ProcessEndUnlinks DEF LockInv
<1>10. ASSUME NEW v \in Viewer, DestroyFreed(v)
       PROVE  LockInv'
  BY <1>1, <1>9, <1>10 DEF DestroyFreed
<1>11. CASE OtherHolds
  BY <1>11 DEF OtherHolds, LockInv
<1>12. CASE ProxyDies
  BY <1>9, <1>12 DEF ProxyDies
<1> QED
  BY <1>1, <1>2, <1>3, <1>4, <1>5, <1>6, <1>7, <1>8, <1>10, <1>11, <1>12
  DEF DisplayNext, AppStep, PrxStep, Destroying, Relinking

(* Who puts something into a viewer's connection has it open.              *)
LEMMA OpenToSend ==
  ASSUME LockInv, DisplayNext, NEW w \in Viewer, link'[w].sent > link[w].sent
  PROVE  link[w].app = "open"
<1>0. link \in [Viewer -> LinkRecord] /\ link[w].sent \in Nat
  BY DEF LockInv, LinkRecord
<1>1. ~ UNCHANGED link
  BY <1>0
<1>2. ASSUME NEW v \in Viewer, Relinking(v)
      PROVE  link[w].app = "open"
  <2>1. PICK r : Relinks(v, r)
    BY <1>2, RelinkingRelinks
  <2> QED BY <1>0, <2>1 DEF Relinks
<1>3. ~ ProcessEnds
  BY <1>0, ProcessEndUnlinks DEF LinkRecord
<1>4. ASSUME NEW v \in Viewer
      PROVE  ~ DestroyFreed(v)
  BY <1>1, <1>3 DEF DestroyFreed
<1>5. ~ OtherHolds /\ ~ ProxyDies
  BY <1>1, <1>3 DEF OtherHolds, ProxyDies
<1> QED
  BY <1>1, <1>2, <1>4, <1>5, RelinkingOnly DEF DisplayNext, AppStep, PrxStep, Destroying, Relinking

(* The inductive invariant: a handler has the lock from the moment it is   *)
(* granted until it is released, and its connection is closed before.      *)
THEOREM LockInvariant == DisplaySpec => []LockInv
<1>1. QED
  BY LockInit, LockStep, PTL DEF DisplaySpec

(* The app sends on what a browser types only while its viewer has the     *)
(* lock.                                                                   *)
THEOREM ViewersSendUnderLock == DisplaySpec => SentUnderLock
<1>1. LockInv /\ [DisplayNext]_displayVars
        => [\A v \in Viewer : link'[v].sent > link[v].sent => holder = v]_displayVars
  <2> SUFFICES ASSUME LockInv, DisplayNext, NEW v \in Viewer, link'[v].sent > link[v].sent
               PROVE  holder = v
    OBVIOUS
  <2>1. link[v].app = "open"
    BY OpenToSend
  <2> QED
    BY <2>1 DEF LockInv, Linked, Holding
<1>2. QED
  BY <1>1, LockInvariant, PTL DEF DisplaySpec, SentUnderLock

-----------------------------------------------------------------------------
(* The sound devices in the proxy's handler.                               *)

PrxRecord == [at : {"none", "dial", "status", "manager", "ready", "sink", "source",
                    "default", "undo", "wait", "destroy", "close", "end"},
              up : Copying, down : Copying]
DeviceRecord == [context : {"none", "open", "freed"}, list : Seq(Kinds \cup {Invalid}),
                 next : Nat \ {0}, logged : BOOLEAN]

ProxyTypes == prx \in [Viewer -> PrxRecord] /\ devices \in [Viewer -> DeviceRecord]

(* Nothing of the handler is loaded, or an error said that it may be.      *)
Clear(v) == devices[v].logged \/ \A k \in Kinds : <<v, k>> \notin modules

(* A module that is loaded is still to be unloaded: it is in the list, at  *)
(* the place Destroy has come to or after it.                              *)
Listing(k, list, next) == \E i \in next..Len(list) : list[i] = k
ToUnload(v) ==
    \A k \in Kinds : <<v, k>> \in modules =>
       devices[v].logged \/ Listing(k, devices[v].list, devices[v].next)

Early == {"idle", "lock", "dial"}

HandlerInv(v) ==
    /\ app[v].at \in Early => prx[v].at = "none"
    /\ ToUnload(v)
    /\ prx[v].at \in {"none", "dial", "status", "manager", "close", "end"} => Clear(v)
    /\ devices[v].context = "freed" => Clear(v) /\ devices[v].next = 1
    /\ devices[v].context = "none" => devices[v].list = <<>>
    /\ prx[v].at \in {"ready", "sink", "source", "default"} => devices[v].context = "open"
    /\ prx[v].at \notin {"undo", "destroy"} => devices[v].next = 1

DevicesInv == LockInv /\ ProxyTypes /\ \A v \in Viewer : HandlerInv(v)

(* Places in the list.                                                     *)
LEMMA NothingListed == ASSUME NEW k PROVE ~ Listing(k, <<>>, 1)
BY DEF Listing

(* What is appended is listed, with what was listed before.                *)
LEMMA ListingAppended ==
  ASSUME NEW S, NEW list \in Seq(S), NEW k \in S
  PROVE  /\ Append(list, k) \in Seq(S)
         /\ Listing(k, Append(list, k), 1)
         /\ \A other : Listing(other, list, 1) => Listing(other, Append(list, k), 1)
<1>1. /\ Append(list, k) \in Seq(S) /\ Len(Append(list, k)) = Len(list) + 1
      /\ Append(list, k)[Len(list) + 1] = k /\ Len(list) \in Nat
      /\ \A i \in 1..Len(list) : Append(list, k)[i] = list[i]
  OBVIOUS
<1> QED
  BY <1>1 DEF Listing

(* What is not the next entry is listed after it.                          *)
LEMMA ListingNext ==
  ASSUME NEW S, NEW list \in Seq(S), NEW next \in Nat, NEW k,
         Listing(k, list, next), list[next] # k
  PROVE  Listing(k, list, next + 1)
BY DEF Listing

(* After the last entry nothing is listed.                                 *)
LEMMA ListingOver ==
  ASSUME NEW S, NEW list \in Seq(S), NEW next \in Nat, NEW k, next > Len(list)
  PROVE  ~ Listing(k, list, next)
BY DEF Listing

(* At first there are no modules and no managers.                          *)
LEMMA DevicesInit == DisplayInit => DevicesInv
<1> SUFFICES ASSUME DisplayInit PROVE DevicesInv
  OBVIOUS
<1>1. ProxyTypes
  BY DEF DisplayInit, ProxyTypes, PrxRecord, DeviceRecord, NoManager, Copying
<1>2. ASSUME NEW v \in Viewer PROVE HandlerInv(v)
  BY DEF DisplayInit, HandlerInv, ToUnload, Clear, NoManager, Early
<1> QED
  BY <1>1, <1>2, LockInit DEF DevicesInv

(* A handler in the app never goes back to before its dial.                *)
LEMMA NeverEarlyAgain ==
  ASSUME LockInv, DisplayNext, NEW w \in Viewer, app'[w].at \in Early
  PROVE  app[w].at \in Early
<1> USE DEF LockInv, AppRecord, Early
<1>1. ASSUME NEW v \in Viewer,
             \/ Request(v) \/ Acquire(v) \/ AcquireLost(v) \/ AcquireFails(v) \/ Dial(v) \/ DialFails(v)
             \/ ReadStatus(v) \/ CloseWebsocket(v) \/ CloseConn(v) \/ Release(v) \/ ReleaseFails(v)
      PROVE  app[w].at \in Early
  BY <1>1 DEF Request, Acquire, AcquireLost, AcquireFails, Dial, DialFails, ReadStatus, CloseWebsocket,
              CloseConn, Release, ReleaseFails, AppGoes
<1>2. ASSUME NEW v \in Viewer,
             \/ Upgrade(v) \/ AppRead(v) \/ AppReadEnds(v) \/ AppWrite(v) \/ AppDown(v) \/ AppDies(v)
      PROVE  app[w].at \in Early
  BY <1>2 DEF Upgrade, AppRead, AppReadEnds, AppWrite, AppDown, AppDies, AppGoes
<1>3. ASSUME UNCHANGED app
      PROVE  app[w].at \in Early
  BY <1>3
<1>4. ASSUME NEW v \in Viewer,
             \/ CollectLock(v) \/ Leave(v) \/ PrxStep(v) \/ PrxUp(v) \/ PrxDown(v)
             \/ PrxDownEnds(v) \/ DisplayCloses(v) \/ Finalize(v)
      PROVE  UNCHANGED app
  BY <1>4 DEF CollectLock, Leave, PrxStep, PrxUp, PrxDown, PrxDownEnds, DisplayCloses, Finalize,
              DialDisplay, WriteStatus, NewManager, WaitForReady, AddSink, AddSource,
              SetDefaultSource, Destroying, Unload, UnloadFails, Disconnect, DestroyFreed,
              ProcessEnds, Woken, PrxClose
<1>5. CASE OtherHolds \/ ProxyDies
  BY <1>5, <1>3 DEF OtherHolds, ProxyDies, ProcessEnds
<1> QED
  BY <1>1, <1>2, <1>3, <1>4, <1>5 DEF DisplayNext, AppStep

(* What a step of one handler leaves of another.                           *)
Untouched(w) ==
    /\ prx'[w].at = prx[w].at /\ devices'[w] = devices[w]
    /\ \A k \in Kinds : <<w, k>> \in modules' <=> <<w, k>> \in modules

(* The invariant of a handler is kept by steps that do not disturb it ...  *)
LEMMA OthersKeep ==
  ASSUME DevicesInv, DisplayNext, NEW w \in Viewer, Untouched(w)
  PROVE  HandlerInv(w)'
<1>1. app'[w].at \in Early => app[w].at \in Early
  BY NeverEarlyAgain DEF DevicesInv
<1>2. HandlerInv(w)
  BY DEF DevicesInv
<1>3. ToUnload(w)' /\ (Clear(w) => Clear(w)')
  BY <1>2 DEF HandlerInv, Untouched, ToUnload, Clear, Listing
<1> QED
  BY <1>1, <1>2, <1>3 DEF HandlerInv, Untouched

(* ... so a step of one handler need only be looked at for that one.       *)
LEMMA OneHandler ==
  ASSUME DevicesInv, DisplayNext, NEW v \in Viewer, ProxyTypes', HandlerInv(v)',
         \A w \in Viewer : w # v => Untouched(w)
  PROVE  DevicesInv'
<1>1. LockInv'
  BY LockStep DEF DevicesInv
<1> QED
  BY <1>1, OthersKeep DEF DevicesInv

(* What a step does to the record of one viewer.                           *)
PrxPlaces == {"none", "dial", "status", "manager", "ready", "sink", "source",
              "default", "undo", "wait", "destroy", "close", "end"}

(* A handler in the proxy goes to another place.                           *)
LEMMA PrxMoves ==
  ASSUME DevicesInv, NEW v \in Viewer, NEW at \in PrxPlaces, PrxGoes(v, at)
  PROVE  /\ prx' \in [Viewer -> PrxRecord]
         /\ prx'[v].at = at
         /\ \A w \in Viewer : w # v => prx'[w].at = prx[w].at
BY DEF DevicesInv, ProxyTypes, PrxRecord, PrxPlaces, PrxGoes, Copying

(* A handler replaces the record of its device manager.                    *)
LEMMA DevicesChange ==
  ASSUME DevicesInv, NEW v \in Viewer, NEW d \in DeviceRecord, devices' = [devices EXCEPT ![v] = d]
  PROVE  /\ devices' \in [Viewer -> DeviceRecord]
         /\ devices'[v] = d
         /\ \A w \in Viewer : w # v => devices'[w] = devices[w]
BY DEF DevicesInv, ProxyTypes

(* The handler goes on, and the devices stay as they are.                  *)
LEMMA HandlerGoesOn ==
  ASSUME DevicesInv, DisplayNext, NEW v \in Viewer, NEW at \in PrxPlaces, UNCHANGED Pulse,
         prx' \in [Viewer -> PrxRecord], prx'[v].at = at,
         \A w \in Viewer : w # v => prx'[w].at = prx[w].at,
         app'[v].at \in Early => prx[v].at # "none",
         at \in {"none", "dial", "status", "manager", "close", "end"} => Clear(v),
         at \in {"ready", "sink", "source", "default"} => devices[v].context = "open",
         at \notin {"undo", "destroy"} => devices[v].next = 1
  PROVE  DevicesInv'
<1>1. ProxyTypes'
  BY DEF Pulse, DevicesInv, ProxyTypes
<1>2. \A w \in Viewer : w # v => Untouched(w)
  BY DEF Pulse, Untouched
<1>3. app'[v].at \notin Early
  BY NeverEarlyAgain DEF DevicesInv, HandlerInv
<1>4. HandlerInv(v)'
  <2>1. HandlerInv(v)
    BY DEF DevicesInv
  <2>2. (Clear(v) <=> Clear(v)') /\ (ToUnload(v) <=> ToUnload(v)')
    BY DEF Pulse, Clear, ToUnload, Listing
  <2>3. devices'[v] = devices[v]
    BY DEF Pulse
  <2> QED
    BY <1>3, <2>1, <2>2, <2>3 DEF HandlerInv
<1> QED
  BY <1>1, <1>2, <1>4, OneHandler

(* The end of the process: whoever was at work may leave modules behind.   *)
LEMMA ProcessEndKeeps ==
  ASSUME DevicesInv, DisplayNext, ProcessEnds
  PROVE  DevicesInv'
<1>1. ASSUME NEW b \in BOOLEAN
      PROVE  /\ NoManager(b) \in DeviceRecord
             /\ NoManager(b).list = <<>> /\ NoManager(b).next = 1 /\ NoManager(b).logged = b
             /\ NoManager(b).context = "none"
  BY <1>1 DEF NoManager, DeviceRecord
<1>2. ASSUME NEW v \in Viewer
      PROVE  /\ devices'[v] = NoManager(devices[v].logged \/ prx[v].at \notin {"none", "end"})
             /\ prx'[v] \in PrxRecord
             /\ prx[v].at = "none" => prx'[v].at = "none"
             /\ prx'[v].at \in {"none", "end"}
  <2>1. prx[v] \in PrxRecord
    BY DEF DevicesInv, ProxyTypes
  <2>2. prx'[v] = IF prx[v].at = "none" THEN prx[v] ELSE [at |-> "end", up |-> "end", down |-> "end"]
    BY DEF ProcessEnds
  <2>3. devices'[v] = NoManager(devices[v].logged \/ prx[v].at \notin {"none", "end"})
    BY DEF ProcessEnds
  <2> QED
    BY <2>1, <2>2, <2>3 DEF PrxRecord, Copying
<1>3. ProxyTypes'
  <2>1. prx' = [v \in Viewer |-> prx'[v]] /\ devices' = [v \in Viewer |-> devices'[v]]
    BY DEF ProcessEnds
  <2>2. \A v \in Viewer : (devices[v].logged \/ prx[v].at \notin {"none", "end"}) \in BOOLEAN
    OBVIOUS
  <2> QED
    BY <1>1, <1>2, <2>1, <2>2 DEF ProxyTypes
<1>4. ASSUME NEW v \in Viewer PROVE HandlerInv(v)'
  <2>1. HandlerInv(v) /\ LockInv
    BY DEF DevicesInv
  <2>2. UNCHANGED modules
    BY DEF ProcessEnds
  <2> DEFINE b == devices[v].logged \/ prx[v].at \notin {"none", "end"}
  <2>0. b \in BOOLEAN /\ devices'[v] = NoManager(b)
    BY <1>2
  <2>3. Clear(v)'
    <3>1. CASE b
      <4>1. devices'[v].logged
        BY <1>1, <2>0, <3>1
      <4> QED BY <4>1 DEF Clear
    <3>2. CASE ~ b
      <4>1. \A k \in Kinds : <<v, k>> \notin modules
        BY <2>1, <3>2 DEF HandlerInv, Clear
      <4> QED BY <2>2, <4>1 DEF Clear
    <3> QED BY <3>1, <3>2
  <2> HIDE DEF b
  <2>4. devices'[v].list = <<>> /\ devices'[v].next = 1
    BY <1>1, <2>0
  <2>5. ToUnload(v)'
    BY <2>3 DEF ToUnload, Clear
  <2>6. app'[v].at \in Early => prx'[v].at = "none"
    BY <1>2, <2>1, NeverEarlyAgain DEF HandlerInv
  <2> QED
    BY <1>2, <2>3, <2>4, <2>5, <2>6 DEF HandlerInv
<1> QED
  BY <1>3, <1>4, LockStep DEF DevicesInv

(* A module is loaded, or the server answers that it cannot load it.       *)
LEMMA DeviceListed ==
  ASSUME DevicesInv, DisplayNext, NEW v \in Viewer, NEW k \in Kinds \cup {Invalid},
         prx[v].at \in {"sink", "source"}, NEW at \in {"source", "default"}, PrxGoes(v, at),
         Listed(v, k), UNCHANGED app,
         \/ modules' = modules \cup {<<v, k>>}
         \/ UNCHANGED modules
  PROVE  DevicesInv'
<1>1. HandlerInv(v) /\ LockInv /\ devices[v] \in DeviceRecord
  BY DEF DevicesInv, ProxyTypes
<1>2. devices[v].list \in Seq(Kinds \cup {Invalid}) /\ devices[v].next = 1 /\ devices[v].context = "open"
  BY <1>1 DEF HandlerInv, DeviceRecord
<1> DEFINE list == Append(devices[v].list, k)
           d == [devices[v] EXCEPT !.list = list]
<1>3. /\ list \in Seq(Kinds \cup {Invalid})
      /\ Listing(k, list, 1)
      /\ \A j : Listing(j, devices[v].list, 1) => Listing(j, list, 1)
  BY <1>2, ListingAppended
<1>4. devices' = [devices EXCEPT ![v] = d]
  BY DEF Listed, DevicesInv, ProxyTypes
<1> HIDE DEF list
<1>5. /\ d \in DeviceRecord /\ d.list = list /\ d.next = 1 /\ d.context = "open"
      /\ d.logged = devices[v].logged
  BY <1>1, <1>2, <1>3 DEF DeviceRecord
<1> HIDE DEF d
<1>6. /\ devices' \in [Viewer -> DeviceRecord] /\ devices'[v] = d
      /\ \A w \in Viewer : w # v => devices'[w] = devices[w]
  BY <1>4, <1>5, DevicesChange
<1>7. /\ prx' \in [Viewer -> PrxRecord] /\ prx'[v].at = at
      /\ \A w \in Viewer : w # v => prx'[w].at = prx[w].at
  BY PrxMoves DEF PrxPlaces
<1>8. \A w \in Viewer : w # v => Untouched(w)
  BY <1>6, <1>7 DEF Untouched
<1>9. ToUnload(v)'
  <2> SUFFICES ASSUME NEW j \in Kinds, <<v, j>> \in modules', ~ d.logged
               PROVE  Listing(j, d.list, d.next)
    BY <1>6 DEF ToUnload, Listing
  <2>1. j = k \/ Listing(j, devices[v].list, 1)
    BY <1>1, <1>2, <1>5 DEF HandlerInv, ToUnload
  <2> QED
    BY <2>1, <1>3, <1>5
<1>10. app'[v].at \notin Early
  BY <1>1 DEF HandlerInv
<1>11. HandlerInv(v)'
  BY <1>5, <1>6, <1>7, <1>9, <1>10 DEF HandlerInv
<1> QED
  BY <1>6, <1>7, <1>8, <1>11, OneHandler DEF ProxyTypes

(* Destroy has come to a module, and unloads it.                           *)
LEMMA UnloadKeeps ==
  ASSUME DevicesInv, DisplayNext, NEW v \in Viewer, Unload(v)
  PROVE  DevicesInv'
<1>1. HandlerInv(v) /\ LockInv /\ devices[v] \in DeviceRecord
  BY DEF DevicesInv, ProxyTypes
<1>2. devices[v].next \in Nat \ {0} /\ devices[v].list \in Seq(Kinds \cup {Invalid})
  BY <1>1 DEF DeviceRecord
<1> DEFINE d == [devices[v] EXCEPT !.next = @ + 1]
<1>3. devices' = [devices EXCEPT ![v] = d]
  BY DEF Unload, DevicesInv, ProxyTypes
<1>4. /\ d \in DeviceRecord /\ d.list = devices[v].list /\ d.next = devices[v].next + 1
      /\ d.context = devices[v].context /\ d.logged = devices[v].logged
  BY <1>1 DEF DeviceRecord
<1> HIDE DEF d
<1>5. /\ devices' \in [Viewer -> DeviceRecord] /\ devices'[v] = d
      /\ \A w \in Viewer : w # v => devices'[w] = devices[w]
  BY <1>3, <1>4, DevicesChange
<1>6. /\ UNCHANGED <<prx, app>> /\ prx[v].at \in {"undo", "destroy"} /\ devices[v].context # "freed"
      /\ modules' = modules \ {<<v, devices[v].list[devices[v].next]>>}
  BY DEF Unload, InDestroy, Entry
<1>7. \A w \in Viewer : w # v => Untouched(w)
  BY <1>5, <1>6 DEF Untouched
<1>8. ToUnload(v)'
  <2> SUFFICES ASSUME NEW j \in Kinds, <<v, j>> \in modules', ~ d.logged
               PROVE  Listing(j, d.list, d.next)
    BY <1>5 DEF ToUnload, Listing
  <2>1. devices[v].list[devices[v].next] # j /\ Listing(j, devices[v].list, devices[v].next)
    BY <1>1, <1>4, <1>6 DEF HandlerInv, ToUnload
  <2> QED
    BY <1>2, <1>4, <2>1, ListingNext
<1>9. HandlerInv(v)'
  BY <1>1, <1>4, <1>5, <1>6, <1>8 DEF HandlerInv
<1> QED
  BY <1>5, <1>6, <1>7, <1>9, OneHandler DEF ProxyTypes, DevicesInv

(* What else a handler does to its device manager: the new record is at    *)
(* its first entry and lists nothing new.                                  *)
LEMMA ManagerChanges ==
  ASSUME DevicesInv, DisplayNext, NEW v \in Viewer, NEW at \in PrxPlaces, PrxGoes(v, at),
         prx[v].at # "none", UNCHANGED <<app, modules>>,
         NEW d \in DeviceRecord, devices' = [devices EXCEPT ![v] = d], d.next = 1,
         Clear(v) \/ d.logged \/ (d.list = devices[v].list /\ prx[v].at = "manager"),
         devices[v].logged => d.logged,
         d.context = "none" => d.list = <<>>,
         d.context = "freed" \/ at \in {"none", "dial", "status", "manager", "close", "end"}
            => Clear(v) \/ d.logged,
         at \in {"ready", "sink", "source", "default"} => d.context = "open"
  PROVE  DevicesInv'
<1>1. HandlerInv(v) /\ LockInv
  BY DEF DevicesInv
<1>2. /\ devices' \in [Viewer -> DeviceRecord] /\ devices'[v] = d
      /\ \A w \in Viewer : w # v => devices'[w] = devices[w]
  BY DevicesChange
<1>3. /\ prx' \in [Viewer -> PrxRecord] /\ prx'[v].at = at
      /\ \A w \in Viewer : w # v => prx'[w].at = prx[w].at
  BY PrxMoves
<1>4. \A w \in Viewer : w # v => Untouched(w)
  BY <1>2, <1>3 DEF Untouched
<1>5. Clear(v) \/ d.logged => Clear(v)'
  BY <1>2 DEF Clear
<1>6. Clear(v) \/ d.logged
  BY <1>1 DEF HandlerInv
<1>7. ToUnload(v)'
  BY <1>5, <1>6 DEF ToUnload, Clear
<1>8. HandlerInv(v)'
  BY <1>1, <1>2, <1>3, <1>5, <1>6, <1>7 DEF HandlerInv
<1> QED
  BY <1>2, <1>3, <1>4, <1>8, OneHandler DEF ProxyTypes

(* The manager is made; a module is not unloaded; Destroy ends, and the    *)
(* handler.                                                                *)
LEMMA ManagerStep ==
  ASSUME DevicesInv, DisplayNext, NEW v \in Viewer,
         NewManager(v) \/ UnloadFails(v) \/ Disconnect(v) \/ PrxClose(v)
  PROVE  DevicesInv'
<1>0. HandlerInv(v) /\ devices[v] \in DeviceRecord /\ devices \in [Viewer -> DeviceRecord]
  BY DEF DevicesInv, ProxyTypes
<1>1. CASE NewManager(v)
  <2>1. /\ prx[v].at = "manager" /\ UNCHANGED <<app, modules>>
        /\ Clear(v) /\ devices[v].next = 1
    BY <1>0, <1>1 DEF NewManager, HandlerInv
  <2>2. CASE devices' = [devices EXCEPT ![v].context = "open"] /\ PrxGoes(v, "ready")
    <3> DEFINE d == [devices[v] EXCEPT !.context = "open"]
    <3>1. /\ devices' = [devices EXCEPT ![v] = d] /\ d \in DeviceRecord /\ d.context = "open"
          /\ d.next = 1 /\ d.logged = devices[v].logged
      BY <1>0, <2>1, <2>2 DEF DeviceRecord
    <3> HIDE DEF d
    <3>2. (devices[v].logged => d.logged) /\ d.context # "none" /\ d.context # "freed"
      BY <3>1
    <3>3. "ready" \in PrxPlaces /\ "ready" \notin {"none", "dial", "status", "manager", "close", "end"}
      BY DEF PrxPlaces
    <3>4. prx[v].at # "none"
      BY <2>1
    <3> QED
      BY <2>1, <2>2, <3>1, <3>2, <3>3, <3>4, ManagerChanges
  <2>3. CASE UNCHANGED devices /\ PrxGoes(v, "wait")
    <3>1. /\ prx' \in [Viewer -> PrxRecord] /\ prx'[v].at = "wait"
          /\ \A w \in Viewer : w # v => prx'[w].at = prx[w].at
      BY <2>3, PrxMoves DEF PrxPlaces
    <3> QED
      BY <2>1, <2>3, <3>1, HandlerGoesOn DEF PrxPlaces, Pulse
  <2> QED BY <1>1, <2>2, <2>3 DEF NewManager
<1>2. CASE UnloadFails(v)
  <2> DEFINE d == [devices[v] EXCEPT !.next = 1, !.logged = TRUE]
  <2>0. devices' = [devices EXCEPT ![v].next = 1, ![v].logged = TRUE]
    BY <1>2 DEF UnloadFails
  <2>1. /\ devices' = [devices EXCEPT ![v] = d] /\ d \in DeviceRecord
        /\ d.next = 1 /\ d.logged /\ d.context = devices[v].context /\ d.list = devices[v].list
    <3>1. devices' = [devices EXCEPT ![v] = d]
      BY <1>0, <2>0
    <3>2. d \in DeviceRecord /\ d.logged
      <4>1. d = [[devices[v] EXCEPT !.next = 1] EXCEPT !.logged = TRUE]
        OBVIOUS
      <4>2. ASSUME NEW r \in DeviceRecord
            PROVE  [r EXCEPT !.next = 1] \in DeviceRecord
        BY <4>2 DEF DeviceRecord
      <4>3. ASSUME NEW r \in DeviceRecord
            PROVE  [r EXCEPT !.logged = TRUE] \in DeviceRecord /\ [r EXCEPT !.logged = TRUE].logged
        BY <4>3 DEF DeviceRecord
      <4> HIDE DEF d
      <4> QED BY <1>0, <4>1, <4>2, <4>3
    <3>3. d.next = 1 /\ d.context = devices[v].context /\ d.list = devices[v].list
      BY <1>0 DEF DeviceRecord
    <3> QED BY <3>1, <3>2, <3>3
  <2> HIDE DEF d
  <2>2. prx[v].at \in {"undo", "destroy"} /\ UNCHANGED <<app, modules>>
    BY <1>2 DEF UnloadFails, InDestroy
  <2>3. PICK at \in {"wait", "close"} : PrxGoes(v, at)
    BY <1>2 DEF UnloadFails, Returns
  <2> QED
    BY <1>0, <2>1, <2>2, <2>3, ManagerChanges DEF PrxPlaces, HandlerInv
<1>3. CASE Disconnect(v)
  <2>1. Clear(v)
    <3>1. \A k : ~ Listing(k, devices[v].list, devices[v].next)
      BY <1>0, <1>3, ListingOver DEF Disconnect, DeviceRecord
    <3> QED BY <1>0, <3>1 DEF HandlerInv, ToUnload, Clear
  <2> DEFINE d == [devices[v] EXCEPT !.context = "freed", !.next = 1]
  <2>0. devices' = [devices EXCEPT ![v].context = "freed", ![v].next = 1]
    BY <1>3 DEF Disconnect
  <2>2. /\ devices' = [devices EXCEPT ![v] = d] /\ d \in DeviceRecord
        /\ d.next = 1 /\ d.logged = devices[v].logged /\ d.context = "freed"
    <3>1. devices' = [devices EXCEPT ![v] = d]
      BY <1>0, <2>0
    <3>2. d \in DeviceRecord
      <4>1. d = [[devices[v] EXCEPT !.context = "freed"] EXCEPT !.next = 1]
        OBVIOUS
      <4>2. [devices[v] EXCEPT !.context = "freed"] \in DeviceRecord
        BY <1>0 DEF DeviceRecord
      <4>3. ASSUME NEW r \in DeviceRecord
            PROVE  [r EXCEPT !.next = 1] \in DeviceRecord
        BY <4>3 DEF DeviceRecord
      <4> HIDE DEF d
      <4> QED BY <4>1, <4>2, <4>3
    <3>3. d.next = 1 /\ d.logged = devices[v].logged /\ d.context = "freed"
      BY <1>0 DEF DeviceRecord
    <3> QED BY <3>1, <3>2, <3>3
  <2> HIDE DEF d
  <2>3. prx[v].at \in {"undo", "destroy"} /\ UNCHANGED <<app, modules>>
    BY <1>3 DEF Disconnect, InDestroy
  <2>4. PICK at \in {"wait", "close"} : PrxGoes(v, at)
    BY <1>3 DEF Disconnect, Returns
  <2> QED
    BY <2>1, <2>2, <2>3, <2>4, ManagerChanges DEF PrxPlaces
<1>4. CASE PrxClose(v)
  <2> DEFINE d == NoManager(devices[v].logged)
  <2>1. /\ devices' = [devices EXCEPT ![v] = d] /\ d \in DeviceRecord
        /\ d.next = 1 /\ d.logged = devices[v].logged /\ d.context = "none" /\ d.list = <<>>
    BY <1>0, <1>4 DEF PrxClose, NoManager, DeviceRecord
  <2> HIDE DEF d
  <2>2. /\ prx[v].at = "close" /\ UNCHANGED <<app, modules>> /\ PrxGoes(v, "end")
        /\ Clear(v)
    BY <1>0, <1>4 DEF PrxClose, HandlerInv
  <2> QED
    BY <2>1, <2>2, ManagerChanges DEF PrxPlaces
<1> QED
  BY <1>1, <1>2, <1>3, <1>4

(* Every step keeps what was loaded in the list, until it is unloaded.     *)
LEMMA DevicesStep == DevicesInv /\ [DisplayNext]_displayVars => DevicesInv'
<1> SUFFICES ASSUME DevicesInv, [DisplayNext]_displayVars PROVE DevicesInv'
  OBVIOUS
<1>0. \A v \in Viewer : HandlerInv(v) /\ prx[v] \in PrxRecord
  BY DEF DevicesInv, ProxyTypes
<1>1. CASE UNCHANGED displayVars
  <2>1. LockInv' /\ ProxyTypes'
    BY <1>1, LockStep DEF displayVars, DevicesInv, ProxyTypes
  <2>2. \A v \in Viewer : (ToUnload(v) <=> ToUnload(v)') /\ (Clear(v) <=> Clear(v)')
    BY <1>1 DEF displayVars, ToUnload, Clear, Listing
  <2> QED
    BY <1>1, <2>1, <2>2 DEF displayVars, DevicesInv, HandlerInv
<1> SUFFICES ASSUME DisplayNext PROVE DevicesInv'
  BY <1>1
<1>2. ASSUME NEW v \in Viewer, UNCHANGED Pulse, prx' \in [Viewer -> PrxRecord],
             \A w \in Viewer : prx'[w].at = prx[w].at
      PROVE  DevicesInv'
  <2>1. ProxyTypes' /\ \A w \in Viewer : Untouched(w)
    BY <1>2 DEF DevicesInv, ProxyTypes, Pulse, Untouched
  <2> QED
    BY <2>1, OthersKeep, OneHandler
<1>3. ASSUME NEW v \in Viewer,
             \/ Request(v) \/ Acquire(v) \/ AcquireLost(v) \/ AcquireFails(v) \/ DialFails(v)
             \/ ReadStatus(v) \/ Upgrade(v) \/ CloseWebsocket(v) \/ CloseConn(v)
             \/ Release(v) \/ ReleaseFails(v)
             \/ AppRead(v) \/ AppReadEnds(v) \/ AppWrite(v) \/ AppDown(v) \/ AppDies(v)
             \/ CollectLock(v) \/ Leave(v) \/ DisplayCloses(v) \/ Finalize(v)
      PROVE  DevicesInv'
  <2>1. UNCHANGED <<prx, Pulse>>
    BY <1>3 DEF Request, Acquire, AcquireLost, AcquireFails, DialFails, ReadStatus, Upgrade, CloseWebsocket,
                CloseConn, Release, ReleaseFails, AppRead, AppReadEnds, AppWrite, AppDown, AppDies,
                CollectLock, Leave, DisplayCloses, Finalize
  <2> QED BY <2>1, <1>2 DEF DevicesInv, ProxyTypes
<1>4. ASSUME NEW v \in Viewer, PrxUp(v) \/ PrxDown(v) \/ PrxDownEnds(v)
      PROVE  DevicesInv'
  <2>1. UNCHANGED Pulse
    BY <1>4 DEF PrxUp, PrxDown, PrxDownEnds
  <2>2. \/ UNCHANGED prx
        \/ prx' = [prx EXCEPT ![v].up = "end"]
        \/ prx' = [prx EXCEPT ![v].down = "end"]
    BY <1>4 DEF PrxUp, PrxDown, PrxDownEnds
  <2>3. prx' \in [Viewer -> PrxRecord] /\ \A w \in Viewer : prx'[w].at = prx[w].at
    BY <2>2 DEF DevicesInv, ProxyTypes, PrxRecord, Copying
  <2> QED BY <1>2, <2>1, <2>3
<1>5. ASSUME NEW v \in Viewer, Dial(v)
      PROVE  DevicesInv'
  <2>1. /\ app[v].at = "dial" /\ PrxGoes(v, "dial") /\ UNCHANGED Pulse
        /\ app'[v].at \notin Early
    BY <1>5 DEF Dial, AppGoes, DevicesInv, LockInv, AppRecord, Early
  <2>2. prx[v].at = "none" /\ Clear(v) /\ devices[v].next = 1
    BY <1>0, <2>1 DEF HandlerInv, Early
  <2> QED
    BY <2>1, <2>2, PrxMoves, HandlerGoesOn DEF PrxPlaces
<1>6. ASSUME NEW v \in Viewer, NEW at \in PrxPlaces, PrxGoes(v, at), UNCHANGED Pulse,
             prx[v].at # "none",
             at \in {"none", "dial", "status", "manager", "close", "end"} => Clear(v),
             at \in {"ready", "sink", "source", "default"} => devices[v].context = "open",
             at \notin {"undo", "destroy"} => devices[v].next = 1
      PROVE  DevicesInv'
  BY <1>6, PrxMoves, HandlerGoesOn
<1>7. ASSUME NEW v \in Viewer, DialDisplay(v)
      PROVE  DevicesInv'
  <2>1. prx[v].at = "dial" /\ UNCHANGED Pulse /\ (PrxGoes(v, "status") \/ PrxGoes(v, "close"))
    BY <1>7 DEF DialDisplay
  <2> QED
    BY <1>0, <1>6, <2>1 DEF HandlerInv, PrxPlaces
<1>8. ASSUME NEW v \in Viewer, WriteStatus(v)
      PROVE  DevicesInv'
  <2>1. prx[v].at = "status" /\ UNCHANGED Pulse /\ Clear(v) /\ devices[v].next = 1
    BY <1>0, <1>8 DEF WriteStatus, HandlerInv
  <2>2. CASE PrxGoes(v, "close")
    BY <1>6, <2>1, <2>2 DEF PrxPlaces
  <2>3. CASE prx' = [prx EXCEPT ![v] = [at |-> "manager", up |-> "on", down |-> "on"]]
    <3>1. /\ prx' \in [Viewer -> PrxRecord] /\ prx'[v].at = "manager"
          /\ \A w \in Viewer : w # v => prx'[w].at = prx[w].at
      BY <2>3 DEF DevicesInv, ProxyTypes, PrxRecord, Copying
    <3> QED
      BY <2>1, <3>1, HandlerGoesOn DEF PrxPlaces
  <2> QED BY <1>8, <2>2, <2>3 DEF WriteStatus
<1>9. ASSUME NEW v \in Viewer, WaitForReady(v) \/ SetDefaultSource(v)
      PROVE  DevicesInv'
  <2>1. /\ prx[v].at \in {"ready", "default"} /\ UNCHANGED Pulse
        /\ devices[v].context = "open" /\ devices[v].next = 1
    BY <1>0, <1>9 DEF WaitForReady, SetDefaultSource, HandlerInv
  <2>2. PICK at \in {"sink", "undo", "wait"} : PrxGoes(v, at)
    BY <1>9 DEF WaitForReady, SetDefaultSource
  <2> QED
    BY <1>6, <2>1, <2>2 DEF PrxPlaces
<1>10. ASSUME NEW v \in Viewer, AddSink(v) \/ AddSource(v)
       PROVE  DevicesInv'
  <2>1. /\ prx[v].at \in {"sink", "source"} /\ UNCHANGED app
        /\ devices[v].context = "open" /\ devices[v].next = 1
    BY <1>0, <1>10 DEF AddSink, AddSource, HandlerInv
  <2>2. CASE UNCHANGED Pulse /\ PrxGoes(v, "undo")
    BY <1>6, <2>1, <2>2 DEF PrxPlaces
  <2>3. ASSUME NEW k \in Kinds \cup {Invalid}, NEW at \in {"source", "default"}, PrxGoes(v, at),
               Listed(v, k), modules' = modules \cup {<<v, k>>} \/ UNCHANGED modules
        PROVE  DevicesInv'
    BY <2>1, <2>3, DeviceListed
  <2> QED
    BY <1>10, <2>2, <2>3 DEF AddSink, AddSource, Kinds
<1>11. ASSUME NEW v \in Viewer, Woken(v)
       PROVE  DevicesInv'
  <2>1. prx[v].at = "wait" /\ UNCHANGED Pulse /\ devices[v].next = 1
    BY <1>0, <1>11 DEF Woken, HandlerInv
  <2>2. CASE devices[v].context = "none" /\ PrxGoes(v, "close")
    <3>1. Clear(v)
      BY <1>0, <2>1, <2>2, NothingListed DEF HandlerInv, ToUnload, Clear
    <3> QED
      BY <1>6, <2>1, <2>2, <3>1 DEF PrxPlaces
  <2>3. CASE PrxGoes(v, "destroy")
    BY <1>6, <2>1, <2>3 DEF PrxPlaces
  <2> QED BY <1>11, <2>2, <2>3 DEF Woken
<1>12. ASSUME NEW v \in Viewer, DestroyFreed(v)
       PROVE  DevicesInv'
  <2>1. CASE ProcessEnds
    BY <2>1, ProcessEndKeeps
  <2>2. CASE Returns(v) /\ UNCHANGED Pulse
    <3>1. /\ prx[v].at \in {"undo", "destroy"} /\ Clear(v) /\ devices[v].next = 1
      BY <1>0, <1>12 DEF DestroyFreed, InDestroy, HandlerInv
    <3>2. PICK at \in {"wait", "close"} : PrxGoes(v, at)
      BY <2>2 DEF Returns
    <3> QED
      BY <1>6, <2>2, <3>1, <3>2 DEF PrxPlaces
  <2> QED BY <1>12, <2>1, <2>2 DEF DestroyFreed
<1>13. CASE OtherHolds
  <2>1. UNCHANGED <<prx, Pulse, app>>
    BY <1>13 DEF OtherHolds
  <2>2. ProxyTypes' /\ \A w \in Viewer : Untouched(w)
    BY <2>1 DEF DevicesInv, ProxyTypes, Pulse, Untouched
  <2> QED
    BY <2>2, OthersKeep, LockStep DEF DevicesInv
<1>14. CASE ProxyDies
  BY <1>14, ProcessEndKeeps DEF ProxyDies
<1> QED
  BY <1>3, <1>4, <1>5, <1>7, <1>8, <1>9, <1>10, <1>11, <1>12, <1>13, <1>14,
     UnloadKeeps, ManagerStep
  DEF DisplayNext, AppStep, PrxStep, Destroying

(* The inductive invariant: what a handler has loaded and Destroy has not  *)
(* unloaded yet is in the part of the list Destroy has still to come to.   *)
THEOREM DevicesInvariant == DisplaySpec => []DevicesInv
<1>1. QED
  BY DevicesInit, DevicesStep, PTL DEF DisplaySpec

(* A handler that has ended leaves no sound device behind but after an     *)
(* error that was logged or the end of the process.                        *)
THEOREM NoDeviceLeft == DisplaySpec => []DevicesGo
<1>1. DevicesInv => DevicesGo
  BY DEF DevicesInv, HandlerInv, Clear, DevicesGo
<1>2. QED
  BY <1>1, DevicesInvariant, PTL

-----------------------------------------------------------------------------
(* The sound.                                                              *)

PlayRecord == [pipeline : Pipeline, pipe : BOOLEAN, full : BOOLEAN]
RecRecord == [pipeline : Pipeline, writer : {"nil", "open", "closed"}, mutex : {"free", "watch"}]
LoopRecord == [running : BOOLEAN, lost : BOOLEAN, sending : BOOLEAN]
WatchRecord == [at : {"off", "tick", "restart", "new", "end"}, moved : BOOLEAN, since : BOOLEAN]
Troubles == [faults : 0..MaxAudioFaults, restarts : 0..MaxRestarts]
CopyAt == {"off", "read", "reading", "write", "writing", "end"} \cup Closing

(* What the fields are after each update of the records.                   *)
LEMMA PlayUpdates ==
  ASSUME NEW p \in PlayRecord
  PROVE  /\ [p EXCEPT !.full = TRUE] \in PlayRecord
         /\ [p EXCEPT !.full = FALSE] \in PlayRecord
         /\ [p EXCEPT !.full = TRUE].pipeline = p.pipeline
         /\ [p EXCEPT !.full = FALSE].pipeline = p.pipeline
         /\ [p EXCEPT !.pipeline = "stopped", !.pipe = FALSE] \in PlayRecord
         /\ [p EXCEPT !.pipeline = "stopped", !.pipe = FALSE].pipeline = "stopped"
BY DEF PlayRecord, Pipeline

(* The same for the recorder.                                              *)
LEMMA RecUpdates ==
  ASSUME NEW r \in RecRecord
  PROVE  /\ [r EXCEPT !.pipeline = "playing", !.writer = "open"] \in RecRecord
         /\ [r EXCEPT !.pipeline = "stopped", !.mutex = "free"] \in RecRecord
         /\ [r EXCEPT !.pipeline = "stopped", !.mutex = "free"].writer = r.writer
         /\ [r EXCEPT !.writer = "nil", !.mutex = "free"] \in RecRecord
         /\ [r EXCEPT !.writer = "closed", !.pipeline = "stopped"] \in RecRecord
         /\ [r EXCEPT !.writer = "closed", !.pipeline = "stopped"].writer = "closed"
         /\ [r EXCEPT !.writer = "closed", !.pipeline = "stopped"].pipeline = "stopped"
BY DEF RecRecord, Pipeline

(* The same for the loop.                                                  *)
LEMMA LoopUpdates ==
  ASSUME loop \in LoopRecord
  PROVE  /\ [loop EXCEPT !.running = TRUE] \in LoopRecord
         /\ [loop EXCEPT !.sending = TRUE] \in LoopRecord
         /\ [loop EXCEPT !.sending = FALSE, !.running = FALSE] \in LoopRecord
         /\ [loop EXCEPT !.running = FALSE, !.sending = FALSE] \in LoopRecord
         /\ Quit => loop' \in LoopRecord
BY DEF LoopRecord, Quit

(* The same for the counts: a fault or a restart adds one to them.         *)
LEMMA TroubleUpdates ==
  ASSUME trouble \in Troubles
  PROVE  /\ trouble.faults \in Nat /\ trouble.restarts \in Nat
         /\ trouble.faults + trouble.restarts \in Nat
         /\ AudioFault => /\ trouble' \in Troubles
                          /\ trouble'.faults + trouble'.restarts
                               = trouble.faults + trouble.restarts + 1
                          /\ trouble'.restarts = trouble.restarts
         /\ trouble.restarts < MaxRestarts /\ trouble' = [trouble EXCEPT !.restarts = @ + 1] =>
              /\ trouble' \in Troubles
              /\ trouble'.faults + trouble'.restarts = trouble.faults + trouble.restarts + 1
<1>1. ASSUME AudioFault
      PROVE  /\ trouble' \in Troubles /\ trouble'.faults = trouble.faults + 1
             /\ trouble'.restarts = trouble.restarts
  BY <1>1, AudioAssumption DEF Troubles, AudioFault
<1>2. ASSUME trouble.restarts < MaxRestarts, trouble' = [trouble EXCEPT !.restarts = @ + 1]
      PROVE  /\ trouble' \in Troubles /\ trouble'.faults = trouble.faults
             /\ trouble'.restarts = trouble.restarts + 1
  BY <1>2, AudioAssumption DEF Troubles
<1>3. trouble.faults \in Nat /\ trouble.restarts \in Nat
  BY AudioAssumption DEF Troubles
<1>4. QED
  BY <1>1, <1>2, <1>3

(* Reports come from errors and restarts; a restart has room for one more. *)
AudioTypeInv ==
    /\ AudioTypeOK
    /\ reports <= trouble.faults + trouble.restarts
    /\ watch.at = "restart" => trouble.restarts < MaxRestarts

(* The connection, the pipelines, the copying goroutines, the loop and the *)
(* watch stay of their types, and no report is counted that nobody made.   *)
THEOREM AudioTypeCorrect == AudioSpec => []AudioTypeInv
<1>1. AudioInit => AudioTypeInv
  <2> SUFFICES ASSUME AudioInit PROVE AudioTypeInv
    OBVIOUS
  <2>1. /\ watch.at = "off" /\ reports = 0 /\ trouble.faults = 0 /\ trouble.restarts = 0
        /\ 0 \in 0..MaxAudioFaults /\ 0 \in 0..MaxRestarts
        /\ 0 \in 0..MaxAudioFaults + MaxRestarts
    BY AudioAssumption DEF AudioInit
  <2>2. /\ play \in [pipeline : Pipeline, pipe : BOOLEAN, full : BOOLEAN]
        /\ rec \in [pipeline : Pipeline, writer : {"nil", "open", "closed"},
                    mutex : {"free", "watch"}]
        /\ mic \in Pipeline
    BY DEF AudioInit, Pipeline
  <2>3. /\ trouble \in [faults : 0..MaxAudioFaults, restarts : 0..MaxRestarts]
        /\ copy \in [Way -> {"off", "read", "reading", "write", "writing", "end"} \cup Closing]
    BY <2>1 DEF AudioInit
  <2>4. QED
    <3>1. {peer, open, closed} \subseteq BOOLEAN
      BY DEF AudioInit
    <3>2. reports <= trouble.faults + trouble.restarts
      BY <2>1
    <3>3. QED
      BY <2>1, <2>2, <2>3, <3>1, <3>2 DEF AudioInit, AudioTypeInv, AudioTypeOK
<1>2. AudioTypeInv /\ [AudioNext]_audioVars => AudioTypeInv'
  <2> SUFFICES ASSUME AudioTypeInv, [AudioNext]_audioVars PROVE AudioTypeInv'
    OBVIOUS
  <2> DEFINE Handlers == {"none", "playback", "recording", "sink", "start", "status", "run",
                          "looping", "close", "end"}
             Small == handler \in Handlers /\ {peer, open, closed} \subseteq BOOLEAN /\ mic \in Pipeline
             Records == /\ play \in PlayRecord /\ rec \in RecRecord /\ loop \in LoopRecord
                        /\ copy \in [Way -> CopyAt]
             Counts == /\ trouble \in Troubles /\ reports \in Nat /\ watch \in WatchRecord
                       /\ reports <= trouble.faults + trouble.restarts
                       /\ watch.at = "restart" => trouble.restarts < MaxRestarts
  <2>t. Small /\ Records /\ Counts
    BY AudioAssumption DEF AudioTypeInv, AudioTypeOK, PlayRecord, RecRecord, LoopRecord, Troubles,
         WatchRecord, CopyAt
  <2>s. ASSUME Small', Records', Counts' PROVE AudioTypeInv'
    <3>1. reports' \in 0..MaxAudioFaults + MaxRestarts
      BY <2>s, AudioAssumption DEF Troubles
    <3>2. QED
      BY <2>s, <3>1 DEF AudioTypeInv, AudioTypeOK, PlayRecord, RecRecord, LoopRecord, Troubles,
           WatchRecord, CopyAt
  <2>c. ASSUME NEW w \in Way, NEW l \in CopyAt, CopyGoes(w, l) PROVE copy' \in [Way -> CopyAt]
    BY <2>c, <2>t DEF CopyGoes
  <2>w. "out" \in Way /\ "in" \in Way
    BY DEF Way
  <2>r. ASSUME UNCHANGED <<reports, watch>>, trouble' = trouble \/ AudioFault PROVE Counts'
    BY <2>r, <2>t, TroubleUpdates DEF Counts
  <2> HIDE DEF Small, Records, Counts
  <2> USE DEF Ends, Pipelines
  <2>1. CASE HandleAudio
    BY <2>1, <2>t, <2>s DEF HandleAudio, Small, Records, Counts
  <2>2. CASE StartFails
    BY <2>2, <2>t, <2>s, <2>r DEF StartFails, Small, Records
  <2>3. CASE StartPlayback
    BY <2>3, <2>t, <2>s DEF StartPlayback, Small, Records, Counts, PlayRecord, Pipeline
  <2>4. CASE StartRecording
    BY <2>4, <2>t, <2>s, RecUpdates DEF StartRecording, Small, Records, Counts
  <2>5. CASE StartWatch
    BY <2>5, <2>t, <2>s DEF StartWatch, Small, Records, Counts, WatchRecord
  <2>6. CASE StartSink
    BY <2>6, <2>t, <2>s DEF StartSink, Small, Records, Counts, Pipeline
  <2>7. CASE StartCopying
    BY <2>7, <2>t, <2>s DEF StartCopying, Small, Records, Counts, CopyAt
  <2>8. CASE RunLoop
    BY <2>8, <2>t, <2>s, LoopUpdates DEF RunLoop, Small, Records, Counts
  <2>9. CASE LoopReturns \/ CloseAudioConn \/ PeerLeaves
    BY <2>9, <2>t, <2>s DEF LoopReturns, CloseAudioConn, PeerLeaves, Small, Records, Counts
  <2>10. CASE Reported
    <3>1. Counts'
      BY <2>10, <2>t, TroubleUpdates DEF Reported, Counts
    <3>2. QED
      BY <2>10, <2>t, <2>s, <3>1 DEF Reported, Small, Records
  <2>11. CASE Dispatch
    <3>1. Counts'
      BY <2>11, <2>t, TroubleUpdates DEF Dispatch, Counts
    <3>2. QED
      BY <2>11, <2>t, <2>s, <3>1, LoopUpdates DEF Dispatch, Small, Records
  <2>12. CASE Sample
    BY <2>12, <2>t, <2>s, PlayUpdates DEF Sample, Small, Records, Counts
  <2>13. CASE ReadPipe
    <3>1. loop' \in LoopRecord /\ play' \in PlayRecord
      BY <2>13, <2>t, PlayUpdates, LoopUpdates DEF ReadPipe, Records
    <3>2. copy' \in [Way -> CopyAt]
      BY <2>13, <2>c, <2>w DEF ReadPipe, CopyAt, Closing
    <3>3. Records'
      BY <2>13, <2>t, <3>1, <3>2 DEF ReadPipe, Records
    <3>4. QED
      BY <2>13, <2>t, <2>s, <3>3 DEF ReadPipe, Small, Counts
  <2>14. CASE WriteConn \/ ReadConnEnds \/ ReadConn
    <3>1. Records'
      BY <2>14, <2>t, <2>c, <2>w DEF WriteConn, ReadConnEnds, ReadConn, Records, CopyAt, Closing
    <3>2. QED
      BY <2>14, <2>t, <2>s, <3>1 DEF WriteConn, ReadConnEnds, ReadConn, Small, Counts
  <2>15. CASE WriteRecorder
    <3>1. Records'
      BY <2>15, <2>t, <2>c, <2>w, LoopUpdates DEF WriteRecorder, Records, CopyAt, Closing
    <3>2. Counts'
      BY <2>15, <2>t DEF WriteRecorder, Counts, WatchRecord
    <3>3. QED
      BY <2>15, <2>t, <2>s, <3>1, <3>2 DEF WriteRecorder, Small
  <2>16. CASE NilWriter
    <3>1. Records'
      BY <2>16, <2>t, RecUpdates, LoopUpdates
         DEF NilWriter, Records, CopyAt, PlayRecord, Pipeline
    <3>2. Counts'
      BY <2>16, <2>t, TroubleUpdates DEF NilWriter, Counts, WatchRecord
    <3>3. QED
      BY <2>16, <2>t, <2>s, <3>1, <3>2 DEF NilWriter, Small, Pipeline
  <2>17. ASSUME NEW w \in Way, Select(w) \/ CloseStart(w) PROVE AudioTypeInv'
    <3>1. Records'
      BY <2>17, <2>t, <2>c, LoopUpdates DEF Select, CloseStart, Records, CopyAt, Closing
    <3>2. QED
      BY <2>17, <2>t, <2>s, <3>1 DEF Select, CloseStart, Small, Counts
  <2>18. ASSUME NEW w \in Way, ClosePlay(w) PROVE AudioTypeInv'
    <3>1. Records'
      BY <2>18, <2>t, <2>c, PlayUpdates DEF ClosePlay, Records, CopyAt, Closing
    <3>2. QED
      BY <2>18, <2>t, <2>s, <2>r, <3>1 DEF ClosePlay, Small
  <2>19. ASSUME NEW w \in Way, CloseRec(w) \/ CloseMic(w) PROVE AudioTypeInv'
    <3>1. Records'
      BY <2>19, <2>t, <2>c, RecUpdates DEF CloseRec, CloseMic, Records, CopyAt, Closing
    <3>2. QED
      BY <2>19, <2>t, <2>s, <3>1 DEF CloseRec, CloseMic, Small, Counts, Pipeline
  <2>20. CASE Tick
    <3>1. Counts'
      BY <2>20, <2>t DEF Tick, Counts, WatchRecord
    <3>2. QED
      BY <2>20, <2>t, <2>s, <3>1 DEF Tick, Small, Records
  <2>21. CASE RestartClose
    <3>1. Records'
      BY <2>21, <2>t DEF RestartClose, Records, RecRecord, Pipeline
    <3>2. Counts'
      BY <2>21, <2>t, TroubleUpdates DEF RestartClose, Counts, WatchRecord
    <3>3. QED
      BY <2>21, <2>t, <2>s, <3>1, <3>2 DEF RestartClose, Small
  <2>22. CASE RestartNew
    <3>1. UNCHANGED <<Ends, handler, copy, loop, reports, play, mic, closed>>
      BY <2>22 DEF RestartNew
    <3>2. CASE /\ rec' = [writer |-> "open", pipeline |-> "playing", mutex |-> "free"]
               /\ watch' = [at |-> "tick", moved |-> FALSE, since |-> FALSE]
               /\ UNCHANGED trouble
      <4>1. rec' \in RecRecord /\ watch' \in WatchRecord /\ watch'.at = "tick"
        BY <3>2 DEF RecRecord, Pipeline, WatchRecord
      <4>2. QED
        BY <2>t, <2>s, <3>1, <3>2, <4>1 DEF Small, Records, Counts
    <3>3. CASE /\ AudioFault
               /\ rec' = [rec EXCEPT !.writer = "nil", !.mutex = "free"]
               /\ watch' = [watch EXCEPT !.at = "end"]
      <4>1. rec' \in RecRecord /\ watch' \in WatchRecord /\ watch'.at = "end"
        BY <2>t, <3>3, RecUpdates DEF Records, Counts, WatchRecord
      <4>2. Counts'
        BY <2>t, <3>1, <3>3, <4>1, TroubleUpdates DEF Counts
      <4>3. QED
        BY <2>t, <2>s, <3>1, <4>1, <4>2 DEF Small, Records
    <3>4. QED
      BY <2>22, <3>2, <3>3 DEF RestartNew
  <2>23. CASE UNCHANGED audioVars
    BY <2>23, <2>t, <2>s DEF audioVars, Small, Records, Counts
  <2>24. QED
    BY <2>1, <2>2, <2>3, <2>4, <2>5, <2>6, <2>7, <2>8, <2>9, <2>10, <2>11, <2>12, <2>13, <2>14,
       <2>15, <2>16, <2>17, <2>18, <2>19, <2>20, <2>21, <2>22, <2>23
       DEF AudioNext, HandlerStep, CopyOut, CopyIn, Close, Watching
<1>3. QED
  BY <1>1, <1>2, PTL DEF AudioSpec

(* The connection of the handler is made, and nothing is copied yet.       *)
Starting == {"none", "playback", "recording", "sink", "start", "status"}

(* Close stops the pipelines one by one, and what it has stopped nobody    *)
(* starts again: the handler is done with starting when anybody copies,    *)
(* and a restart of the recorder needs a writer that nobody has closed. A  *)
(* restart that has closed the writer makes the Close that comes then fail *)
(* before it says that the buffer is closed.                               *)
ClosingInv ==
    /\ handler \in Starting => ~ closed /\ \A w \in Way : copy[w] = "off"
    /\ handler \in {"none", "playback", "recording", "sink"} => watch.at = "off"
    /\ watch.at = "new" => rec.writer = "closed"
    /\ \A w \in Way : copy[w] \in {"closeRec", "closeMic"} => play.pipeline # "playing"
    /\ closed => play.pipeline # "playing"
    /\ (\E w \in Way : copy[w] = "closeMic") \/ closed =>
         rec.writer = "closed" /\ rec.pipeline # "playing" /\ watch.at # "new"
    /\ closed => mic # "playing"

(* The order in which a buffer is closed is kept, by either goroutine and  *)
(* by the watch.                                                           *)
THEOREM ClosingInvariant == AudioSpec => []ClosingInv
<1>1. AudioInit => ClosingInv
  BY DEF AudioInit, ClosingInv, Way, Starting
<1>2. AudioTypeInv /\ ClosingInv /\ [AudioNext]_audioVars => ClosingInv'
  <2> SUFFICES ASSUME AudioTypeInv, ClosingInv, [AudioNext]_audioVars PROVE ClosingInv'
    OBVIOUS
  <2>t. /\ play \in PlayRecord /\ rec \in RecRecord /\ watch \in WatchRecord
        /\ copy \in [Way -> CopyAt] /\ "in" \in Way /\ "out" \in Way
    BY DEF AudioTypeInv, AudioTypeOK, PlayRecord, RecRecord, WatchRecord, CopyAt, Way
  <2>g. ASSUME NEW w \in Way, NEW l, CopyGoes(w, l)
        PROVE  copy'[w] = l /\ \A x \in Way : x # w => copy'[x] = copy[x]
    BY <2>g, <2>t DEF CopyGoes
  <2> USE DEF Ends, Pipelines
  <2>u. ASSUME handler' \in Starting => handler \in Starting /\ copy' = copy,
               handler' \in {"none", "playback", "recording", "sink"} =>
                 watch' = watch /\ handler \in {"none", "playback", "recording", "sink"},
               \A w \in Way : \/ copy'[w] = copy[w]
                              \/ copy'[w] \notin {"closeRec", "closeMic"},
               watch'.at = "new" => watch.at = "new",
               UNCHANGED <<rec, mic, closed>>, play'.pipeline = play.pipeline
        PROVE  ClosingInv'
    BY <2>u DEF ClosingInv
  <2>1. CASE HandleAudio \/ StartFails
    BY <2>u, <2>1 DEF HandleAudio, StartFails, Starting
  <2>2. CASE LoopReturns \/ CloseAudioConn \/ PeerLeaves \/ RunLoop \/ Reported \/ Dispatch
    BY <2>u, <2>2 DEF LoopReturns, CloseAudioConn, PeerLeaves, RunLoop, Reported, Dispatch, Starting
  <2>3. CASE StartPlayback \/ StartRecording \/ StartSink
    <3>1. handler \in Starting /\ handler' \in Starting /\ UNCHANGED <<copy, closed, watch>>
      BY <2>3 DEF StartPlayback, StartRecording, StartSink, Starting
    <3>2. /\ ~ closed' /\ \A w \in Way : copy'[w] = "off"
      BY <3>1 DEF ClosingInv
    <3>3. handler' \in {"none", "playback", "recording", "sink"} => watch'.at = "off"
      BY <2>3 DEF StartPlayback, StartRecording, StartSink, ClosingInv
    <3>4. watch'.at = "new" => rec'.writer = "closed"
      BY <2>3 DEF StartPlayback, StartRecording, StartSink, ClosingInv
    <3>5. QED
      BY <3>2, <3>3, <3>4 DEF ClosingInv
  <2>4. CASE StartWatch
    BY <2>4, <2>t DEF StartWatch, ClosingInv, Starting, WatchRecord
  <2>5. CASE StartCopying
    <3>1. handler' \notin Starting
      BY <2>5 DEF StartCopying, Starting
    <3>2. QED
      BY <2>u, <2>5, <3>1 DEF StartCopying
  <2>6. CASE Sample
    BY <2>u, <2>6, <2>t, PlayUpdates DEF Sample
  <2>7. ASSUME NEW w \in Way, copy[w] # "off", NEW l, l \notin {"closeRec", "closeMic"},
               CopyGoes(w, l), UNCHANGED <<handler, rec, mic, closed>>,
               play'.pipeline = play.pipeline, watch'.at = watch.at
        PROVE  ClosingInv'
    BY <2>u, <2>g, <2>7 DEF ClosingInv
  <2>8. CASE ReadPipe
    <3>1. play'.pipeline = play.pipeline
      BY <2>8, <2>t, PlayUpdates DEF ReadPipe
    <3>2. QED
      BY <2>7, <2>8, <2>t, <3>1 DEF ReadPipe
  <2>9. CASE WriteConn \/ ReadConn \/ ReadConnEnds
    BY <2>7, <2>9, <2>t DEF WriteConn, ReadConn, ReadConnEnds
  <2>10. CASE WriteRecorder
    <3>1. watch'.at = watch.at
      BY <2>10, <2>t DEF WriteRecorder, WatchRecord
    <3>2. QED
      BY <2>7, <2>10, <2>t, <3>1 DEF WriteRecorder
  <2>11. CASE NilWriter
    <3>1. ~ closed /\ handler' \notin Starting /\ watch'.at # "new"
      BY <2>11, <2>t DEF NilWriter, ClosingInv, Starting, WatchRecord
    <3>2. \A w \in Way : copy'[w] = "end"
      BY <2>11 DEF NilWriter
    <3>3. QED
      BY <2>11, <3>1, <3>2 DEF NilWriter, ClosingInv
  <2>12. ASSUME NEW w \in Way, Select(w) PROVE ClosingInv'
    BY <2>7, <2>12, <2>t DEF Select
  <2>13. ASSUME NEW w \in Way, CloseStart(w) PROVE ClosingInv'
    BY <2>7, <2>13, <2>t DEF CloseStart
  <2>14. ASSUME NEW w \in Way, ClosePlay(w) PROVE ClosingInv'
    <3>1. CASE CopyGoes(w, "end") /\ UNCHANGED play
      BY <2>7, <2>14, <3>1 DEF ClosePlay
    <3>2. CASE CopyGoes(w, "closeRec")
               /\ play' = [play EXCEPT !.pipeline = "stopped", !.pipe = FALSE]
      <4>1. play'.pipeline = "stopped"
        BY <2>t, <3>2, PlayUpdates
      <4>2. \A x \in Way : copy'[x] = "closeMic" => copy[x] = "closeMic"
        BY <2>g, <3>2
      <4>3. handler \notin Starting
        BY <2>14 DEF ClosePlay, ClosingInv
      <4>4. QED
        BY <2>14, <4>1, <4>2, <4>3 DEF ClosePlay, ClosingInv
    <3>3. QED
      BY <2>14, <3>1, <3>2 DEF ClosePlay
  <2>15. ASSUME NEW w \in Way, CloseRec(w) PROVE ClosingInv'
    <3>1. CASE rec.writer # "open"
      BY <2>7, <2>15, <3>1 DEF CloseRec
    <3>2. CASE rec.writer = "open"
      <4>1. /\ rec'.writer = "closed" /\ rec'.pipeline = "stopped" /\ watch.at # "new"
            /\ CopyGoes(w, "closeMic")
        BY <2>15, <2>t, <3>2, RecUpdates DEF CloseRec, ClosingInv
      <4>2. \A x \in Way : copy'[x] = copy[x] \/ (x = w /\ copy[x] = "closeRec")
        BY <2>15, <2>g, <4>1 DEF CloseRec
      <4>3. handler \notin Starting
        BY <2>15 DEF CloseRec, ClosingInv
      <4>4. QED
        BY <2>15, <4>1, <4>2, <4>3 DEF CloseRec, ClosingInv
    <3>3. QED
      BY <3>1, <3>2
  <2>16. ASSUME NEW w \in Way, CloseMic(w) PROVE ClosingInv'
    <3>1. /\ copy[w] = "closeMic" /\ handler \notin Starting
          /\ UNCHANGED <<handler, play, rec, watch>> /\ mic' = "stopped"
      BY <2>16 DEF CloseMic, ClosingInv
    <3>2. \A x \in Way : copy'[x] = copy[x] \/ copy'[x] = "end"
      BY <2>16, <2>g DEF CloseMic
    <3>3. QED
      BY <3>1, <3>2 DEF ClosingInv
  <2>17. CASE Tick
    <3>1. watch'.at = "new" => watch.at = "new"
      BY <2>17, <2>t DEF Tick, WatchRecord
    <3>2. handler \notin {"none", "playback", "recording", "sink"}
      BY <2>17 DEF Tick, ClosingInv
    <3>3. QED
      BY <2>u, <2>17, <3>1, <3>2 DEF Tick
  <2>18. CASE RestartClose
    <3>1. CASE rec.writer # "open"
      <4>1. watch'.at = "end"
        BY <2>18, <2>t, <3>1 DEF RestartClose, WatchRecord
      <4>2. handler \notin {"none", "playback", "recording", "sink"}
        BY <2>18 DEF RestartClose, ClosingInv
      <4>3. QED
        BY <2>u, <2>18, <3>1, <4>1, <4>2 DEF RestartClose
    <3>2. CASE rec.writer = "open"
      <4>1. rec'.writer = "closed" /\ rec'.pipeline = "stopped"
        BY <2>18, <3>2 DEF RestartClose
      <4>2. ~ closed /\ \A w \in Way : copy[w] # "closeMic"
        BY <3>2 DEF ClosingInv
      <4>3. QED
        BY <2>18, <4>1, <4>2 DEF RestartClose, ClosingInv
    <3>3. QED
      BY <3>1, <3>2
  <2>19. CASE RestartNew
    <3>1. watch'.at # "new" /\ ~ closed /\ \A w \in Way : copy[w] # "closeMic"
      BY <2>19, <2>t DEF RestartNew, ClosingInv, WatchRecord
    <3>2. QED
      BY <2>19, <3>1 DEF RestartNew, ClosingInv
  <2>20. CASE UNCHANGED audioVars
    BY <2>u, <2>20 DEF audioVars
  <2>21. QED
    BY <2>1, <2>2, <2>3, <2>4, <2>5, <2>6, <2>8, <2>9, <2>10, <2>11, <2>12, <2>13, <2>14,
       <2>15, <2>16, <2>17, <2>18, <2>19, <2>20
       DEF AudioNext, HandlerStep, CopyOut, CopyIn, Close, Watching
<1>3. QED
  BY <1>1, <1>2, AudioTypeCorrect, PTL DEF AudioSpec

(* A buffer that says it is closed has no pipeline playing, however the    *)
(* two goroutines close it and whenever the recorder is restarted.         *)
THEOREM ClosedIsStoppedHolds == AudioSpec => []ClosedIsStopped
<1>1. ClosingInv => ClosedIsStopped
  BY DEF ClosingInv, ClosedIsStopped
<1>2. QED
  BY <1>1, ClosingInvariant, PTL

-----------------------------------------------------------------------------
(* Cells of strings and numbers, and records, which are never empty.       *)
Words ==
    UNION {ToSet(s) : s \in Names \cup {FileType, Content, Ok, Failed, <<"message">>, <<"stat">>}}
Numbers == {Encoded[n] : n \in 0..Len(Content)}
Cells == Words \cup {Newline} \cup Numbers
Records == Seq(Cells) \ {<<>>}

(* The records that have arrived, or are to come, go on after the first k  *)
(* of all.                                                                 *)
GoesOn(s, k, all) == \A i \in 1..Len(s) : k + i \in 1..Len(all) /\ s[i] = all[k + i]

Whole == ends = {"app", "proxy"}
Dead == wire.down = <<>> /\ "proxy" \notin ends

(* What the proxy answers to a request that it grants.                     *)
GrantedRecords ==
    IF file.op = "get" THEN Response(FirstLine(file.name))
    ELSE IF file.op = "stat" THEN <<Ok, <<"stat">> >> ELSE <<Ok>>

(* How many records of the request the proxy has read, and of the answer   *)
(* the app.                                                                *)
Taken == IF serving.at = "path" THEN 0
         ELSE IF serving.at = "copy" THEN 2 + Len(disk)
         ELSE IF file.op = "put" /\ serving.at = "look" THEN 2 ELSE 1
Got == IF asking.at \in {"send", "status"} THEN 0
       ELSE IF asking.at = "type" THEN 2
       ELSE IF asking.at = "size" THEN 3
       ELSE IF asking.at = "body" THEN (IF file.op = "get" THEN 4 ELSE 1) + Len(asking.answer.body)
       ELSE 1

ReadingNow == serving.at \in {"path", "size", "look", "copy"}
NotTold == asking.at \in {"send", "status", "end"} /\ asking.answer.code # 200

Places == {"send", "status", "name", "type", "size", "body", "sent", "end"}
Stages == {"path", "size", "look", "copy", "write", "end"}

FieldsInv ==
    /\ DOMAIN asking = {"at", "answer"}
    /\ DOMAIN asking.answer = {"code", "name", "type", "size", "body"}
    /\ DOMAIN sending = {"at", "todo"} /\ DOMAIN serving = {"at", "todo", "path", "size"}
    /\ DOMAIN wire = {"up", "down"}

ShapeInv ==
    /\ file.op \in {"stat", "get", "put"} /\ file.name \in Names
    /\ asking.at \in Places /\ asking.answer.code \in {0, 200, 400} /\ asking.answer.body \in Seq(Cells)
    /\ sending.at \in {"write", "report", "end"} /\ sending.todo \in Seq(Records)
    /\ serving.at \in Stages /\ serving.todo \in Seq(Records) /\ serving.path \in Seq(Cells)
    /\ wire.up \in Seq(Records) /\ wire.down \in Seq(Records)
    /\ ends \in SUBSET {"app", "proxy"}

PlaceInv ==
    /\ asking.at \in {"name", "type", "size"} => file.op = "get"
    /\ asking.at = "sent" => file.op = "put"
    /\ asking.at = "body" => file.op # "put" /\ asking.answer.code = 200
    /\ asking.at \notin {"body", "end"} => asking.answer.code # 200 /\ asking.answer.body = <<>>
    /\ asking.at = "end" => "app" \notin ends

RequestInv ==
    /\ ReadingNow =>
         /\ GoesOn(wire.up, Taken, RequestRecords(file))
         /\ Whole /\ sending.at = "write" =>
              GoesOn(sending.todo, Taken + Len(wire.up), RequestRecords(file))
    /\ Whole /\ serving.at \in {"size", "look"} => serving.path = FirstLine(file.name)
    /\ serving.at = "size" => file.op = "put"
    /\ file.op = "put" /\ serving.at \in {"look", "copy"} => serving.size = Encoded[Len(Content)]
    /\ serving.at = "copy" => file.op = "put" /\ disk \in Seq(Cells) /\ GoesOn(disk, 0, Content)

AnswerInv ==
    \/ ReadingNow /\ NotTold /\ wire.down = <<>>
    \/ /\ ~ ReadingNow /\ NotTold
       /\ \A i \in 1..Len(wire.down) : wire.down[i] # Ok
       /\ \A i \in 1..Len(serving.todo) : serving.todo[i] # Ok
    \/ /\ ~ ReadingNow
       /\ asking.at # "end" => GoesOn(wire.down, Got, GrantedRecords)
       /\ Whole /\ serving.at = "write" => GoesOn(serving.todo, Got + Len(wire.down), GrantedRecords)
       /\ file.op = "put" => disk = Content

HeadInv ==
    file.op = "get" =>
      /\ (asking.at = "type" /\ ~ Dead) \/ (asking.at = "size" /\ ~ Dead) \/ asking.answer.code = 200 =>
           asking.answer.name = FirstLine(file.name)
      /\ (asking.at = "size" /\ ~ Dead) \/ asking.answer.code = 200 => asking.answer.type = FileType
      /\ asking.answer.code = 200 =>
           asking.answer.size = Encoded[Len(Content)] /\ GoesOn(asking.answer.body, 0, Content)

StatInv ==
    file.op = "stat" /\ asking.answer.code = 200 => asking.answer.body \in {<<>>, <<"stat">>}

TransferInv ==
    FieldsInv /\ ShapeInv /\ PlaceInv /\ RequestInv /\ AnswerInv /\ HeadInv /\ StatInv
-----------------------------------------------------------------------------
(* A set of numbers that is not empty has a least one.                     *)
LEMMA Least ==
    ASSUME NEW T \in SUBSET Nat, T # {}
    PROVE  \E n \in T : \A m \in T : n <= m
<1> DEFINE R == OpToRel(<, Nat)
<1>1. IsWellFoundedOn(R, Nat)
  BY NatLessThanWellFounded
<1>2. \A n, m \in Nat : m < n => <<m, n>> \in R
  BY DEF OpToRel
<1> HIDE DEF R
<1>3. \E n \in T : \A m \in T : ~ (<<m, n>> \in R)
  BY <1>1, WFMin
<1>4. PICK n \in T : \A m \in T : ~ (<<m, n>> \in R)
  BY <1>3
<1>5. \A m \in T : m \in Nat /\ n \in Nat /\ ~ (m < n)
  BY <1>2, <1>4
<1>6. \A m \in T : n <= m
  BY <1>5
<1>7. QED
  BY <1>6

(* What is read of a record ends before its first newline.                 *)
LEMMA FirstLineIs ==
    ASSUME NEW S, NEW s \in Seq(S)
    PROVE  \/ ~ HasNewline(s) /\ FirstLine(s) = s
           \/ \E k \in 1..Len(s) : /\ s[k] = Newline /\ \A j \in 1..(k - 1) : s[j] # Newline
                                   /\ FirstLine(s) = SubSeq(s, 1, k - 1)
<1>1. CASE ~ HasNewline(s)
  BY <1>1 DEF FirstLine
<1>2. CASE HasNewline(s)
  <2> DEFINE I == {i \in 1..Len(s) : s[i] = Newline}
  <2>1. FirstLine(s) = SubSeq(s, 1, SelectInSeq(s, LAMBDA c : c = Newline) - 1)
    BY <1>2 DEF FirstLine
  <2>2. I # {} /\ I \in SUBSET Nat
    BY <1>2 DEF HasNewline, ToSet
  <2>3. SelectInSeq(s, LAMBDA c : c = Newline) = Min(I)
    BY <2>2 DEF SelectInSeq
  <2> HIDE DEF I
  <2>4. Min(I) \in I /\ \A j \in I : Min(I) <= j
    <3>1. \E k \in I : \A j \in I : k <= j
      BY <2>2, Least
    <3>2. QED
      BY <3>1 DEF Min
  <2> DEFINE k == Min(I)
  <2>5. k \in 1..Len(s) /\ s[k] = Newline /\ \A j \in 1..Len(s) : s[j] = Newline => k <= j
    BY <2>4 DEF I
  <2>6. FirstLine(s) = SubSeq(s, 1, k - 1)
    BY <2>1, <2>3
  <2> HIDE DEF k
  <2>7. \A j \in 1..(k - 1) : s[j] # Newline
    BY <2>5
  <2>8. QED
    BY <2>5, <2>6, <2>7
<1>3. QED
  BY <1>1, <1>2

(* It is a sequence of the same cells, none of them a newline; and reading *)
(* the line that is made of a string gives what reading the string would.  *)
LEMMA FirstLineReads ==
    ASSUME NEW S, NEW s \in Seq(S)
    PROVE  /\ FirstLine(s) \in Seq(S) /\ ~ HasNewline(FirstLine(s))
           /\ FirstLine(Line(s)) = FirstLine(s)
<1> DEFINE l == Len(s)
           t == Line(s)
<1>1. l \in Nat /\ DOMAIN s = 1..l /\ s = [i \in 1..l |-> s[i]]
  OBVIOUS
<1>2. t \in Seq(S \cup {Newline}) /\ Len(t) = l + 1 /\ DOMAIN t = 1..(l + 1) /\ t[l + 1] = Newline
      /\ \A i \in 1..l : t[i] = s[i]
  BY DEF Line
<1>3. /\ SubSeq(t, 1, l) = s
      /\ \A k \in 1..l : SubSeq(t, 1, k - 1) = SubSeq(s, 1, k - 1)
      /\ \A k \in 1..l : SubSeq(s, 1, k - 1) \in Seq(S) /\ Len(SubSeq(s, 1, k - 1)) = k - 1
                         /\ \A j \in 1..(k - 1) : SubSeq(s, 1, k - 1)[j] = s[j]
  BY DEF Line
<1> HIDE DEF l, t
<1>4. HasNewline(t)
  BY <1>1, <1>2 DEF HasNewline, ToSet
<1>5. PICK n \in 1..(l + 1) : t[n] = Newline /\ (\A j \in 1..(n - 1) : t[j] # Newline)
                              /\ FirstLine(t) = SubSeq(t, 1, n - 1)
  BY <1>2, <1>4, FirstLineIs
<1>6. CASE ~ HasNewline(s)
  <2>1. FirstLine(s) = s
    BY <1>6 DEF FirstLine
  <2>2. \A i \in 1..l : s[i] # Newline
    BY <1>1, <1>6 DEF HasNewline, ToSet
  <2>3. n = l + 1
    BY <1>1, <1>2, <1>5, <2>2
  <2>4. FirstLine(t) = s
    BY <1>1, <1>3, <1>5, <2>3
  <2>5. QED
    BY <1>6, <2>1, <2>4 DEF t
<1>7. CASE HasNewline(s)
  <2>1. PICK k \in 1..l : s[k] = Newline /\ (\A j \in 1..(k - 1) : s[j] # Newline)
                          /\ FirstLine(s) = SubSeq(s, 1, k - 1)
    BY <1>7, FirstLineIs DEF l
  <2>2. n = k
    <3>1. t[k] = Newline /\ ~ (k \in 1..(n - 1))
      BY <1>2, <1>5, <2>1
    <3>2. n \in 1..l => s[n] = Newline
      BY <1>2, <1>5
    <3>3. ~ (n \in 1..(k - 1))
      <4> SUFFICES ASSUME n \in 1..(k - 1) PROVE FALSE
        OBVIOUS
      <4>1. n \in 1..l
        BY <1>1
      <4>2. s[n] # Newline
        BY <2>1
      <4>3. QED
        BY <3>2, <4>1, <4>2
    <3>4. QED
      BY <1>1, <3>1, <3>3
  <2>3. FirstLine(t) = FirstLine(s)
    BY <1>3, <1>5, <2>1, <2>2
  <2> DEFINE f == FirstLine(s)
  <2>4. f \in Seq(S) /\ Len(f) = k - 1 /\ \A j \in 1..(k - 1) : f[j] = s[j]
    BY <1>3, <2>1
  <2> HIDE DEF f
  <2>5. ~ HasNewline(f)
    BY <2>1, <2>4 DEF HasNewline, ToSet
  <2>6. QED
    BY <2>3, <2>4, <2>5 DEF f, t
<1>8. QED
  BY <1>6, <1>7

-----------------------------------------------------------------------------
(* A record is taken from the front, or put at the end.                    *)
LEMMA GoesOnFrom ==
    ASSUME NEW S, NEW s \in Seq(S), NEW k \in Nat, NEW all, GoesOn(s, k, all)
    PROVE  /\ s # <<>> => /\ k + 1 \in 1..Len(all) /\ Head(s) = all[k + 1]
                          /\ GoesOn(Tail(s), k + 1, all)
           /\ \A j \in 0..Len(s) : GoesOn(SubSeq(s, 1, j), k, all)
<1>1. s # <<>> => k + 1 \in 1..Len(all) /\ Head(s) = all[k + 1]
  <2> SUFFICES ASSUME s # <<>> PROVE k + 1 \in 1..Len(all) /\ Head(s) = all[k + 1]
    OBVIOUS
  <2>1. 1 \in 1..Len(s) /\ Head(s) = s[1]
    OBVIOUS
  <2>2. QED
    BY <2>1 DEF GoesOn
<1>2. s # <<>> => GoesOn(Tail(s), k + 1, all)
  <2> SUFFICES ASSUME s # <<>>, NEW i \in 1..Len(Tail(s))
               PROVE  (k + 1) + i \in 1..Len(all) /\ Tail(s)[i] = all[(k + 1) + i]
    BY DEF GoesOn
  <2>1. i + 1 \in 1..Len(s) /\ Tail(s)[i] = s[i + 1] /\ k + (i + 1) = (k + 1) + i
    OBVIOUS
  <2>2. QED
    BY <2>1 DEF GoesOn
<1>3. ASSUME NEW j \in 0..Len(s) PROVE GoesOn(SubSeq(s, 1, j), k, all)
  <2>1. Len(SubSeq(s, 1, j)) = j /\ \A i \in 1..j : SubSeq(s, 1, j)[i] = s[i] /\ i \in 1..Len(s)
    OBVIOUS
  <2>2. QED
    BY <2>1 DEF GoesOn
<1>4. QED
  BY <1>1, <1>2, <1>3

(* A record is put at the end of what travels, from the front of the rest. *)
LEMMA GoesOnTo ==
    ASSUME NEW S, NEW s \in Seq(S), NEW t \in Seq(S), t # <<>>, NEW k \in Nat, NEW all,
           GoesOn(s, k, all), GoesOn(t, k + Len(s), all)
    PROVE  /\ GoesOn(Append(s, Head(t)), k, all)
           /\ GoesOn(Tail(t), k + Len(Append(s, Head(t))), all)
<1> DEFINE m == Len(s)
           a == Append(s, Head(t))
<1>1. m \in Nat /\ Len(a) = m + 1 /\ a[m + 1] = Head(t) /\ \A i \in 1..m : a[i] = s[i]
  OBVIOUS
<1>2. /\ (k + m) + 1 \in 1..Len(all) /\ Head(t) = all[(k + m) + 1]
      /\ GoesOn(Tail(t), (k + m) + 1, all)
  BY <1>1, GoesOnFrom
<1>3. (k + m) + 1 = k + (m + 1)
  BY <1>1
<1> HIDE DEF a
<1>4. GoesOn(a, k, all)
  <2>1. \A i \in 1..(m + 1) : i \in 1..m \/ i = m + 1
    BY <1>1
  <2>2. QED
    BY <1>1, <1>2, <1>3, <2>1 DEF GoesOn
<1>5. QED
  BY <1>1, <1>2, <1>3, <1>4 DEF a

(* One after the other.                                                    *)
LEMMA Joined ==
    ASSUME NEW U, NEW s \in Seq(U), NEW t \in Seq(U), NEW st, st = s \o t
    PROVE  /\ st \in Seq(U) /\ Len(st) = Len(s) + Len(t)
           /\ \A i \in 1..(Len(s) + Len(t)) : st[i] = IF i <= Len(s) THEN s[i] ELSE t[i - Len(s)]
OBVIOUS
-----------------------------------------------------------------------------
(* The cells of all that travels.                                          *)
LEMMA CellsOf ==
    /\ {Ok, Failed, <<"message">>, <<"stat">>, FileType, Content, <<>>} \subseteq Seq(Cells)
    /\ Names \subseteq Seq(Cells)
    /\ Newline \in Cells /\ \A n \in 0..Len(Content) : Encoded[n] \in Cells
    /\ {Ok, Failed, <<"message">>, <<"stat">>} \subseteq Records
    /\ Content \in Seq(Cells) /\ \A i \in DOMAIN Content : <<Content[i]>> \in Records
    /\ \A n \in 0..Len(Content) : <<Encoded[n]>> \in Records
    /\ \A s \in Seq(Cells) : Line(s) \in Records
    /\ Len(Content) \in Nat
<1>1. \A s \in Names \cup {FileType, Content} : s \in Seq(ToSet(s))
  BY TransferAssumption
<1>2. \A s : s \in Seq(ToSet(s)) /\ ToSet(s) \subseteq Cells => s \in Seq(Cells)
  OBVIOUS
<1>3. \A s \in Names \cup {FileType, Content} : s \in Seq(Cells)
  BY <1>1, <1>2 DEF Cells, Words
<1>4. ASSUME NEW c \in {"ok", "failed", "message", "stat"} PROVE <<c>> \in Records /\ <<c>> \in Seq(Cells)
  <2>1. ToSet(<<c>>) = {c}
    BY DEF ToSet
  <2>2. c \in Cells
    BY <2>1 DEF Cells, Words, Ok, Failed
  <2>3. QED
    BY <2>2 DEF Records
<1>5. Newline \in Cells /\ \A n \in 0..Len(Content) : Encoded[n] \in Cells
  BY DEF Cells, Numbers
<1>6. Content \in Seq(Cells) /\ FileType \in Seq(Cells) /\ Names \subseteq Seq(Cells)
  BY <1>3
<1>7. \A s \in Seq(Cells) : Line(s) \in Records
  BY <1>5 DEF Line, Records
<1>8. \A i \in DOMAIN Content : Content[i] \in Cells
  BY <1>6
<1>9. \A x \in Cells : <<x>> \in Records
  BY DEF Records
<1>10. QED
  BY <1>4, <1>5, <1>6, <1>7, <1>8, <1>9 DEF Ok, Failed

(* The content, a cell in each record.                                     *)
Body == [i \in 1..Len(Content) |-> <<Content[i]>>]

(* It has as many records as the content has cells.                        *)
LEMMA BodyIs ==
    /\ Body \in Seq(Records) /\ Len(Body) = Len(Content) /\ DOMAIN Content = 1..Len(Content)
    /\ \A i \in 1..Len(Content) : Body[i] = <<Content[i]>>
BY CellsOf DEF Body

(* The records of an answer, and of a request.                             *)
LEMMA ResponseIs ==
    ASSUME NEW name \in Seq(Cells)
    PROVE  /\ Response(name) \in Seq(Records) /\ Len(Response(name)) = 4 + Len(Content)
           /\ Response(name)[1] = Ok /\ Response(name)[2] = Line(name)
           /\ Response(name)[3] = Line(FileType) /\ Response(name)[4] = <<Encoded[Len(Content)]>>
           /\ \A i \in 1..Len(Content) : Response(name)[4 + i] = <<Content[i]>>
<1> DEFINE l == Len(Content)
           head == <<Ok, Line(name), Line(FileType), <<Encoded[l]>> >>
           body == Body
           all == head \o body
<1>1. l \in Nat /\ DOMAIN Content = 1..l /\ l \in 0..l
  BY CellsOf
<1>2. body \in Seq(Records) /\ Len(body) = l /\ \A i \in 1..l : body[i] = <<Content[i]>>
  BY BodyIs
<1>3. Ok \in Records /\ Line(name) \in Records /\ Line(FileType) \in Records /\ <<Encoded[l]>> \in Records
  BY <1>1, CellsOf
<1>4. head \in Seq(Records) /\ Len(head) = 4
  BY <1>3
<1>5. Response(name) = head \o body
  BY <1>1 DEF Response, Body
<1>6. head[1] = Ok /\ head[2] = Line(name) /\ head[3] = Line(FileType) /\ head[4] = <<Encoded[l]>>
  OBVIOUS
<1>7. all = head \o body
  OBVIOUS
<1> HIDE DEF head, body, l, all
<1>8. /\ all \in Seq(Records) /\ Len(all) = 4 + l
      /\ \A i \in 1..4 : all[i] = head[i]
      /\ \A i \in 1..l : all[4 + i] = body[i]
  <2>1. /\ all \in Seq(Records) /\ Len(all) = Len(head) + Len(body)
        /\ \A i \in 1..(Len(head) + Len(body)) :
             all[i] = IF i <= Len(head) THEN head[i] ELSE body[i - Len(head)]
    <3>1. head \in Seq(Records) /\ body \in Seq(Records)
      BY <1>2, <1>4
    <3>2. QED
      BY <1>7, <3>1, Joined
  <2>2. \A i \in 1..l : 4 + i \in 1..(4 + l) /\ ~ (4 + i <= 4) /\ (4 + i) - 4 = i
    BY <1>1
  <2>3. \A i \in 1..4 : i \in 1..(4 + l) /\ i <= 4
    BY <1>1
  <2>4. QED
    BY <1>1, <1>2, <1>4, <2>1, <2>2, <2>3
<1>9. QED
  BY SMTT(30), <1>2, <1>5, <1>6, <1>7, <1>8 DEF l

(* A request begins with the line of its name; an upload has the size and  *)
(* the content after it.                                                   *)
LEMMA RequestIs ==
    ASSUME NEW f, f.name \in Names
    PROVE  /\ RequestRecords(f) \in Seq(Records) /\ 1 \in 1..Len(RequestRecords(f))
           /\ RequestRecords(f)[1] = Line(f.name)
           /\ f.op # "put" => Len(RequestRecords(f)) = 1
           /\ f.op = "put" => /\ Len(RequestRecords(f)) = 2 + Len(Content)
                              /\ RequestRecords(f)[2] = <<Encoded[Len(Content)]>>
                              /\ \A i \in 1..Len(Content) : RequestRecords(f)[2 + i] = <<Content[i]>>
<1> DEFINE l == Len(Content)
           head == <<Line(f.name), <<Encoded[l]>> >>
           body == Body
           all == head \o body
<1>1. l \in Nat /\ DOMAIN Content = 1..l /\ l \in 0..l
  BY CellsOf
<1>2. body \in Seq(Records) /\ Len(body) = l /\ \A i \in 1..l : body[i] = <<Content[i]>>
  BY BodyIs
<1>3. Line(f.name) \in Records /\ <<Encoded[l]>> \in Records
  BY <1>1, CellsOf
<1>4. CASE f.op # "put"
  BY <1>3, <1>4 DEF RequestRecords
<1>5. CASE f.op = "put"
  <2>1. head \in Seq(Records) /\ Len(head) = 2
    BY <1>3
  <2>2. RequestRecords(f) = head \o body
    BY <1>1, <1>5 DEF RequestRecords, Body
  <2>3. head[1] = Line(f.name) /\ head[2] = <<Encoded[l]>>
    OBVIOUS
  <2>4. all = head \o body
    OBVIOUS
  <2> HIDE DEF head, body, l, all
  <2>5. /\ all \in Seq(Records) /\ Len(all) = 2 + l
        /\ \A i \in 1..2 : all[i] = head[i]
        /\ \A i \in 1..l : all[2 + i] = body[i]
    <3>1. /\ all \in Seq(Records) /\ Len(all) = Len(head) + Len(body)
          /\ \A i \in 1..(Len(head) + Len(body)) :
               all[i] = IF i <= Len(head) THEN head[i] ELSE body[i - Len(head)]
      <4>1. head \in Seq(Records) /\ body \in Seq(Records)
        BY <1>2, <2>1
      <4>2. QED
        BY <2>4, <4>1, Joined
    <3>2. \A i \in 1..l : 2 + i \in 1..(2 + l) /\ ~ (2 + i <= 2) /\ (2 + i) - 2 = i
      BY <1>1
    <3>3. \A i \in 1..2 : i \in 1..(2 + l) /\ i <= 2
      BY <1>1
    <3>4. QED
      BY <1>1, <1>2, <2>1, <3>1, <3>2, <3>3
  <2>6. QED
    BY <1>1, <1>2, <1>5, <2>2, <2>3, <2>4, <2>5 DEF l
<1>6. QED
  BY <1>4, <1>5

-----------------------------------------------------------------------------
(* Records of a channel.                                                   *)
LEMMA RecordsOf ==
    ASSUME NEW w \in Seq(Records)
    PROVE  /\ After(w) \in Seq(Records) /\ NextString(w) \in Seq(Cells)
           /\ w # <<>> => /\ Tail(w) \in Seq(Records) /\ Head(w) \in Records /\ Head(w) \in Seq(Cells)
                          /\ Head(Head(w)) \in Cells
           /\ \A j \in 0..Len(w) : SubSeq(w, 1, j) \in Seq(Records)
<1>1. w # <<>> => Tail(w) \in Seq(Records) /\ Head(w) \in Records
  OBVIOUS
<1>2. w # <<>> => Head(w) \in Seq(Cells) /\ Head(Head(w)) \in Cells
  BY <1>1 DEF Records
<1>3. w # <<>> => FirstLine(Head(w)) \in Seq(Cells)
  BY <1>2, FirstLineReads
<1>4. <<>> \in Seq(Cells)
  OBVIOUS
<1>5. \A j \in 0..Len(w) : SubSeq(w, 1, j) \in Seq(Records)
  OBVIOUS
<1>6. QED
  BY <1>1, <1>2, <1>3, <1>4, <1>5 DEF After, NextString

-----------------------------------------------------------------------------
(* The records keep their fields.                                          *)
LEMMA FieldsStep ==
    ASSUME FieldsInv, TransferNext
    PROVE  FieldsInv'
<1> USE DEF FieldsInv
<1>1. CASE AppWrites
  BY <1>1 DEF AppWrites
<1>2. CASE AppWrote
  BY <1>2 DEF AppWrote
<1>3. CASE AppSent
  BY <1>3 DEF AppSent, Answer
<1>4. CASE AppReadsStatus
  BY <1>4 DEF AppReadsStatus, Answer
<1>5. CASE AppPutDone
  BY <1>5 DEF AppPutDone, Answer
<1>6. CASE AppReadsName
  BY <1>6 DEF AppReadsName
<1>7. CASE AppReadsType
  BY <1>7 DEF AppReadsType
<1>8. CASE AppReadsSize
  <2>1. ASSUME NEW f, NEW c PROVE DOMAIN [f EXCEPT !.code = 200, !.size = c] = DOMAIN f
    OBVIOUS
  <2>2. CASE wire.down # <<>>
    <3> DEFINE n == [asking.answer EXCEPT !.code = 200, !.size = Head(Head(wire.down))]
    <3>1. DOMAIN n = DOMAIN asking.answer
      BY <2>1
    <3>2. asking' = [at |-> "body", answer |-> n] /\ UNCHANGED <<sending, serving>>
          /\ wire' = [wire EXCEPT !.down = After(@)]
      BY <1>8, <2>2 DEF AppReadsSize
    <3> HIDE DEF n
    <3>3. QED
      BY <3>1, <3>2
  <2>3. CASE wire.down = <<>>
    BY <1>8, <2>3 DEF AppReadsSize, Answer
  <2>4. QED
    BY <2>2, <2>3
<1>9. CASE AppCopies
  BY <1>9 DEF AppCopies
<1>10. CASE ReadPath
  BY <1>10 DEF ReadPath
<1>11. CASE ReadSize
  BY <1>11 DEF ReadSize, Refuse
<1>12. CASE Look
  BY <1>12 DEF Look, Refuse
<1>13. CASE Copy
  BY <1>13 DEF Copy, Refuse
<1>14. CASE ProxyWrites
  BY <1>14 DEF ProxyWrites
<1>15. CASE ProxyCloses
  BY <1>15 DEF ProxyCloses
<1>16. CASE Cut
  BY <1>16 DEF Cut
<1>17. QED
  BY <1>1, <1>2, <1>3, <1>4, <1>5, <1>6, <1>7, <1>8, <1>9, <1>10, <1>11, <1>12, <1>13, <1>14, <1>15,
     <1>16 DEF TransferNext, AppTransfers, ProxyTransfers

-----------------------------------------------------------------------------
(* What each step does to the fields of the records.                       *)
AskingKept == UNCHANGED asking
Received == wire'.up = wire.up /\ wire'.down = After(wire.down) /\ Ready(wire.down, "proxy" \in ends)
Fetched == wire'.down = wire.down /\ wire'.up = After(wire.up) /\ Ready(wire.up, "app" \in ends)
AnswerKept ==
    /\ asking'.answer.code = asking.answer.code /\ asking'.answer.name = asking.answer.name
    /\ asking'.answer.type = asking.answer.type /\ asking'.answer.size = asking.answer.size
    /\ asking'.answer.body = asking.answer.body
Refused ==
    /\ serving'.at = "write" /\ serving'.todo = <<Failed, Line(<<"message">>)>>
    /\ serving'.path = serving.path /\ serving'.size = serving.size
Answered(c) ==
    /\ asking'.at = "end" /\ asking'.answer.code = c /\ asking'.answer.name = asking.answer.name
    /\ asking'.answer.type = asking.answer.type /\ asking'.answer.size = asking.answer.size
    /\ asking'.answer.body = asking.answer.body
    /\ ends' = ends \ {"app"}

(* The answer of the app is its last.                                      *)
LEMMA AnswerEffect ==
    ASSUME FieldsInv, NEW c, Answer(c), CloseBy("app")
    PROVE  Answered(c)
BY DEF FieldsInv, Answer, CloseBy, Answered

(* The refusal is what is left to write.                                   *)
LEMMA RefuseEffect ==
    ASSUME FieldsInv, Refuse
    PROVE  Refused
<1>1. \A s, t, u : DOMAIN s = {"at", "todo", "path", "size"} =>
        LET n == [s EXCEPT !.at = t, !.todo = u]
        IN  n.at = t /\ n.todo = u /\ n.path = s.path /\ n.size = s.size
  OBVIOUS
<1>2. QED
  BY <1>1 DEF FieldsInv, Refuse, Refused

(* A record of the request is written, or the connection is found closed.  *)
LEMMA AppWritesEffect ==
    ASSUME FieldsInv, AppWrites
    PROVE  /\ sending.at = "write" /\ sending.todo # <<>> /\ UNCHANGED <<file, asking, serving, ends, disk>>
           /\ \/ /\ Whole /\ sending'.at = "write" /\ sending'.todo = Tail(sending.todo)
                 /\ wire'.up = Append(wire.up, Head(sending.todo)) /\ wire'.down = wire.down
              \/ ~ Whole /\ sending'.at = "report" /\ sending'.todo = sending.todo /\ UNCHANGED wire
BY DEF FieldsInv, AppWrites, Whole

(* All of the request is written.                                          *)
LEMMA AppWroteEffect ==
    ASSUME FieldsInv, AppWrote
    PROVE  /\ sending'.at = "report" /\ sending'.todo = sending.todo
           /\ UNCHANGED <<file, asking, serving, wire, ends, disk>>
BY DEF FieldsInv, AppWrote

(* The app goes on to the status, or fails.                                *)
LEMMA AppSentEffect ==
    ASSUME FieldsInv, AppSent
    PROVE  /\ asking.at = "send" /\ sending'.at = "end" /\ sending'.todo = sending.todo
           /\ UNCHANGED <<file, serving, wire, disk>>
           /\ \/ asking'.at = "status" /\ AnswerKept /\ UNCHANGED ends
              \/ Answered(400)
<1>1. CASE sending.todo = <<>>
  BY <1>1 DEF FieldsInv, AppSent, AnswerKept
<1>2. CASE sending.todo # <<>>
  BY <1>2, AnswerEffect DEF FieldsInv, AppSent
<1>3. QED
  BY <1>1, <1>2

(* The status is Ok and the answer is read on, or the app fails.           *)
LEMMA AppReadsStatusEffect ==
    ASSUME FieldsInv, AppReadsStatus
    PROVE  /\ asking.at = "status" /\ Received /\ UNCHANGED <<file, sending, serving, disk>>
           /\ \/ /\ wire.down # <<>> /\ Head(wire.down) = Ok /\ UNCHANGED ends
                 /\ \/ file.op = "put" /\ asking'.at = "sent" /\ AnswerKept
                    \/ file.op = "get" /\ asking'.at = "name" /\ AnswerKept
                    \/ /\ file.op = "stat" /\ asking'.at = "body" /\ asking'.answer.code = 200
                       /\ asking'.answer.body = asking.answer.body
              \/ /\ wire.down = <<>> \/ Head(wire.down) # Ok
                 /\ Answered(400)
<1>1. Received
  BY DEF FieldsInv, AppReadsStatus, Received
<1>2. CASE wire.down # <<>> /\ Head(wire.down) = Ok
  <2>1. CASE file.op = "put" /\ asking' = [asking EXCEPT !.at = "sent"]
    BY <1>1, <1>2, <2>1 DEF FieldsInv, AppReadsStatus, AnswerKept
  <2>2. CASE file.op = "get" /\ asking' = [asking EXCEPT !.at = "name"]
    BY <1>1, <1>2, <2>2 DEF FieldsInv, AppReadsStatus, AnswerKept
  <2>3. CASE file.op = "stat" /\ asking' = [at |-> "body", answer |-> [asking.answer EXCEPT !.code = 200]]
    BY <1>1, <1>2, <2>3 DEF FieldsInv, AppReadsStatus
  <2>4. QED
    BY <1>2, <2>1, <2>2, <2>3 DEF AppReadsStatus
<1>3. CASE ~ (wire.down # <<>> /\ Head(wire.down) = Ok)
  BY <1>1, <1>3, AnswerEffect DEF AppReadsStatus
<1>4. QED
  BY <1>2, <1>3

(* The upload is over for the app.                                         *)
LEMMA AppPutDoneEffect ==
    ASSUME FieldsInv, AppPutDone
    PROVE  /\ asking.at = "sent" /\ sending'.at = "end" /\ sending'.todo = sending.todo
           /\ Answered(200) \/ Answered(400)
           /\ UNCHANGED <<file, serving, wire, disk>>
<1>1. Answered(200) \/ Answered(400)
  BY AnswerEffect DEF AppPutDone
<1>2. QED
  BY <1>1 DEF FieldsInv, AppPutDone

(* The name is what the next record begins with.                           *)
LEMMA AppReadsNameEffect ==
    ASSUME FieldsInv, AppReadsName
    PROVE  /\ asking.at = "name" /\ Received /\ UNCHANGED <<file, sending, serving, ends, disk>>
           /\ asking'.at = "type" /\ asking'.answer.name = NextString(wire.down)
           /\ asking'.answer.code = asking.answer.code /\ asking'.answer.body = asking.answer.body
BY DEF FieldsInv, AppReadsName, Received

(* So is the type.                                                         *)
LEMMA AppReadsTypeEffect ==
    ASSUME FieldsInv, AppReadsType
    PROVE  /\ asking.at = "type" /\ Received /\ UNCHANGED <<file, sending, serving, ends, disk>>
           /\ asking'.at = "size" /\ asking'.answer.type = NextString(wire.down)
           /\ asking'.answer.code = asking.answer.code /\ asking'.answer.body = asking.answer.body
           /\ asking'.answer.name = asking.answer.name
BY DEF FieldsInv, AppReadsType, Received

(* The size completes the header, unless the connection has ended.         *)
LEMMA AppReadsSizeEffect ==
    ASSUME FieldsInv, AppReadsSize
    PROVE  /\ asking.at = "size" /\ Received /\ UNCHANGED <<file, sending, serving, disk>>
           /\ \/ /\ wire.down # <<>> /\ asking'.at = "body" /\ asking'.answer.code = 200
                 /\ asking'.answer.size = Head(Head(wire.down)) /\ asking'.answer.body = asking.answer.body
                 /\ asking'.answer.name = asking.answer.name /\ asking'.answer.type = asking.answer.type
                 /\ UNCHANGED ends
              \/ wire.down = <<>> /\ Answered(400)
<1>1. Received
  BY DEF FieldsInv, AppReadsSize, Received
<1>2. CASE wire.down # <<>>
  <2> DEFINE f == asking.answer
             c == Head(Head(wire.down))
             n == [f EXCEPT !.code = 200, !.size = c]
  <2>1. /\ asking.at = "size" /\ asking' = [at |-> "body", answer |-> n]
        /\ UNCHANGED <<file, sending, serving, ends, disk>>
    BY <1>2 DEF AppReadsSize
  <2>2. DOMAIN f = {"code", "name", "type", "size", "body"}
    BY DEF FieldsInv
  <2> HIDE DEF f, c
  <2>3. n.code = 200 /\ n.size = c /\ n.name = f.name /\ n.type = f.type /\ n.body = f.body
    BY <2>2
  <2> HIDE DEF n
  <2>4. asking'.at = "body" /\ asking'.answer = n
    BY <2>1
  <2>5. QED
    BY <1>1, <1>2, <2>1, <2>3, <2>4 DEF f, c
<1>3. CASE wire.down = <<>>
  BY <1>1, <1>3, AnswerEffect DEF AppReadsSize
<1>4. QED
  BY <1>2, <1>3

(* What comes is added to the body, until the connection ends.             *)
LEMMA AppCopiesEffect ==
    ASSUME FieldsInv, AppCopies
    PROVE  /\ asking.at = "body" /\ Received /\ UNCHANGED <<file, sending, serving, disk>>
           /\ asking'.answer.code = asking.answer.code /\ asking'.answer.name = asking.answer.name
           /\ asking'.answer.type = asking.answer.type /\ asking'.answer.size = asking.answer.size
           /\ \/ /\ wire.down # <<>> /\ asking'.at = "body" /\ UNCHANGED ends
                 /\ asking'.answer.body = asking.answer.body \o Head(wire.down)
              \/ /\ wire.down = <<>> /\ asking'.at = "end" /\ asking'.answer.body = asking.answer.body
                 /\ ends' = ends \ {"app"}
<1>1. Received
  BY DEF FieldsInv, AppCopies, Received
<1>2. CASE wire.down # <<>>
  <2> DEFINE f == asking.answer
             b == asking.answer.body \o Head(wire.down)
             n == [f EXCEPT !.body = b]
  <2>1. /\ asking.at = "body" /\ asking' = [asking EXCEPT !.answer = n]
        /\ UNCHANGED <<file, sending, serving, ends, disk>>
    BY <1>2 DEF AppCopies
  <2>2. DOMAIN f = {"code", "name", "type", "size", "body"} /\ DOMAIN asking = {"at", "answer"}
    BY DEF FieldsInv
  <2> HIDE DEF f, b
  <2>3. n.body = b /\ n.code = f.code /\ n.size = f.size /\ n.name = f.name /\ n.type = f.type
    BY <2>2
  <2> HIDE DEF n
  <2>4. asking'.at = asking.at /\ asking'.answer = n
    BY <2>1, <2>2
  <2>5. QED
    BY <1>1, <1>2, <2>1, <2>3, <2>4 DEF f, b
<1>3. CASE wire.down = <<>>
  BY <1>1, <1>3 DEF FieldsInv, AppCopies, CloseBy
<1>4. QED
  BY <1>2, <1>3

(* The path is what the first record of the request begins with.           *)
LEMMA ReadPathEffect ==
    ASSUME FieldsInv, ReadPath
    PROVE  /\ serving.at = "path" /\ Fetched /\ UNCHANGED <<file, asking, sending, ends, disk>>
           /\ serving'.at = (IF file.op = "put" THEN "size" ELSE "look")
           /\ serving'.path = NextString(wire.up) /\ serving'.todo = serving.todo
<1>1. \A s, t, u : DOMAIN s = {"at", "todo", "path", "size"} =>
        LET n == [s EXCEPT !.path = t, !.at = u]
        IN  n.at = u /\ n.todo = s.todo /\ n.path = t
  OBVIOUS
<1>2. QED
  BY <1>1 DEF FieldsInv, ReadPath, Fetched

(* The size of an upload is read, or it is refused.                        *)
LEMMA ReadSizeEffect ==
    ASSUME FieldsInv, ReadSize
    PROVE  /\ serving.at = "size" /\ Fetched /\ UNCHANGED <<file, asking, sending, ends, disk>>
           /\ \/ /\ wire.up # <<>> /\ serving'.at = "look" /\ serving'.size = Head(Head(wire.up))
                 /\ serving'.path = serving.path /\ serving'.todo = serving.todo
              \/ Refused
<1>1. \A s, t, u : DOMAIN s = {"at", "todo", "path", "size"} =>
        LET n == [s EXCEPT !.size = t, !.at = u]
        IN  n.at = u /\ n.todo = s.todo /\ n.path = s.path /\ n.size = t
  OBVIOUS
<1>2. Fetched
  BY DEF FieldsInv, ReadSize, Fetched
<1>3. CASE wire.up # <<>>
  BY <1>1, <1>2, <1>3 DEF FieldsInv, ReadSize
<1>4. CASE wire.up = <<>>
  BY <1>2, <1>4, RefuseEffect DEF ReadSize
<1>5. QED
  BY <1>3, <1>4

(* The request is refused, the upload begins, or all of the answer is to   *)
(* be written.                                                             *)
LEMMA LookEffect ==
    ASSUME FieldsInv, Look
    PROVE  /\ serving.at = "look" /\ UNCHANGED <<file, asking, sending, wire, ends>>
           /\ \/ Refused /\ UNCHANGED disk
              \/ /\ file.op = "put" /\ disk' = <<>> /\ serving'.at = "copy" /\ serving'.todo = serving.todo
                 /\ serving'.path = serving.path /\ serving'.size = serving.size
              \/ /\ file.op = "get" /\ serving'.at = "write" /\ serving'.todo = Response(serving.path)
                 /\ serving'.path = serving.path /\ UNCHANGED disk
              \/ /\ file.op = "stat" /\ serving'.at = "write" /\ serving'.todo = <<Ok, <<"stat">> >>
                 /\ serving'.path = serving.path /\ UNCHANGED disk
<1>1. \A s, t, u : DOMAIN s = {"at", "todo", "path", "size"} =>
        LET n == [s EXCEPT !.at = t, !.todo = u]
        IN  n.at = t /\ n.todo = u /\ n.path = s.path
  OBVIOUS
<1>2. CASE ~ file.stands \/ (file.op = "get" /\ Content = <<>>)
  BY <1>2, RefuseEffect DEF Look
<1>3. CASE ~ (~ file.stands \/ (file.op = "get" /\ Content = <<>>))
  <2>1. CASE file.op = "put" /\ disk' = <<>> /\ serving' = [serving EXCEPT !.at = "copy"]
    BY <1>3, <2>1 DEF FieldsInv, Look
  <2>2. CASE file.op = "get" /\ serving' = [serving EXCEPT !.at = "write", !.todo = Response(serving.path)]
             /\ UNCHANGED disk
    BY <1>1, <1>3, <2>2 DEF FieldsInv, Look
  <2>3. CASE file.op = "stat" /\ serving' = [serving EXCEPT !.at = "write", !.todo = <<Ok, <<"stat">> >>]
             /\ UNCHANGED disk
    BY <1>1, <1>3, <2>3 DEF FieldsInv, Look
  <2>4. QED
    BY <1>3, <2>1, <2>2, <2>3 DEF Look
<1>4. QED
  BY <1>2, <1>3

(* The upload is complete, is refused, or has one record more.             *)
LEMMA CopyEffect ==
    ASSUME FieldsInv, Copy
    PROVE  /\ serving.at = "copy" /\ UNCHANGED <<file, asking, sending, ends>>
           /\ \/ /\ Encoded[Len(disk)] = serving.size /\ serving'.at = "write" /\ serving'.todo = <<Ok>>
                 /\ serving'.path = serving.path /\ UNCHANGED <<wire, disk>>
              \/ /\ Refused /\ UNCHANGED disk /\ wire'.down = wire.down
                 /\ wire'.up = wire.up \/ wire'.up = After(wire.up)
              \/ /\ Encoded[Len(disk)] # serving.size
                 /\ Fetched /\ wire.up # <<>> /\ disk' = disk \o Head(wire.up) /\ UNCHANGED serving
<1>1. \A s, t, u : DOMAIN s = {"at", "todo", "path", "size"} =>
        LET n == [s EXCEPT !.at = t, !.todo = u]
        IN  n.at = t /\ n.todo = u /\ n.path = s.path
  OBVIOUS
<1>2. CASE Encoded[Len(disk)] = serving.size
  <2>1. CASE serving' = [serving EXCEPT !.at = "write", !.todo = <<Ok>>]
    BY <1>1, <1>2, <2>1 DEF FieldsInv, Copy
  <2>2. CASE Refuse
    BY <1>2, <2>2, RefuseEffect DEF Copy
  <2>3. QED
    BY <1>2, <2>1, <2>2 DEF Copy
<1>3. CASE Encoded[Len(disk)] # serving.size
  <2>1. Fetched
    BY <1>3 DEF FieldsInv, Copy, Fetched
  <2>2. CASE wire.up # <<>>
    BY <1>3, <2>1, <2>2 DEF Copy
  <2>3. CASE wire.up = <<>>
    BY <1>3, <2>1, <2>3, RefuseEffect DEF Copy, Fetched
  <2>4. QED
    BY <2>2, <2>3
<1>4. QED
  BY <1>2, <1>3

(* A record of the answer is written.                                      *)
LEMMA ProxyWritesEffect ==
    ASSUME FieldsInv, ProxyWrites
    PROVE  /\ serving.at = "write" /\ serving.todo # <<>> /\ Whole
           /\ serving'.at = "write" /\ serving'.todo = Tail(serving.todo) /\ serving'.path = serving.path
           /\ wire'.up = wire.up /\ wire'.down = Append(wire.down, Head(serving.todo))
           /\ UNCHANGED <<file, asking, sending, ends, disk>>
BY DEF FieldsInv, ProxyWrites, Whole

(* The proxy leaves, and what it wrote last may be lost.                   *)
LEMMA ProxyClosesEffect ==
    ASSUME FieldsInv, ProxyCloses
    PROVE  /\ serving.at = "write"
           /\ serving'.at = "end" /\ serving'.todo = serving.todo /\ serving'.path = serving.path
           /\ ends' = ends \ {"proxy"} /\ wire'.up = wire.up
           /\ wire'.down = wire.down \/ wire'.down = <<>>
           /\ UNCHANGED <<file, asking, sending, disk>>
BY DEF FieldsInv, ProxyCloses, CloseBy

(* What is on its way loses its end.                                       *)
LEMMA CutEffect ==
    ASSUME Cut
    PROVE  /\ ends' = {} /\ UNCHANGED <<file, asking, sending, serving, disk>>
           /\ \E i \in 0..Len(wire.up), j \in 0..Len(wire.down) :
                wire'.up = SubSeq(wire.up, 1, i) /\ wire'.down = SubSeq(wire.down, 1, j)
BY DEF Cut

-----------------------------------------------------------------------------
(* The steps keep what the records are made of.                            *)
LEMMA ShapeStep ==
    ASSUME FieldsInv, ShapeInv, TransferNext
    PROVE  ShapeInv'
<1>1. /\ After(wire.up) \in Seq(Records) /\ After(wire.down) \in Seq(Records)
      /\ wire.up # <<>> => NextString(wire.up) \in Seq(Cells)
      /\ NextString(wire.up) \in Seq(Cells)
  BY ZenonT(30), RecordsOf DEF ShapeInv
<1>2. \A s \in Seq(Records) : s # <<>> => Tail(s) \in Seq(Records) /\ Head(s) \in Records
  OBVIOUS
<1>3. \A s \in Seq(Records), r \in Records : Append(s, r) \in Seq(Records)
  OBVIOUS
<1>4. <<Failed, Line(<<"message">>)>> \in Seq(Records) /\ <<Ok>> \in Seq(Records)
      /\ <<Ok, <<"stat">> >> \in Seq(Records) /\ <<>> \in Seq(Records)
  <2>1. Failed \in Records /\ Line(<<"message">>) \in Records /\ Ok \in Records /\ <<"stat">> \in Records
    BY CellsOf
  <2>2. QED
    BY <2>1
<1>5. CASE AppWrites
  <2>1. sending.todo \in Seq(Records) /\ sending.todo # <<>> /\ wire.up \in Seq(Records)
    BY <1>5, AppWritesEffect DEF ShapeInv
  <2>2. Tail(sending.todo) \in Seq(Records) /\ Append(wire.up, Head(sending.todo)) \in Seq(Records)
    BY <1>2, <1>3, <2>1
  <2>3. /\ UNCHANGED <<file, asking, serving, ends>> /\ wire'.down = wire.down
        /\ \/ sending'.at = "write" /\ sending'.todo = Tail(sending.todo)
              /\ wire'.up = Append(wire.up, Head(sending.todo))
           \/ sending'.at = "report" /\ sending'.todo = sending.todo /\ wire'.up = wire.up
    BY <1>5, AppWritesEffect
  <2>4. QED
    BY ZenonT(30), <2>2, <2>3 DEF ShapeInv
<1>6. CASE AppWrote
  BY ZenonT(30), <1>6, AppWroteEffect DEF ShapeInv
<1>7. CASE AppSent
  <2>1. /\ UNCHANGED <<file, serving, wire>> /\ sending'.at = "end" /\ sending'.todo = sending.todo
        /\ asking'.at \in {"status", "end"} /\ asking'.answer.code \in {asking.answer.code, 400}
        /\ asking'.answer.body = asking.answer.body /\ ends' \in {ends, ends \ {"app"}}
    BY <1>7, AppSentEffect DEF AnswerKept, Answered
  <2>2. /\ asking'.answer.code \in {0, 200, 400} /\ asking'.at \in Places
        /\ ends' \in SUBSET {"app", "proxy"}
    BY <2>1 DEF ShapeInv, Places
  <2>3. sending'.at \in {"write", "report", "end"} /\ file' = file /\ serving' = serving /\ wire' = wire
    BY <2>1
  <2>4. asking'.answer.body \in Seq(Cells) /\ sending'.todo \in Seq(Records)
    BY <2>1 DEF ShapeInv
  <2>5. QED
    BY <2>2, <2>3, <2>4 DEF ShapeInv
<1>8. CASE AppReadsStatus
  <2>1. /\ UNCHANGED <<file, sending, serving>>
        /\ asking'.at = "sent" \/ asking'.at = "name" \/ asking'.at = "body" \/ asking'.at = "end"
        /\ \/ asking'.answer.code = asking.answer.code \/ asking'.answer.code = 200
           \/ asking'.answer.code = 400
        /\ asking'.answer.body = asking.answer.body
        /\ ends' = ends \/ ends' = ends \ {"app"}
        /\ wire'.up = wire.up /\ wire'.down = After(wire.down)
    BY <1>8, AppReadsStatusEffect DEF AnswerKept, Answered, Received
  <2>2. asking'.answer.code \in {0, 200, 400} /\ asking'.at \in Places
    BY <2>1 DEF ShapeInv, Places
  <2>3. QED
    BY ZenonT(30), <1>1, <2>1, <2>2 DEF ShapeInv
<1>9. CASE AppPutDone
  BY ZenonT(30), <1>9, AppPutDoneEffect DEF ShapeInv, Places, Answered
<1>10. CASE AppReadsName
  BY ZenonT(30), <1>1, <1>10, AppReadsNameEffect DEF ShapeInv, Places, Received
<1>11. CASE AppReadsType
  BY ZenonT(30), <1>1, <1>11, AppReadsTypeEffect DEF ShapeInv, Places, Received
<1>12. CASE AppReadsSize
  BY ZenonT(30), <1>1, <1>12, AppReadsSizeEffect DEF ShapeInv, Places, Received, Answered
<1>13. CASE AppCopies
  <2>1. wire.down # <<>> => asking.answer.body \o Head(wire.down) \in Seq(Cells)
    <3>1. asking.answer.body \in Seq(Cells) /\ (wire.down # <<>> => Head(wire.down) \in Seq(Cells))
      BY RecordsOf DEF ShapeInv
    <3>2. QED
      BY <3>1
  <2>2. QED
    BY ZenonT(30), <1>1, <1>13, <2>1, AppCopiesEffect DEF ShapeInv, Places, Received
<1>14. CASE ReadPath
  BY ZenonT(40), <1>1, <1>14, ReadPathEffect DEF ShapeInv, Stages, Fetched
<1>15. CASE ReadSize
  BY ZenonT(30), <1>1, <1>4, <1>15, ReadSizeEffect DEF ShapeInv, Stages, Fetched, Refused
<1>16. CASE Look
  <2>1. Response(serving.path) \in Seq(Records)
    BY ResponseIs DEF ShapeInv
  <2>2. /\ UNCHANGED <<file, asking, sending, wire, ends>> /\ serving'.path = serving.path
        /\ serving'.at \in {"copy", "write"}
    BY <1>16, LookEffect DEF Refused
  <2>3. serving'.todo \in Seq(Records)
    <3> DEFINE m == <<Failed, Line(<<"message">>)>>
               a == <<Ok, <<"stat">> >>
    <3>1. serving'.todo = serving.todo \/ serving'.todo = Response(serving.path) \/ serving'.todo = m
          \/ serving'.todo = a
      BY <1>16, LookEffect DEF Refused
    <3>2. m \in Seq(Records) /\ a \in Seq(Records) /\ serving.todo \in Seq(Records)
      BY <1>4 DEF ShapeInv
    <3> HIDE DEF m, a
    <3>3. QED
      BY <2>1, <3>1, <3>2
  <2>4. serving'.at \in Stages
    BY <2>2 DEF Stages
  <2>5. QED
    BY <2>2, <2>3, <2>4 DEF ShapeInv
<1>17. CASE Copy
  <2>1. /\ UNCHANGED <<file, asking, sending, ends>> /\ serving'.path = serving.path
        /\ serving'.at \in {serving.at, "write"} /\ wire'.down = wire.down
        /\ wire'.up = wire.up \/ wire'.up = After(wire.up)
    BY <1>17, CopyEffect DEF Refused, Fetched
  <2>2. serving'.todo \in Seq(Records) /\ wire'.up \in Seq(Records)
    <3> DEFINE m == <<Failed, Line(<<"message">>)>>
               a == <<Ok>>
    <3>1. serving'.todo = serving.todo \/ serving'.todo = m \/ serving'.todo = a
      BY <1>17, CopyEffect DEF Refused
    <3>2. m \in Seq(Records) /\ a \in Seq(Records) /\ serving.todo \in Seq(Records)
      BY <1>4 DEF ShapeInv
    <3> HIDE DEF m, a
    <3>3. QED
      BY <1>1, <2>1, <3>1, <3>2 DEF ShapeInv
  <2>3. serving'.at \in Stages
    BY <2>1 DEF ShapeInv, Stages
  <2>4. QED
    BY <2>1, <2>2, <2>3 DEF ShapeInv
<1>18. CASE ProxyWrites
  <2>1. serving.todo \in Seq(Records) /\ serving.todo # <<>> /\ wire.down \in Seq(Records)
    BY <1>18, ProxyWritesEffect DEF ShapeInv
  <2>2. Tail(serving.todo) \in Seq(Records) /\ Append(wire.down, Head(serving.todo)) \in Seq(Records)
    BY <1>2, <1>3, <2>1
  <2>3. QED
    BY ZenonT(30), <1>18, <2>2, ProxyWritesEffect DEF ShapeInv, Stages
<1>19. CASE ProxyCloses
  BY ZenonT(30), <1>4, <1>19, ProxyClosesEffect DEF ShapeInv, Stages
<1>20. CASE Cut
  <2>1. PICK i \in 0..Len(wire.up), j \in 0..Len(wire.down) :
          wire'.up = SubSeq(wire.up, 1, i) /\ wire'.down = SubSeq(wire.down, 1, j)
    BY <1>20, CutEffect
  <2>2. SubSeq(wire.up, 1, i) \in Seq(Records) /\ SubSeq(wire.down, 1, j) \in Seq(Records)
    BY ZenonT(30), RecordsOf DEF ShapeInv
  <2>3. QED
    BY <1>20, <2>1, <2>2, CutEffect DEF ShapeInv
<1>21. QED
  BY <1>5, <1>6, <1>7, <1>8, <1>9, <1>10, <1>11, <1>12, <1>13, <1>14, <1>15, <1>16, <1>17, <1>18, <1>19,
     <1>20 DEF TransferNext, AppTransfers, ProxyTransfers

(* The places of a request go with what is done and with its answer.       *)
LEMMA PlaceStep ==
    ASSUME FieldsInv, ShapeInv, PlaceInv, TransferNext
    PROVE  PlaceInv'
<1> USE DEF PlaceInv
<1>1. CASE AppWrites \/ AppWrote
  BY <1>1, AppWritesEffect, AppWroteEffect
<1>2. CASE AppSent
  BY <1>2, AppSentEffect DEF AnswerKept, Answered
<1>3. CASE AppReadsStatus
  BY <1>3, AppReadsStatusEffect DEF AnswerKept, Answered
<1>4. CASE AppPutDone
  BY <1>4, AppPutDoneEffect DEF Answered
<1>5. CASE AppReadsName
  BY <1>5, AppReadsNameEffect
<1>6. CASE AppReadsType
  BY <1>6, AppReadsTypeEffect
<1>7. CASE AppReadsSize
  BY <1>7, AppReadsSizeEffect DEF Answered
<1>8. CASE AppCopies
  BY <1>8, AppCopiesEffect
<1>9. CASE ProxyTransfers \/ Cut
  <2>1. UNCHANGED <<file, asking>> /\ ends' \subseteq ends
    BY <1>9, ReadPathEffect, ReadSizeEffect, LookEffect, CopyEffect, ProxyWritesEffect, ProxyClosesEffect,
       CutEffect DEF ProxyTransfers
  <2>2. QED
    BY <2>1
<1>10. QED
  BY <1>1, <1>2, <1>3, <1>4, <1>5, <1>6, <1>7, <1>8, <1>9 DEF TransferNext, AppTransfers

-----------------------------------------------------------------------------
(* What has been read of the request, and is to be read, is the request.   *)
LEMMA TakenIs ==
    ASSUME ShapeInv, RequestInv
    PROVE  /\ Taken \in Nat
           /\ serving.at = "path" => Taken = 0
           /\ serving.at = "size" => Taken = 1
           /\ serving.at = "look" => Taken = IF file.op = "put" THEN 2 ELSE 1
           /\ serving.at = "copy" => Taken = 2 + Len(disk) /\ Len(disk) \in Nat
<1>1. serving.at = "copy" => Len(disk) \in Nat
  BY DEF RequestInv
<1>2. QED
  BY <1>1 DEF Taken, ShapeInv

(* It is kept when the proxy does nothing and the app writes nothing.      *)
LEMMA RequestKept ==
    ASSUME ShapeInv, RequestInv, UNCHANGED <<file, serving, disk>>, Whole' => Whole,
           \/ wire'.up = wire.up
              /\ (Whole' /\ sending'.at = "write" => sending.at = "write" /\ sending'.todo = sending.todo)
           \/ /\ ~ Whole'
              /\ \E i \in 0..Len(wire.up) : wire'.up = SubSeq(wire.up, 1, i)
    PROVE  RequestInv'
<1>1. Taken' = Taken /\ (ReadingNow' <=> ReadingNow) /\ Taken \in Nat
  BY TakenIs DEF Taken, ReadingNow
<1>2. ReadingNow => GoesOn(wire'.up, Taken, RequestRecords(file))
  <2>1. CASE wire'.up = wire.up
    BY <2>1 DEF RequestInv
  <2>2. CASE \E i \in 0..Len(wire.up) : wire'.up = SubSeq(wire.up, 1, i)
    <3>1. wire.up \in Seq(Records) /\ (ReadingNow => GoesOn(wire.up, Taken, RequestRecords(file)))
      BY DEF ShapeInv, RequestInv
    <3>2. ReadingNow => \A j \in 0..Len(wire.up) : GoesOn(SubSeq(wire.up, 1, j), Taken, RequestRecords(file))
      BY <1>1, <3>1, GoesOnFrom
    <3>3. QED
      BY <2>2, <3>2
  <2>3. QED
    BY <2>1, <2>2
<1>3. ReadingNow /\ Whole' /\ sending'.at = "write" =>
        GoesOn(sending'.todo, Taken + Len(wire'.up), RequestRecords(file))
  BY DEF RequestInv
<1>4. ReadingNow' =>
        /\ GoesOn(wire'.up, Taken', RequestRecords(file'))
        /\ Whole' /\ sending'.at = "write" =>
             GoesOn(sending'.todo, Taken' + Len(wire'.up), RequestRecords(file'))
  BY <1>1, <1>2, <1>3
<1>5. /\ Whole' /\ serving.at \in {"size", "look"} => serving.path = FirstLine(file.name)
      /\ serving.at = "size" => file.op = "put"
      /\ file.op = "put" /\ serving.at \in {"look", "copy"} => serving.size = Encoded[Len(Content)]
      /\ serving.at = "copy" => file.op = "put" /\ disk \in Seq(Cells) /\ GoesOn(disk, 0, Content)
  BY DEF RequestInv
<1>6. QED
  BY <1>4, <1>5 DEF RequestInv

(* The steps keep what has been read of the request, and what is to be     *)
(* read.                                                                   *)
LEMMA RequestStep ==
    ASSUME FieldsInv, ShapeInv, RequestInv, TransferNext
    PROVE  RequestInv'
<1> DEFINE all == RequestRecords(file)
<1>1. /\ Taken \in Nat /\ wire.up \in Seq(Records) /\ sending.todo \in Seq(Records)
      /\ Len(wire.up) \in Nat
      /\ ReadingNow => GoesOn(wire.up, Taken, all)
      /\ ReadingNow /\ Whole /\ sending.at = "write" => GoesOn(sending.todo, Taken + Len(wire.up), all)
  BY TakenIs DEF ShapeInv, RequestInv
<1>2. /\ all[1] = Line(file.name) /\ Len(all) \in Nat
      /\ file.op = "put" => /\ Len(all) = 2 + Len(Content) /\ all[2] = <<Encoded[Len(Content)]>>
                            /\ \A i \in 1..Len(Content) : all[2 + i] = <<Content[i]>>
  BY RequestIs DEF ShapeInv
<1> HIDE DEF all
<1>3. CASE AppWrites
  <2>1. CASE ~ Whole
    <3>1. /\ UNCHANGED <<file, serving, disk, ends>> /\ wire'.up = wire.up /\ sending'.at = "report"
      BY <1>3, <2>1, AppWritesEffect
    <3>2. QED
      BY <3>1, RequestKept DEF Whole
  <2>2. CASE Whole
    <3>1. /\ UNCHANGED <<file, serving, disk, ends>> /\ sending.at = "write" /\ sending.todo # <<>>
          /\ sending'.todo = Tail(sending.todo) /\ wire'.up = Append(wire.up, Head(sending.todo))
      BY <1>3, <2>2, AppWritesEffect
    <3>2. ReadingNow => /\ GoesOn(wire'.up, Taken, all)
                        /\ GoesOn(sending'.todo, Taken + Len(wire'.up), all)
      BY <1>1, <2>2, <3>1, GoesOnTo
    <3>3. Taken' = Taken /\ (ReadingNow' <=> ReadingNow) /\ (Whole' <=> Whole) /\ RequestRecords(file') = all
      BY <3>1 DEF Taken, ReadingNow, Whole, all
    <3>4. QED
      BY <3>1, <3>2, <3>3 DEF RequestInv
  <2>3. QED
    BY <2>1, <2>2
<1>4. CASE AppWrote \/ AppSent \/ AppPutDone \/ AppReadsStatus \/ AppReadsName \/ AppReadsType
            \/ AppReadsSize \/ AppCopies
  <2>1. /\ UNCHANGED <<file, serving, disk>> /\ wire'.up = wire.up
        /\ ends' = ends \/ ends' = ends \ {"app"}
        /\ sending'.at \in {"report", "end"} \/ UNCHANGED sending
    <3>1. CASE AppWrote \/ AppSent \/ AppPutDone
      BY <3>1, AppWroteEffect, AppSentEffect, AppPutDoneEffect DEF Answered
    <3>2. CASE AppReadsStatus \/ AppReadsName
      BY <3>2, AppReadsStatusEffect, AppReadsNameEffect DEF Answered, Received
    <3>3. CASE AppReadsType \/ AppReadsSize
      BY <3>3, AppReadsTypeEffect, AppReadsSizeEffect DEF Answered, Received
    <3>4. CASE AppCopies
      BY <3>4, AppCopiesEffect DEF Received
    <3>5. QED
      BY <1>4, <3>1, <3>2, <3>3, <3>4
  <2>2. Whole' => Whole
    BY <2>1 DEF Whole
  <2>3. sending'.at = "write" => sending.at = "write" /\ sending'.todo = sending.todo
    BY <2>1
  <2>4. QED
    BY <2>1, <2>2, <2>3, RequestKept
<1>5. CASE Cut
  <2>1. UNCHANGED <<file, serving, disk>> /\ ~ Whole'
        /\ \E i \in 0..Len(wire.up) : wire'.up = SubSeq(wire.up, 1, i)
    BY <1>5, CutEffect DEF Whole
  <2>2. QED
    BY <2>1, RequestKept
<1>6. CASE ProxyWrites \/ ProxyCloses
  <2>1. serving'.at \in {"write", "end"}
    BY <1>6, ProxyWritesEffect, ProxyClosesEffect
  <2>2. QED
    BY <2>1 DEF RequestInv, ReadingNow
<1>7. CASE ReadPath
  <2>1. /\ serving.at = "path" /\ UNCHANGED <<file, sending, ends, disk>> /\ wire'.up = After(wire.up)
        /\ serving'.at = (IF file.op = "put" THEN "size" ELSE "look")
        /\ serving'.path = NextString(wire.up) /\ (wire.up # <<>> \/ ~ Whole)
    BY <1>7, ReadPathEffect DEF Fetched, Ready, Whole
  <2>2. Taken = 0 /\ ReadingNow /\ Taken' = 1 /\ (Whole' <=> Whole) /\ RequestRecords(file') = all
    BY <2>1, TakenIs DEF Taken, ReadingNow, Whole, all
  <2>3. /\ GoesOn(wire'.up, 1, all)
        /\ Whole /\ sending'.at = "write" => GoesOn(sending'.todo, 1 + Len(wire'.up), all)
        /\ Whole => serving'.path = FirstLine(file.name)
    <3>1. CASE wire.up # <<>>
      <4>1. Head(wire.up) = Line(file.name) /\ GoesOn(Tail(wire.up), 1, all)
        <5>1. GoesOn(wire.up, 0, all) /\ 0 \in Nat /\ 0 + 1 = 1
          BY <1>1, <2>2
        <5>2. QED
          BY <1>1, <1>2, <3>1, <5>1, GoesOnFrom
      <4>2. wire'.up = Tail(wire.up) /\ NextString(wire.up) = FirstLine(Line(file.name))
        BY <2>1, <3>1, <4>1 DEF After, NextString
      <4>3. FirstLine(Line(file.name)) = FirstLine(file.name)
        BY CellsOf, FirstLineReads DEF ShapeInv
      <4>4. 1 + Len(Tail(wire.up)) = 0 + Len(wire.up)
        BY <1>1, <3>1
      <4>5. QED
        BY <1>1, <2>1, <2>2, <4>1, <4>2, <4>3, <4>4
    <3>2. CASE wire.up = <<>>
      <4>1. wire'.up = <<>> /\ ~ Whole
        BY <2>1, <3>2 DEF After
      <4>2. QED
        BY <4>1 DEF GoesOn
    <3>3. QED
      BY <3>1, <3>2
  <2>4. QED
    BY <2>1, <2>2, <2>3 DEF RequestInv
<1>8. CASE ReadSize
  <2>1. serving.at = "size" /\ UNCHANGED <<file, sending, ends, disk>> /\ wire'.up = After(wire.up)
    BY <1>8, ReadSizeEffect DEF Fetched
  <2>2. CASE Refused
    BY <2>2 DEF RequestInv, ReadingNow, Refused
  <2>3. CASE ~ Refused
    <3>1. /\ wire.up # <<>> /\ serving'.at = "look" /\ serving'.size = Head(Head(wire.up))
          /\ serving'.path = serving.path
      BY <1>8, <2>3, ReadSizeEffect
    <3>2. /\ file.op = "put" /\ Taken = 1 /\ ReadingNow /\ Taken' = 2 /\ (Whole' <=> Whole)
          /\ RequestRecords(file') = all
      BY <2>1, <3>1, TakenIs DEF Taken, ReadingNow, Whole, all, RequestInv
    <3>3. Head(wire.up) = <<Encoded[Len(Content)]>> /\ GoesOn(Tail(wire.up), 2, all)
      <4>1. GoesOn(wire.up, 1, all) /\ 1 \in Nat /\ 1 + 1 = 2
        BY <1>1, <3>2
      <4>2. QED
        <5>1. Head(wire.up) = all[1 + 1] /\ GoesOn(Tail(wire.up), 1 + 1, all)
          BY <1>1, <3>1, <4>1, GoesOnFrom
        <5>2. all[2] = <<Encoded[Len(Content)]>>
          BY <1>2, <3>2
        <5>3. QED
          BY <4>1, <5>1, <5>2
    <3>4. wire'.up = Tail(wire.up) /\ 2 + Len(Tail(wire.up)) = 1 + Len(wire.up)
      BY <1>1, <2>1, <3>1 DEF After
    <3>5. Whole /\ sending'.at = "write" => GoesOn(sending'.todo, 2 + Len(wire'.up), all)
      BY <1>1, <2>1, <3>2, <3>4
    <3>6. Whole => serving'.path = FirstLine(file.name)
      BY <2>1, <3>1 DEF RequestInv
    <3>7. serving'.size = Encoded[Len(Content)]
      BY <3>1, <3>3
    <3>8. QED
      BY <2>1, <3>1, <3>2, <3>3, <3>4, <3>5, <3>6, <3>7 DEF RequestInv
  <2>4. QED
    BY <2>2, <2>3
<1>9. CASE Look
  <2>1. serving.at = "look" /\ UNCHANGED <<file, sending, wire, ends>>
    BY <1>9, LookEffect
  <2>2. CASE serving'.at = "write"
    BY <2>2 DEF RequestInv, ReadingNow
  <2>3. CASE serving'.at # "write"
    <3>1. file.op = "put" /\ disk' = <<>> /\ serving'.at = "copy" /\ serving'.size = serving.size
      BY <1>9, <2>3, LookEffect DEF Refused
    <3>2. /\ Taken = 2 /\ Len(<<>>) = 0 /\ Taken' = 2 /\ ReadingNow /\ (Whole' <=> Whole)
          /\ RequestRecords(file') = all
      BY <2>1, <3>1, TakenIs DEF Taken, ReadingNow, Whole, all
    <3>3. GoesOn(<<>>, 0, Content) /\ <<>> \in Seq(Cells)
      BY DEF GoesOn
    <3>4. GoesOn(wire'.up, 2, all) /\ serving'.size = Encoded[Len(Content)]
          /\ (Whole /\ sending'.at = "write" => GoesOn(sending'.todo, 2 + Len(wire'.up), all))
      BY <1>1, <2>1, <3>1, <3>2 DEF RequestInv
    <3>5. QED
      BY <2>1, <3>1, <3>2, <3>3, <3>4 DEF RequestInv
  <2>4. QED
    BY <2>2, <2>3
<1>10. CASE Copy
  <2>1. serving.at = "copy" /\ UNCHANGED <<file, sending, ends>>
    BY <1>10, CopyEffect
  <2>2. CASE serving'.at = "write"
    BY <2>2 DEF RequestInv, ReadingNow
  <2>3. CASE serving'.at # "write"
    <3>1. /\ wire'.up = After(wire.up) /\ wire.up # <<>> /\ disk' = disk \o Head(wire.up)
          /\ UNCHANGED serving
      BY <1>10, <2>3, CopyEffect DEF Refused, Fetched
    <3> DEFINE d == Len(disk)
               c == Content[d + 1]
               dd == disk \o <<c>>
    <3>2. /\ file.op = "put" /\ disk \in Seq(Cells) /\ GoesOn(disk, 0, Content) /\ d \in Nat
          /\ Taken = 2 + d /\ ReadingNow /\ (Whole' <=> Whole) /\ RequestRecords(file') = all
          /\ serving.size = Encoded[Len(Content)]
      BY <2>1, TakenIs DEF RequestInv, ReadingNow, Whole, all
    <3> HIDE DEF d
    <3>3. d + 1 \in 1..Len(Content) /\ Head(wire.up) = <<c>> /\ GoesOn(Tail(wire.up), 2 + (d + 1), all)
      <4>1. /\ (2 + d) + 1 \in 1..Len(all) /\ Head(wire.up) = all[(2 + d) + 1]
            /\ GoesOn(Tail(wire.up), (2 + d) + 1, all)
        <5>1. GoesOn(wire.up, 2 + d, all) /\ 2 + d \in Nat
          BY <1>1, <3>2
        <5>2. QED
          BY <1>1, <3>1, <5>1, GoesOnFrom
      <4>2. (2 + d) + 1 = 2 + (d + 1) /\ Len(all) = 2 + Len(Content) /\ Len(Content) \in Nat
        BY <1>2, <3>2, CellsOf
      <4>3. d + 1 \in 1..Len(Content)
        BY <3>2, <4>1, <4>2
      <4>4. QED
        BY <1>2, <3>2, <4>1, <4>2, <4>3
    <3>4. c \in Cells
      <4>1. Content \in Seq(Cells)
        BY CellsOf
      <4>2. QED
        BY <3>3, <4>1
    <3> HIDE DEF c
    <3>5. dd \in Seq(Cells) /\ Len(dd) = d + 1 /\ dd[d + 1] = c /\ \A i \in 1..d : dd[i] = disk[i]
      BY <3>2, <3>4 DEF d
    <3> HIDE DEF dd
    <3>6. GoesOn(dd, 0, Content)
      <4>1. \A i \in 1..d : i \in 1..Len(Content) /\ disk[i] = Content[i]
        BY <3>2 DEF GoesOn, d
      <4>2. \A i \in 1..(d + 1) : (i \in 1..d \/ i = d + 1) /\ 0 + i = i
        BY <3>2
      <4>3. QED
        BY <3>3, <3>5, <4>1, <4>2 DEF GoesOn, c
    <3>7. disk' = dd
      BY <3>1, <3>3 DEF dd
    <3>8. wire'.up = Tail(wire.up) /\ (2 + (d + 1)) + Len(Tail(wire.up)) = (2 + d) + Len(wire.up)
      <4>1. wire'.up = Tail(wire.up)
        BY <3>1 DEF After
      <4>2. Len(Tail(wire.up)) = Len(wire.up) - 1 /\ Len(wire.up) \in Nat
        BY <1>1, <3>1
      <4>3. \A m \in Nat : (2 + (d + 1)) + (m - 1) = (2 + d) + m
        BY <3>2
      <4>4. QED
        BY <4>1, <4>2, <4>3
    <3>9. Taken' = 2 + (d + 1)
      BY <2>1, <3>1, <3>5, <3>7 DEF Taken
    <3>10. Whole /\ sending'.at = "write" => GoesOn(sending'.todo, (2 + (d + 1)) + Len(wire'.up), all)
      BY <1>1, <2>1, <3>2, <3>8
    <3>11. QED
      BY <2>1, <3>1, <3>2, <3>3, <3>5, <3>6, <3>7, <3>8, <3>9, <3>10 DEF RequestInv
  <2>4. QED
    BY <2>2, <2>3
<1>11. QED
  BY <1>3, <1>4, <1>5, <1>6, <1>7, <1>8, <1>9, <1>10 DEF TransferNext, AppTransfers, ProxyTransfers

-----------------------------------------------------------------------------
(* What the proxy grants, record by record.                                *)
LEMMA GrantedIs ==
    ASSUME ShapeInv
    PROVE  /\ GrantedRecords \in Seq(Records) /\ Len(GrantedRecords) \in Nat
           /\ FirstLine(file.name) \in Seq(Cells)
           /\ file.op = "get" =>
                /\ GrantedRecords = Response(FirstLine(file.name))
                /\ Len(GrantedRecords) = 4 + Len(Content)
                /\ GrantedRecords[2] = Line(FirstLine(file.name)) /\ GrantedRecords[3] = Line(FileType)
                /\ GrantedRecords[4] = <<Encoded[Len(Content)]>>
                /\ \A i \in 1..Len(Content) : GrantedRecords[4 + i] = <<Content[i]>>
           /\ file.op = "stat" => Len(GrantedRecords) = 2 /\ GrantedRecords[2] = <<"stat">>
<1>1. FirstLine(file.name) \in Seq(Cells) /\ Ok \in Records /\ <<"stat">> \in Records
      /\ Len(Content) \in Nat
  BY CellsOf, FirstLineReads DEF ShapeInv
<1>2. CASE file.op = "get"
  BY <1>1, <1>2, ResponseIs DEF GrantedRecords
<1>3. CASE file.op = "stat"
  BY <1>1, <1>3 DEF GrantedRecords
<1>4. CASE file.op = "put"
  BY <1>1, <1>4 DEF GrantedRecords
<1>5. QED
  BY <1>2, <1>3, <1>4 DEF ShapeInv

(* How far the app is.                                                     *)
LEMMA GotIs ==
    ASSUME ShapeInv, PlaceInv
    PROVE  /\ Got \in Nat /\ Len(asking.answer.body) \in Nat
           /\ asking.at \in {"send", "status"} => Got = 0
           /\ asking.at \in {"name", "sent"} => Got = 1
           /\ asking.at = "type" => Got = 2
           /\ asking.at = "size" => Got = 3
           /\ asking.at = "body" => Got = (IF file.op = "get" THEN 4 ELSE 1) + Len(asking.answer.body)
<1>1. Len(asking.answer.body) \in Nat
  BY DEF ShapeInv
<1>2. asking.at = "body" => Got = (IF file.op = "get" THEN 4 ELSE 1) + Len(asking.answer.body)
  BY DEF Got
<1>3. asking.at # "body" => Got \in {0, 1, 2, 3}
  BY DEF Got
<1>4. /\ asking.at \in {"send", "status"} => Got = 0
      /\ asking.at \in {"name", "sent"} => Got = 1
      /\ asking.at = "type" => Got = 2
      /\ asking.at = "size" => Got = 3
  BY DEF Got
<1>5. \A n \in Nat : (IF file.op = "get" THEN 4 ELSE 1) + n \in Nat
  OBVIOUS
<1>6. Got \in Nat
  <2>1. CASE asking.at = "body"
    BY <1>1, <1>2, <1>5, <2>1
  <2>2. CASE asking.at # "body"
    BY <1>3, <2>2
  <2>3. QED
    BY <2>1, <2>2
<1>7. QED
  BY <1>1, <1>2, <1>4, <1>6

(* A record is read, if there is one.                                      *)
LEMMA GoesOnAfter ==
    ASSUME NEW w \in Seq(Records), NEW k \in Nat, NEW all, GoesOn(w, k, all)
    PROVE  /\ GoesOn(After(w), k + 1, all)
           /\ w # <<>> => /\ (k + 1) + Len(After(w)) = k + Len(w)
                          /\ k + 1 \in 1..Len(all) /\ Head(w) = all[k + 1]
<1>1. CASE w = <<>>
  BY <1>1 DEF GoesOn, After
<1>2. CASE w # <<>>
  <2>1. Len(Tail(w)) = Len(w) - 1 /\ Len(w) \in Nat /\ After(w) = Tail(w)
    BY <1>2 DEF After
  <2>2. \A m \in Nat : (k + 1) + (m - 1) = k + m
    OBVIOUS
  <2>3. GoesOn(Tail(w), k + 1, all) /\ k + 1 \in 1..Len(all) /\ Head(w) = all[k + 1]
    BY <1>2, GoesOnFrom
  <2>4. QED
    BY <2>1, <2>2, <2>3
<1>3. QED
  BY <1>1, <1>2

(* The refusal says nothing of success, and a part of an answer that does  *)
(* not neither.                                                            *)
NoOk(s) == \A i \in 1..Len(s) : s[i] # Ok

(* The refusal has no Ok in it, and no part of a sequence that has none.   *)
LEMMA NoOkOf ==
    /\ NoOk(<<Failed, Line(<<"message">>)>>) /\ NoOk(<<>>)
    /\ \A s \in Seq(Records) : NoOk(s) =>
         /\ NoOk(After(s)) /\ (s # <<>> => Head(s) # Ok /\ NoOk(Tail(s)))
         /\ \A j \in 0..Len(s) : NoOk(SubSeq(s, 1, j))
    /\ \A s, t \in Seq(Records) : NoOk(s) /\ NoOk(t) /\ t # <<>> => NoOk(Append(s, Head(t)))
<1>1. NoOk(<<Failed, Line(<<"message">>)>>)
  <2>1. Len(Line(<<"message">>)) = 2 /\ Len(Ok) = 1 /\ Failed[1] = "failed" /\ Ok[1] = "ok"
    BY DEF Line, Ok, Failed
  <2>2. Line(<<"message">>) # Ok /\ Failed # Ok
    BY <2>1
  <2>3. QED
    BY <2>2 DEF NoOk
<1>2. NoOk(<<>>)
  BY DEF NoOk
<1>3. ASSUME NEW s \in Seq(Records), NoOk(s)
      PROVE  /\ s # <<>> => Head(s) # Ok /\ NoOk(Tail(s))
             /\ \A j \in 0..Len(s) : NoOk(SubSeq(s, 1, j))
  <2>1. s # <<>> => 1 \in 1..Len(s) /\ Head(s) = s[1]
    OBVIOUS
  <2>2. s # <<>> => \A i \in 1..Len(Tail(s)) : i + 1 \in 1..Len(s) /\ Tail(s)[i] = s[i + 1]
    OBVIOUS
  <2>3. \A j \in 0..Len(s) : /\ Len(SubSeq(s, 1, j)) = j
                             /\ \A i \in 1..j : i \in 1..Len(s) /\ SubSeq(s, 1, j)[i] = s[i]
    OBVIOUS
  <2>4. QED
    BY <1>3, <2>1, <2>2, <2>3 DEF NoOk
<1>4. ASSUME NEW s \in Seq(Records), NEW t \in Seq(Records), NoOk(s), NoOk(t), t # <<>>
      PROVE  NoOk(Append(s, Head(t)))
  <2>1. Head(t) # Ok
    BY <1>3, <1>4
  <2>2. \A i \in 1..Len(Append(s, Head(t))) :
          (i \in 1..Len(s) /\ Append(s, Head(t))[i] = s[i]) \/ Append(s, Head(t))[i] = Head(t)
    BY <1>4
  <2>3. QED
    BY <1>4, <2>1, <2>2 DEF NoOk
<1>5. QED
  BY <1>1, <1>2, <1>3, <1>4 DEF After

-----------------------------------------------------------------------------
(* The answer: the proxy is still reading, or has refused, or what it has  *)
(* granted follows what the app has got.                                   *)
StillReading == ReadingNow /\ NotTold /\ wire.down = <<>>
HasRefused == ~ ReadingNow /\ NotTold /\ NoOk(wire.down) /\ NoOk(serving.todo)
HasGranted ==
    /\ ~ ReadingNow
    /\ asking.at # "end" => GoesOn(wire.down, Got, GrantedRecords)
    /\ Whole /\ serving.at = "write" => GoesOn(serving.todo, Got + Len(wire.down), GrantedRecords)
    /\ file.op = "put" => disk = Content

(* One of them is the case.                                                *)
LEMMA AnswerIs == AnswerInv <=> StillReading \/ HasRefused \/ HasGranted
BY DEF AnswerInv, StillReading, HasRefused, HasGranted, NoOk

(* Before anything was granted the app knows of nothing.                   *)
LEMMA ToldSteps ==
    ASSUME FieldsInv, ShapeInv, NotTold, AppTransfers, NoOk(wire.down)
    PROVE  /\ NotTold' /\ UNCHANGED <<file, serving, disk>>
           /\ wire'.down = wire.down \/ wire'.down = After(wire.down)
<1>1. CASE AppWrites \/ AppWrote
  BY <1>1, AppWritesEffect, AppWroteEffect DEF NotTold
<1>2. CASE AppSent
  BY <1>2, AppSentEffect DEF NotTold, AnswerKept, Answered
<1>3. CASE AppReadsStatus
  <2>1. wire.down = <<>> \/ Head(wire.down) # Ok
    BY NoOkOf DEF ShapeInv
  <2>2. /\ asking'.at = "end" /\ asking'.answer.code = 400 /\ UNCHANGED <<file, serving, disk>>
        /\ wire'.down = After(wire.down)
    BY <1>3, <2>1, AppReadsStatusEffect DEF Answered, Received
  <2>3. QED
    BY <2>2 DEF NotTold
<1>4. CASE AppPutDone \/ AppReadsName \/ AppReadsType \/ AppReadsSize \/ AppCopies
  <2>1. asking.at \in {"sent", "name", "type", "size", "body"}
    BY <1>4, AppPutDoneEffect, AppReadsNameEffect, AppReadsTypeEffect, AppReadsSizeEffect, AppCopiesEffect
  <2>2. QED
    BY <2>1 DEF NotTold
<1>5. QED
  BY <1>1, <1>2, <1>3, <1>4 DEF AppTransfers

(* Who is read to the end is refused, or granted what was asked for; an    *)
(* upload only when all of it is there.                                    *)
LEMMA AnswerFromReading ==
    ASSUME FieldsInv, ShapeInv, PlaceInv, RequestInv, StillReading, TransferNext
    PROVE  AnswerInv'
<1>1. CASE AppTransfers
  <2>1. NotTold' /\ UNCHANGED <<file, serving, disk>> /\ wire'.down = <<>>
    BY <1>1, NoOkOf, ToldSteps DEF StillReading, After
  <2>2. StillReading'
    BY <2>1 DEF StillReading, ReadingNow
  <2>3. QED
    BY <2>2 DEF AnswerInv, StillReading
<1>2. CASE Cut
  <2>1. wire'.down = <<>> /\ UNCHANGED <<asking, serving>>
    <3>1. PICK j \in 0..Len(wire.down) : wire'.down = SubSeq(wire.down, 1, j)
      BY <1>2, CutEffect
    <3>2. wire.down = <<>>
      BY DEF StillReading
    <3>3. j = 0 /\ SubSeq(<<>>, 1, 0) = <<>>
      BY <3>1, <3>2
    <3>4. QED
      BY <1>2, <3>1, <3>2, <3>3, CutEffect
  <2>2. StillReading'
    BY <2>1 DEF StillReading, ReadingNow, NotTold
  <2>3. QED
    BY <2>2 DEF AnswerInv, StillReading
<1>3. ASSUME Refused, UNCHANGED asking, wire'.down = wire.down
      PROVE  AnswerInv'
  <2>1. ~ ReadingNow' /\ NotTold' /\ NoOk(wire'.down) /\ NoOk(serving'.todo)
    BY <1>3, NoOkOf DEF StillReading, Refused, ReadingNow, NotTold
  <2>2. QED
    BY <2>1 DEF AnswerInv, NoOk
<1>4. ASSUME serving'.at \in {"size", "look", "copy"}, UNCHANGED asking, wire'.down = wire.down
      PROVE  AnswerInv'
  BY <1>4 DEF AnswerInv, StillReading, ReadingNow, NotTold
<1>5. ASSUME serving'.at = "write", UNCHANGED <<file, asking, ends>>, wire'.down = wire.down,
             Whole => serving'.todo = GrantedRecords, file.op = "put" => disk' = Content
      PROVE  AnswerInv'
  <2>1. /\ ~ ReadingNow' /\ GoesOn(wire'.down, Got', GrantedRecords')
    BY <1>5 DEF StillReading, ReadingNow, GoesOn
  <2>2. ASSUME Whole' PROVE GoesOn(serving'.todo, Got' + Len(wire'.down), GrantedRecords')
    <3>1. Whole /\ asking.at # "end" /\ Len(wire'.down) = 0
      BY <1>5, <2>2 DEF Whole, PlaceInv, StillReading
    <3>2. Got' = 0
      BY <1>5, <3>1 DEF StillReading, NotTold, Got
    <3>3. GrantedRecords' = GrantedRecords /\ serving'.todo = GrantedRecords
      BY <1>5, <3>1 DEF GrantedRecords
    <3>4. GoesOn(GrantedRecords, 0, GrantedRecords)
      BY GrantedIs DEF GoesOn
    <3>5. QED
      BY <3>1, <3>2, <3>3, <3>4
  <2>3. QED
    BY <1>5, <2>1, <2>2 DEF AnswerInv
<1>6. CASE ReadPath
  <2>1. UNCHANGED asking /\ wire'.down = wire.down /\ serving'.at \in {"size", "look", "copy"}
    BY <1>6, ReadPathEffect DEF Fetched
  <2>2. QED
    BY <1>4, <2>1
<1>7. CASE ReadSize
  <2>1. UNCHANGED asking /\ wire'.down = wire.down /\ (serving'.at \in {"size", "look", "copy"} \/ Refused)
    BY <1>7, ReadSizeEffect DEF Fetched
  <2>2. QED
    BY <1>3, <1>4, <2>1
<1>8. CASE Look
  <2>1. CASE Refused
    BY <1>3, <1>8, <2>1, LookEffect
  <2>2. CASE file.op = "put" /\ ~ Refused
    BY <1>4, <1>8, <2>2, LookEffect
  <2>3. CASE file.op # "put" /\ ~ Refused
    <3>1. /\ serving.at = "look" /\ serving'.at = "write" /\ UNCHANGED <<file, asking, wire, ends>>
          /\ file.op = "get" => serving'.todo = Response(serving.path)
          /\ file.op = "stat" => serving'.todo = <<Ok, <<"stat">> >>
      BY <1>8, <2>3, LookEffect
    <3>2. Whole => serving'.todo = GrantedRecords
      BY ZenonT(30), <2>3, <3>1 DEF GrantedRecords, RequestInv, ShapeInv
    <3>3. QED
      BY <1>5, <2>3, <3>1, <3>2
  <2>4. QED
    BY <2>1, <2>2, <2>3
<1>9. CASE Copy
  <2>1. CASE Refused
    BY <1>3, <1>9, <2>1, CopyEffect DEF Fetched
  <2>2. CASE serving'.at = "copy"
    BY <1>4, <1>9, <2>2, CopyEffect DEF Fetched, Refused
  <2>3. CASE ~ Refused /\ serving'.at # "copy"
    <3>1. /\ serving.at = "copy" /\ Encoded[Len(disk)] = serving.size /\ serving'.at = "write"
          /\ serving'.todo = <<Ok>> /\ UNCHANGED <<file, asking, ends, wire, disk>>
      BY <1>9, <2>3, CopyEffect
    <3>2. /\ file.op = "put" /\ disk \in Seq(Cells) /\ GoesOn(disk, 0, Content)
          /\ Encoded[Len(disk)] = Encoded[Len(Content)] /\ Len(disk) \in Nat
      BY <3>1 DEF RequestInv
    <3>3. Content \in Seq(Cells) /\ Len(Content) \in Nat
      BY CellsOf
    <3>4. \A i \in 1..Len(disk) : i \in 1..Len(Content) /\ disk[i] = Content[i]
      BY <3>2 DEF GoesOn
    <3>5. Len(disk) \in 0..Len(Content) /\ Len(Content) \in 0..Len(Content)
      <4>1. Len(disk) = 0 \/ Len(disk) \in 1..Len(disk)
        BY <3>2
      <4>2. QED
        BY <3>2, <3>3, <3>4, <4>1
    <3>6. Len(disk) = Len(Content)
      BY <3>2, <3>5, TransferAssumption
    <3>7. disk = Content
      BY <3>2, <3>3, <3>4, <3>6
    <3>8. GrantedRecords = <<Ok>>
      BY <3>2 DEF GrantedRecords
    <3>9. QED
      BY <1>5, <3>1, <3>7, <3>8
  <2>4. QED
    BY <2>1, <2>2, <2>3
<1>10. CASE ProxyWrites \/ ProxyCloses
  <2>1. serving.at = "write"
    BY <1>10, ProxyWritesEffect, ProxyClosesEffect
  <2>2. QED
    BY <2>1 DEF StillReading, ReadingNow
<1>11. QED
  BY <1>1, <1>2, <1>6, <1>7, <1>8, <1>9, <1>10 DEF TransferNext, ProxyTransfers

(* A refusal stays one.                                                    *)
LEMMA AnswerFromRefused ==
    ASSUME FieldsInv, ShapeInv, HasRefused, TransferNext
    PROVE  AnswerInv'
<1>1. /\ NoOk(wire.down) /\ NoOk(serving.todo) /\ wire.down \in Seq(Records) /\ serving.todo \in Seq(Records)
      /\ ~ ReadingNow /\ NotTold
  BY DEF HasRefused, ShapeInv
<1>2. SUFFICES ~ ReadingNow' /\ NotTold' /\ NoOk(wire'.down) /\ NoOk(serving'.todo)
  BY DEF AnswerInv, NoOk
<1>3. CASE AppTransfers
  <2>1. NotTold' /\ UNCHANGED serving /\ (wire'.down = wire.down \/ wire'.down = After(wire.down))
    BY <1>1, <1>3, ToldSteps
  <2>2. QED
    BY <1>1, <2>1, NoOkOf DEF ReadingNow
<1>4. CASE ProxyWrites
  BY ZenonT(30), <1>1, <1>4, NoOkOf, ProxyWritesEffect DEF ReadingNow, NotTold
<1>5. CASE ProxyCloses
  BY <1>1, <1>5, NoOkOf, ProxyClosesEffect DEF ReadingNow, NotTold
<1>6. CASE Cut
  BY <1>1, <1>6, NoOkOf, CutEffect DEF ReadingNow, NotTold
<1>7. CASE ReadPath \/ ReadSize \/ Look \/ Copy
  <2>1. serving.at \in {"path", "size", "look", "copy"}
    BY <1>7, ReadPathEffect, ReadSizeEffect, LookEffect, CopyEffect
  <2>2. QED
    BY <1>1, <2>1 DEF ReadingNow
<1>8. QED
  BY <1>3, <1>4, <1>5, <1>6, <1>7 DEF TransferNext, ProxyTransfers

(* What comes after the header is copied, a cell in each record.           *)
LEMMA CopiedIs ==
    ASSUME ShapeInv, PlaceInv, HasGranted, asking.at = "body", wire.down # <<>>
    PROVE  /\ Head(wire.down) \in Seq(Cells) /\ Len(Head(wire.down)) = 1
           /\ file.op \in {"get", "stat"}
           /\ file.op = "get" => /\ Len(asking.answer.body) + 1 \in 1..Len(Content)
                                 /\ Head(wire.down) = <<Content[Len(asking.answer.body) + 1]>>
           /\ file.op = "stat" => Len(asking.answer.body) = 0 /\ Head(wire.down) = <<"stat">>
<1> DEFINE n == Len(asking.answer.body)
           r == Head(wire.down)
<1>1. file.op \in {"get", "stat"}
  BY DEF ShapeInv, PlaceInv
<1>2. n \in Nat /\ Got \in Nat /\ Got = (IF file.op = "get" THEN 4 ELSE 1) + n /\ Len(Content) \in Nat
  BY GotIs, CellsOf
<1>3. Got + 1 \in 1..Len(GrantedRecords) /\ r = GrantedRecords[Got + 1]
  <2>1. wire.down \in Seq(Records) /\ GoesOn(wire.down, Got, GrantedRecords)
    BY DEF HasGranted, ShapeInv
  <2>2. QED
    BY <1>2, <2>1, GoesOnAfter
<1>4. r \in Seq(Cells)
  BY RecordsOf DEF ShapeInv
<1> HIDE DEF n, r
<1>5. CASE file.op = "get"
  <2>1. Got + 1 = 4 + (n + 1) /\ Len(GrantedRecords) = 4 + Len(Content)
    BY <1>2, <1>5, GrantedIs
  <2>2. n + 1 \in 1..Len(Content)
    BY <1>2, <1>3, <2>1
  <2>3. r = <<Content[n + 1]>>
    BY <1>3, <1>5, <2>1, <2>2, GrantedIs
  <2>4. QED
    BY <1>1, <1>4, <1>5, <2>2, <2>3 DEF n, r
<1>6. CASE file.op = "stat"
  <2>1. Got + 1 = n + 2 /\ Len(GrantedRecords) = 2 /\ GrantedRecords[2] = <<"stat">>
    BY <1>2, <1>6, GrantedIs
  <2>2. n = 0
    BY <1>2, <1>3, <2>1
  <2>3. r = <<"stat">>
    BY <1>3, <2>1, <2>2
  <2>4. QED
    BY <1>1, <1>4, <1>6, <2>2, <2>3 DEF n, r
<1>7. QED
  BY <1>1, <1>5, <1>6

(* What was granted is written, and is read, in its order.                 *)
LEMMA AnswerFromGranted ==
    ASSUME FieldsInv, ShapeInv, PlaceInv, HasGranted, TransferNext
    PROVE  AnswerInv'
<1> DEFINE all == GrantedRecords
           op == file.op
<1>1. /\ Got \in Nat /\ wire.down \in Seq(Records) /\ serving.todo \in Seq(Records) /\ ~ ReadingNow
      /\ Len(wire.down) \in Nat /\ Len(all) \in Nat
      /\ asking.at # "end" => GoesOn(wire.down, Got, all)
      /\ Whole /\ serving.at = "write" => GoesOn(serving.todo, Got + Len(wire.down), all)
      /\ op = "put" => disk = Content
      /\ Whole => asking.at # "end"
  <2>1. Got \in Nat /\ Len(all) \in Nat
    BY GotIs, GrantedIs
  <2>2. wire.down \in Seq(Records) /\ serving.todo \in Seq(Records) /\ Len(wire.down) \in Nat
    BY DEF ShapeInv
  <2>3. Whole => asking.at # "end"
    BY DEF PlaceInv, Whole
  <2>4. QED
    BY <2>1, <2>2, <2>3 DEF HasGranted
<1>2. UNCHANGED file => all' = all
  BY DEF GrantedRecords
<1> HIDE DEF all
(* A step that reads no record.                                            *)
<1>3. ASSUME UNCHANGED <<file, serving, disk>>, Whole' => Whole, wire'.down = wire.down,
             asking'.at = "end" \/ (Got' = Got /\ asking.at # "end"),
             asking'.at = "end" => ~ Whole'
      PROVE  AnswerInv'
  <2>1. ~ ReadingNow' /\ all' = all
    BY <1>1, <1>2, <1>3 DEF ReadingNow
  <2>2. asking'.at # "end" => GoesOn(wire'.down, Got', all')
    BY <1>1, <1>3, <2>1
  <2>3. Whole' /\ serving'.at = "write" => GoesOn(serving'.todo, Got' + Len(wire'.down), all')
    BY <1>1, <1>3, <2>1
  <2>4. QED
    BY <1>1, <1>3, <2>1, <2>2, <2>3 DEF AnswerInv, all
(* A step that reads the next.                                             *)
<1>4. ASSUME UNCHANGED <<file, serving, disk>>, Whole' => Whole, wire'.down = After(wire.down),
             wire.down # <<>> \/ ~ Whole', asking.at # "end", Got' = Got + 1
      PROVE  AnswerInv'
  <2>1. ~ ReadingNow' /\ all' = all
    BY <1>1, <1>2, <1>4 DEF ReadingNow
  <2>2. /\ GoesOn(After(wire.down), Got + 1, all)
        /\ wire.down # <<>> => (Got + 1) + Len(After(wire.down)) = Got + Len(wire.down)
    BY <1>1, <1>4, GoesOnAfter
  <2>3. GoesOn(wire'.down, Got', all')
    BY <1>4, <2>1, <2>2
  <2>4. Whole' /\ serving'.at = "write" => GoesOn(serving'.todo, Got' + Len(wire'.down), all')
    BY <1>1, <1>4, <2>1, <2>2
  <2>5. QED
    BY <1>1, <1>4, <2>1, <2>3, <2>4 DEF AnswerInv, all
(* The app ends.                                                           *)
<1>5. ASSUME UNCHANGED <<file, serving, disk>>, asking'.at = "end", "app" \notin ends'
      PROVE  AnswerInv'
  <2>1. ~ ReadingNow' /\ ~ Whole'
    BY <1>1, <1>5 DEF ReadingNow, Whole
  <2>2. QED
    BY <1>1, <1>5, <2>1 DEF AnswerInv
<1>6. asking.at \notin {"body", "end"} => asking.answer.body = <<>>
  BY DEF PlaceInv
<1>7. CASE AppWrites \/ AppWrote
  <2>1. UNCHANGED <<file, asking, serving, disk, ends>> /\ wire'.down = wire.down
    BY <1>7, AppWritesEffect, AppWroteEffect
  <2>2. Got' = Got /\ (Whole' <=> Whole)
    BY <2>1 DEF Got, Whole
  <2>3. QED
    <3>1. ~ ReadingNow' /\ all' = all
      BY <1>1, <1>2, <2>1 DEF ReadingNow
    <3>2. asking'.at # "end" => GoesOn(wire'.down, Got', all')
      BY <1>1, <2>1, <2>2, <3>1
    <3>3. Whole' /\ serving'.at = "write" => GoesOn(serving'.todo, Got' + Len(wire'.down), all')
      BY <1>1, <2>1, <2>2, <3>1
    <3>4. QED
      BY <1>1, <2>1, <3>1, <3>2, <3>3 DEF AnswerInv, all
<1>8. CASE AppSent
  <2>1. CASE Answered(400)
    BY <1>5, <1>8, <2>1, AppSentEffect DEF Answered
  <2>2. CASE ~ Answered(400)
    <3>1. /\ UNCHANGED <<file, serving, disk, ends>> /\ wire'.down = wire.down
          /\ asking.at = "send" /\ asking'.at = "status"
      BY <1>8, <2>2, AppSentEffect
    <3>2. Got' = Got /\ (Whole' <=> Whole)
      BY <3>1 DEF Got, Whole
    <3>3. QED
      BY <1>3, <3>1, <3>2
  <2>3. QED
    BY <2>1, <2>2
<1>9. CASE AppReadsStatus
  <2>1. CASE Answered(400)
    BY <1>5, <1>9, <2>1, AppReadsStatusEffect DEF Answered
  <2>2. CASE ~ Answered(400)
    <3>1. /\ UNCHANGED <<file, serving, disk, ends>> /\ wire'.down = After(wire.down) /\ wire.down # <<>>
          /\ asking.at = "status"
          /\ asking'.at = "sent" \/ asking'.at = "name" \/ (op = "stat" /\ asking'.at = "body")
          /\ asking'.answer.body = asking.answer.body
      <4>1. /\ UNCHANGED <<file, serving, disk, ends>> /\ wire'.down = After(wire.down)
            /\ wire.down # <<>> /\ asking.at = "status"
        BY <1>9, <2>2, AppReadsStatusEffect DEF Received
      <4>2. asking'.at = "sent" \/ asking'.at = "name" \/ (op = "stat" /\ asking'.at = "body")
        BY <1>9, <2>2, AppReadsStatusEffect
      <4>3. asking'.answer.body = asking.answer.body
        BY <1>9, <2>2, AppReadsStatusEffect DEF AnswerKept
      <4>4. QED
        BY <4>1, <4>2, <4>3
    <3>2. Got = 0 /\ Len(<<>>) = 0
      BY <3>1, GotIs
    <3>3. asking'.answer.body = <<>>
      BY <1>6, <3>1
    <3>4. Got' = 1
      <4>1. CASE asking'.at = "sent" \/ asking'.at = "name"
        BY <4>1 DEF Got
      <4>2. CASE op = "stat" /\ asking'.at = "body"
        BY <3>1, <3>2, <3>3, <4>2 DEF Got
      <4>3. QED
        BY <3>1, <4>1, <4>2
    <3>5. Whole' <=> Whole
      BY <3>1 DEF Whole
    <3>6. QED
      BY <1>4, <3>1, <3>2, <3>4, <3>5
  <2>3. QED
    BY <2>1, <2>2
<1>10. CASE AppPutDone
  BY <1>5, <1>10, AppPutDoneEffect DEF Answered
<1>11. CASE AppReadsName
  <2>1. /\ UNCHANGED <<file, serving, disk, ends>> /\ wire'.down = After(wire.down)
        /\ wire.down # <<>> \/ "proxy" \notin ends
        /\ asking.at = "name" /\ asking'.at = "type"
    BY <1>11, AppReadsNameEffect DEF Received, Ready
  <2>2. Got = 1 /\ Got' = 2 /\ (Whole' <=> Whole) /\ (wire.down # <<>> \/ ~ Whole')
    BY <2>1, GotIs DEF Got, Whole
  <2>3. QED
    BY <1>4, <2>1, <2>2
<1>12. CASE AppReadsType
  <2>1. /\ UNCHANGED <<file, serving, disk, ends>> /\ wire'.down = After(wire.down)
        /\ wire.down # <<>> \/ "proxy" \notin ends
        /\ asking.at = "type" /\ asking'.at = "size"
    BY <1>12, AppReadsTypeEffect DEF Received, Ready
  <2>2. Got = 2 /\ Got' = 3 /\ (Whole' <=> Whole) /\ (wire.down # <<>> \/ ~ Whole')
    BY <2>1, GotIs DEF Got, Whole
  <2>3. QED
    BY <1>4, <2>1, <2>2
<1>13. CASE AppReadsSize
  <2>1. CASE Answered(400)
    BY <1>5, <1>13, <2>1, AppReadsSizeEffect DEF Answered
  <2>2. CASE ~ Answered(400)
    <3>1. /\ UNCHANGED <<file, serving, disk, ends>> /\ wire'.down = After(wire.down) /\ wire.down # <<>>
          /\ asking.at = "size" /\ asking'.at = "body" /\ asking'.answer.body = asking.answer.body
      BY <1>13, <2>2, AppReadsSizeEffect DEF Received
    <3>2. op = "get" /\ Got = 3 /\ Len(<<>>) = 0 /\ asking'.answer.body = <<>>
      BY <1>6, <3>1, GotIs DEF PlaceInv
    <3>3. Got' = 4
      BY <3>1, <3>2 DEF Got
    <3>4. Whole' <=> Whole
      BY <3>1 DEF Whole
    <3>5. QED
      BY <1>4, <3>1, <3>2, <3>3, <3>4
  <2>3. QED
    BY <2>1, <2>2
<1>14. CASE AppCopies
  <2>1. CASE asking'.at = "end"
    BY <1>5, <1>14, <2>1, AppCopiesEffect
  <2>2. CASE asking'.at # "end"
    <3>1. /\ UNCHANGED <<file, serving, disk, ends>> /\ wire'.down = After(wire.down) /\ wire.down # <<>>
          /\ asking.at = "body" /\ asking'.at = "body"
          /\ asking'.answer.body = asking.answer.body \o Head(wire.down)
      BY <1>14, <2>2, AppCopiesEffect DEF Received
    <3>2. Len(Head(wire.down)) = 1 /\ Head(wire.down) \in Seq(Cells)
      BY <3>1, CopiedIs
    <3>3. Len(asking'.answer.body) = Len(asking.answer.body) + 1
      <4>1. asking.answer.body \in Seq(Cells)
        BY DEF ShapeInv
      <4>2. Len(asking'.answer.body) = Len(asking.answer.body) + Len(Head(wire.down))
        BY <3>1, <3>2, <4>1, Joined
      <4>3. QED
        BY <3>2, <4>2
    <3>4. Got' = Got + 1
      <4>1. Len(asking.answer.body) \in Nat /\ Got = (IF op = "get" THEN 4 ELSE 1) + Len(asking.answer.body)
        BY <3>1, GotIs
      <4>2. Got' = (IF op = "get" THEN 4 ELSE 1) + (Len(asking.answer.body) + 1)
        BY <3>1, <3>3 DEF Got
      <4>3. \A k, n \in Nat : k + (n + 1) = (k + n) + 1
        OBVIOUS
      <4>4. QED
        BY <4>1, <4>2, <4>3
    <3>5. Whole' <=> Whole
      BY <3>1 DEF Whole
    <3>6. QED
      BY <1>4, <3>1, <3>4, <3>5
  <2>3. QED
    BY <2>1, <2>2
<1>15. CASE ProxyWrites
  <2>1. /\ UNCHANGED <<file, asking, ends, disk>> /\ serving.at = "write" /\ serving'.at = "write"
        /\ Whole /\ serving.todo # <<>> /\ serving'.todo = Tail(serving.todo)
        /\ wire'.down = Append(wire.down, Head(serving.todo))
    BY <1>15, ProxyWritesEffect
  <2>2. /\ GoesOn(wire'.down, Got, all) /\ GoesOn(serving'.todo, Got + Len(wire'.down), all)
    BY <1>1, <2>1, GoesOnTo
  <2>3. Got' = Got /\ all' = all /\ ~ ReadingNow'
    BY <1>2, <2>1 DEF Got, ReadingNow
  <2>4. QED
    BY <1>1, <2>1, <2>2, <2>3 DEF AnswerInv, all
<1>16. CASE ProxyCloses \/ Cut
  <2>1. /\ UNCHANGED <<file, asking, disk>> /\ ~ Whole'
        /\ \E j \in 0..Len(wire.down) : wire'.down = wire.down \/ wire'.down = SubSeq(wire.down, 1, j)
        /\ serving'.at = "end" \/ UNCHANGED serving
    <3>1. CASE Cut
      BY <3>1, CutEffect DEF Whole
    <3>2. CASE ProxyCloses
      <4>1. 0 \in 0..Len(wire.down) /\ SubSeq(wire.down, 1, 0) = <<>>
        BY <1>1
      <4>2. QED
        BY <3>2, <4>1, ProxyClosesEffect DEF Whole
    <3>3. QED
      BY <1>16, <3>1, <3>2
  <2>2. asking.at # "end" => GoesOn(wire'.down, Got, all)
    BY <1>1, <2>1, GoesOnFrom
  <2>3. Got' = Got /\ all' = all /\ ~ ReadingNow'
    BY <1>1, <1>2, <2>1 DEF Got, ReadingNow
  <2>4. QED
    BY <1>1, <2>1, <2>2, <2>3 DEF AnswerInv, all
<1>17. CASE ReadPath \/ ReadSize \/ Look \/ Copy
  <2>1. serving.at \in {"path", "size", "look", "copy"}
    BY <1>17, ReadPathEffect, ReadSizeEffect, LookEffect, CopyEffect
  <2>2. QED
    BY <1>1, <2>1 DEF ReadingNow
<1>18. QED
  BY <1>7, <1>8, <1>9, <1>10, <1>11, <1>12, <1>13, <1>14, <1>15, <1>16, <1>17
  DEF TransferNext, AppTransfers, ProxyTransfers

(* The steps keep the answer what it is.                                   *)
LEMMA AnswerStep ==
    ASSUME FieldsInv, ShapeInv, PlaceInv, RequestInv, AnswerInv, TransferNext
    PROVE  AnswerInv'
BY AnswerIs, AnswerFromReading, AnswerFromRefused, AnswerFromGranted

-----------------------------------------------------------------------------
(* A connection that is dead stays dead.                                   *)
LEMMA DeadStays ==
    ASSUME FieldsInv, ShapeInv, TransferNext, Dead
    PROVE  Dead'
<1>1. wire.down = <<>> /\ "proxy" \notin ends /\ ~ Whole
  BY DEF Dead, Whole
<1>2. After(<<>>) = <<>>
  BY DEF After
<1>3. CASE AppWrites \/ AppWrote \/ AppSent \/ AppPutDone
  BY <1>1, <1>3, AppWritesEffect, AppWroteEffect, AppSentEffect, AppPutDoneEffect DEF Answered, Dead
<1>4. CASE AppReadsStatus \/ AppReadsName \/ AppReadsType
  BY <1>1, <1>2, <1>4, AppReadsStatusEffect, AppReadsNameEffect, AppReadsTypeEffect
  DEF Answered, Received, Dead
<1>5. CASE AppReadsSize \/ AppCopies
  BY <1>1, <1>2, <1>5, AppReadsSizeEffect, AppCopiesEffect DEF Answered, Received, Dead
<1>6. CASE ReadPath \/ ReadSize
  BY <1>1, <1>6, ReadPathEffect, ReadSizeEffect DEF Fetched, Dead
<1>7. CASE Look \/ Copy
  BY <1>1, <1>7, LookEffect, CopyEffect DEF Fetched, Dead
<1>8. CASE ProxyWrites \/ ProxyCloses
  BY <1>1, <1>8, ProxyWritesEffect, ProxyClosesEffect DEF Dead
<1>9. CASE Cut
  <2>1. PICK j \in 0..Len(wire.down) : wire'.down = SubSeq(wire.down, 1, j)
    BY <1>9, CutEffect
  <2>2. j = 0 /\ SubSeq(<<>>, 1, 0) = <<>>
    BY <1>1, <2>1
  <2>3. QED
    BY <1>1, <1>9, <2>1, <2>2, CutEffect DEF Dead
<1>10. QED
  BY <1>3, <1>4, <1>5, <1>6, <1>7, <1>8, <1>9 DEF TransferNext, AppTransfers, ProxyTransfers

(* The header of a download is that of the file, and then its content.     *)
LEMMA HeadStep ==
    ASSUME FieldsInv, ShapeInv, PlaceInv, AnswerInv, HeadInv, TransferNext
    PROVE  HeadInv'
<1>1. asking.at \in {"name", "type", "size", "body"} => HasGranted
  BY AnswerIs DEF StillReading, HasRefused, NotTold, PlaceInv
<1>2. /\ wire.down \in Seq(Records) /\ Got \in Nat
      /\ HasGranted /\ asking.at # "end" => GoesOn(wire.down, Got, GrantedRecords)
  BY GotIs DEF ShapeInv, HasGranted
<1>3. UNCHANGED file
  BY AppWritesEffect, AppWroteEffect, AppSentEffect, AppReadsStatusEffect, AppPutDoneEffect,
     AppReadsNameEffect, AppReadsTypeEffect, AppReadsSizeEffect, AppCopiesEffect, ReadPathEffect,
     ReadSizeEffect, LookEffect, CopyEffect, ProxyWritesEffect, ProxyClosesEffect, CutEffect
  DEF TransferNext, AppTransfers, ProxyTransfers
<1>4. asking.at \notin {"body", "end"} => asking.answer.code # 200 /\ asking.answer.body = <<>>
  BY DEF PlaceInv
<1>5. SUFFICES ASSUME file.op = "get" PROVE HeadInv'
  BY <1>3 DEF HeadInv
<1>6. CASE UNCHANGED asking
  BY <1>3, <1>5, <1>6, DeadStays DEF HeadInv
<1>7. CASE AppSent
  BY <1>4, <1>7, AppSentEffect DEF HeadInv, AnswerKept, Answered
<1>8. CASE AppPutDone
  BY <1>5, <1>8, AppPutDoneEffect DEF PlaceInv
<1>9. CASE AppReadsStatus
  BY <1>4, <1>5, <1>9, AppReadsStatusEffect DEF HeadInv, AnswerKept, Answered
<1>10. CASE AppReadsName
  <2>1. /\ asking.at = "name" /\ wire'.down = After(wire.down) /\ UNCHANGED <<file, ends>>
        /\ wire.down # <<>> \/ "proxy" \notin ends
        /\ asking'.at = "type" /\ asking'.answer.name = NextString(wire.down)
        /\ asking'.answer.code = asking.answer.code
    BY <1>10, AppReadsNameEffect DEF Received, Ready
  <2>2. CASE wire.down = <<>>
    <3>1. Dead'
      BY <2>1, <2>2 DEF Dead, After
    <3>2. QED
      BY <1>4, <2>1, <3>1 DEF HeadInv
  <2>3. CASE wire.down # <<>>
    <3> DEFINE p == FirstLine(file.name)
    <3>1. Head(wire.down) = Line(p)
      <4>1. Got = 1 /\ GrantedRecords[2] = Line(p)
        BY <1>5, <2>1, GotIs, GrantedIs
      <4>2. GoesOn(wire.down, 1, GrantedRecords) 
        <5>1. HasGranted /\ asking.at # "end"
          BY <1>1, <2>1
        <5>2. GoesOn(wire.down, Got, GrantedRecords)
          BY <1>2, <5>1
        <5>3. QED
          BY <4>1, <5>2
      <4>3. Head(wire.down) = GrantedRecords[1 + 1]
        BY <1>2, <2>3, <4>2, GoesOnFrom
      <4>4. QED
        BY <4>1, <4>2, <4>3
    <3>2. p \in Seq(Cells) /\ ~ HasNewline(p)
      BY CellsOf, FirstLineReads DEF ShapeInv
    <3>3. FirstLine(Line(p)) = p
      <4> HIDE DEF p
      <4>1. FirstLine(Line(p)) = FirstLine(p)
        BY <3>2, FirstLineReads
      <4>2. FirstLine(p) = p
        BY <3>2 DEF FirstLine
      <4>3. QED
        BY <4>1, <4>2
    <3>4. asking'.answer.name = FirstLine(file.name)
      BY <2>1, <2>3, <3>1, <3>3 DEF NextString
    <3>5. QED
      BY <1>3, <1>4, <2>1, <3>4 DEF HeadInv
  <2>4. QED
    BY <2>2, <2>3
<1>11. CASE AppReadsType
  <2>1. /\ asking.at = "type" /\ wire'.down = After(wire.down) /\ UNCHANGED <<file, ends>>
        /\ wire.down # <<>> \/ "proxy" \notin ends
        /\ asking'.at = "size" /\ asking'.answer.type = NextString(wire.down)
        /\ asking'.answer.code = asking.answer.code /\ asking'.answer.name = asking.answer.name
    BY <1>11, AppReadsTypeEffect DEF Received, Ready
  <2>2. CASE wire.down = <<>>
    <3>1. Dead'
      BY <2>1, <2>2 DEF Dead, After
    <3>2. QED
      BY <1>4, <2>1, <3>1 DEF HeadInv
  <2>3. CASE wire.down # <<>>
    <3>1. Head(wire.down) = Line(FileType)
      <4>1. Got = 2 /\ GrantedRecords[3] = Line(FileType)
        BY <1>5, <2>1, GotIs, GrantedIs
      <4>2. GoesOn(wire.down, 2, GrantedRecords) 
        <5>1. HasGranted /\ asking.at # "end"
          BY <1>1, <2>1
        <5>2. GoesOn(wire.down, Got, GrantedRecords)
          BY <1>2, <5>1
        <5>3. QED
          BY <4>1, <5>2
      <4>3. Head(wire.down) = GrantedRecords[2 + 1]
        BY <1>2, <2>3, <4>2, GoesOnFrom
      <4>4. QED
        BY <4>1, <4>2, <4>3
    <3>2. FileType \in Seq(Cells) /\ ~ HasNewline(FileType)
      BY CellsOf, TransferAssumption DEF HasNewline
    <3>3. FirstLine(Line(FileType)) = FileType
      BY <3>2, FirstLineReads DEF FirstLine
    <3>4. asking'.answer.type = FileType
      BY <2>1, <2>3, <3>1, <3>3 DEF NextString
    <3>5. asking.answer.name = FirstLine(file.name)
      BY <1>5, <2>1, <2>3 DEF HeadInv, Dead
    <3>6. QED
      BY <1>3, <1>4, <2>1, <3>4, <3>5 DEF HeadInv
  <2>4. QED
    BY <2>2, <2>3
<1>12. CASE AppReadsSize
  <2>1. CASE wire.down = <<>>
    BY <1>12, <2>1, AppReadsSizeEffect DEF HeadInv, Answered
  <2>2. CASE wire.down # <<>>
    <3>1. /\ asking.at = "size" /\ asking'.at = "body" /\ asking'.answer.size = Head(Head(wire.down))
          /\ asking'.answer.body = asking.answer.body
          /\ asking'.answer.name = asking.answer.name /\ asking'.answer.type = asking.answer.type
      BY <1>12, <2>2, AppReadsSizeEffect
    <3>2. Head(wire.down) = <<Encoded[Len(Content)]>>
      <4>1. Got = 3 /\ GrantedRecords[4] = <<Encoded[Len(Content)]>>
        BY <1>5, <3>1, GotIs, GrantedIs
      <4>2. GoesOn(wire.down, 3, GrantedRecords) 
        <5>1. HasGranted /\ asking.at # "end"
          BY <1>1, <3>1
        <5>2. GoesOn(wire.down, Got, GrantedRecords)
          BY <1>2, <5>1
        <5>3. QED
          BY <4>1, <5>2
      <4>3. Head(wire.down) = GrantedRecords[3 + 1]
        BY <1>2, <2>2, <4>2, GoesOnFrom
      <4>4. QED
        BY <4>1, <4>2, <4>3
    <3>3. asking.answer.name = FirstLine(file.name) /\ asking.answer.type = FileType
      BY <1>5, <2>2, <3>1 DEF HeadInv, Dead
    <3>4. asking'.answer.body = <<>> /\ GoesOn(<<>>, 0, Content)
      BY <1>4, <3>1 DEF GoesOn
    <3>5. asking'.answer.size = Encoded[Len(Content)]
      BY <3>1, <3>2
    <3>6. QED
      BY <1>3, <3>1, <3>3, <3>4, <3>5 DEF HeadInv
  <2>3. QED
    BY <2>1, <2>2
<1>13. CASE AppCopies
  <2>1. /\ asking.at = "body" /\ asking.answer.code = 200
        /\ asking'.answer.code = asking.answer.code /\ asking'.answer.name = asking.answer.name
        /\ asking'.answer.type = asking.answer.type /\ asking'.answer.size = asking.answer.size
    BY <1>13, AppCopiesEffect DEF PlaceInv
  <2>2. /\ asking.answer.name = FirstLine(file.name) /\ asking.answer.type = FileType
        /\ asking.answer.size = Encoded[Len(Content)] /\ GoesOn(asking.answer.body, 0, Content)
    BY <1>5, <2>1 DEF HeadInv
  <2>3. GoesOn(asking'.answer.body, 0, Content)
    <3>1. CASE wire.down = <<>>
      BY <1>13, <2>2, <3>1, AppCopiesEffect
    <3>2. CASE wire.down # <<>>
      <4> DEFINE b == asking.answer.body
                 n == Len(b)
                 r == Head(wire.down)
                 t == asking'.answer.body
      <4>1. n + 1 \in 1..Len(Content) /\ r = <<Content[n + 1]>> /\ r \in Seq(Cells) /\ Len(r) = 1
        BY <1>1, <1>5, <2>1, <3>2, CopiedIs
      <4>2. t = b \o r
        BY <1>13, <3>2, AppCopiesEffect
      <4>3. b \in Seq(Cells) /\ n \in Nat
        BY DEF ShapeInv
      <4>4. /\ Len(t) = n + Len(r)
            /\ \A i \in 1..(n + Len(r)) : t[i] = IF i <= n THEN b[i] ELSE r[i - n]
        <5>1. b \in Seq(Cells) /\ r \in Seq(Cells)
          BY <4>1, <4>3
        <5> HIDE DEF b, r, t
        <5>2. QED
          BY <4>2, <5>1, Joined DEF n
      <4>5. \A i \in 1..n : i \in 1..Len(Content) /\ b[i] = Content[i]
        BY <2>2 DEF GoesOn
      <4>6. r[1] = Content[n + 1]
        BY <4>1
      <4> HIDE DEF t, r, n, b
      <4>7. \A i \in 1..Len(t) : i \in 1..Len(Content) /\ t[i] = Content[i]
        <5> SUFFICES ASSUME NEW i \in 1..Len(t) PROVE i \in 1..Len(Content) /\ t[i] = Content[i]
          OBVIOUS
        <5>1. i \in 1..(n + 1) /\ t[i] = IF i <= n THEN b[i] ELSE r[i - n]
          BY <4>1, <4>4
        <5>2. CASE i <= n
          BY <4>3, <4>5, <5>1, <5>2
        <5>3. CASE ~ (i <= n)
          <6>1. i = n + 1 /\ i - n = 1
            BY <4>3, <5>1, <5>3
          <6>2. QED
            BY <4>1, <4>6, <5>1, <5>3, <6>1
        <5>4. QED
          BY <5>2, <5>3
      <4>8. QED
        <5>1. GoesOn(t, 0, Content)
          <6>1. \A i \in 1..Len(t) : 0 + i = i
            BY <4>1, <4>3, <4>4
          <6>2. QED
            BY <4>7, <6>1 DEF GoesOn
        <5>2. QED
          BY <5>1 DEF t
    <3>3. QED
      BY <3>1, <3>2
  <2>4. QED
    BY <1>3, <2>1, <2>2, <2>3 DEF HeadInv
<1>14. CASE ~ (AppSent \/ AppPutDone \/ AppReadsStatus \/ AppReadsName \/ AppReadsType \/ AppReadsSize
               \/ AppCopies)
  <2>1. UNCHANGED asking
    BY <1>14, AppWritesEffect, AppWroteEffect, ReadPathEffect, ReadSizeEffect, LookEffect, CopyEffect,
       ProxyWritesEffect, ProxyClosesEffect, CutEffect DEF TransferNext, AppTransfers, ProxyTransfers
  <2>2. QED
    BY <1>6, <2>1
<1>15. QED
  BY <1>7, <1>8, <1>9, <1>10, <1>11, <1>12, <1>13, <1>14

(* Of what is there the app tells what the proxy said.                     *)
LEMMA StatStep ==
    ASSUME FieldsInv, ShapeInv, PlaceInv, AnswerInv, StatInv, TransferNext
    PROVE  StatInv'
<1>1. UNCHANGED file
  BY AppWritesEffect, AppWroteEffect, AppSentEffect, AppReadsStatusEffect, AppPutDoneEffect,
     AppReadsNameEffect, AppReadsTypeEffect, AppReadsSizeEffect, AppCopiesEffect, ReadPathEffect,
     ReadSizeEffect, LookEffect, CopyEffect, ProxyWritesEffect, ProxyClosesEffect, CutEffect
  DEF TransferNext, AppTransfers, ProxyTransfers
<1>2. SUFFICES ASSUME file.op = "stat" PROVE StatInv'
  BY <1>1 DEF StatInv
<1>3. CASE UNCHANGED asking
  BY <1>1, <1>3 DEF StatInv
<1>4. CASE AppSent
  BY <1>1, <1>4, AppSentEffect DEF StatInv, AnswerKept, Answered
<1>5. CASE AppReadsStatus
  <2>1. asking'.answer.body = asking.answer.body /\ asking.answer.body = <<>>
    BY <1>5, AppReadsStatusEffect DEF AnswerKept, Answered, PlaceInv
  <2>2. QED
    BY <2>1 DEF StatInv
<1>6. CASE AppPutDone \/ AppReadsName \/ AppReadsType \/ AppReadsSize
  <2>1. asking.at \in {"sent", "name", "type", "size"}
    BY <1>6, AppPutDoneEffect, AppReadsNameEffect, AppReadsTypeEffect, AppReadsSizeEffect
  <2>2. QED
    BY <1>2, <2>1 DEF PlaceInv
<1>7. CASE AppCopies
  <2>1. asking.at = "body" /\ asking.answer.code = 200 /\ asking.answer.body \in {<<>>, <<"stat">>}
    BY <1>2, <1>7, AppCopiesEffect DEF PlaceInv, StatInv
  <2>2. CASE wire.down = <<>>
    BY <1>7, <2>1, <2>2, AppCopiesEffect DEF StatInv
  <2>3. CASE wire.down # <<>>
    <3>1. HasGranted
      BY <2>1, AnswerIs DEF StillReading, HasRefused, NotTold
    <3>2. Len(asking.answer.body) = 0 /\ Head(wire.down) = <<"stat">>
      BY <1>2, <2>1, <2>3, <3>1, CopiedIs
    <3>3. asking.answer.body = <<>>
      BY <2>1, <3>2
    <3>4. asking'.answer.body = <<>> \o <<"stat">>
      BY <1>7, <2>3, <3>2, <3>3, AppCopiesEffect
    <3>5. <<>> \o <<"stat">> = <<"stat">>
      OBVIOUS
    <3>6. QED
      BY <3>4, <3>5 DEF StatInv
  <2>4. QED
    BY <2>2, <2>3
<1>8. CASE ~ (AppSent \/ AppPutDone \/ AppReadsStatus \/ AppReadsName \/ AppReadsType \/ AppReadsSize
               \/ AppCopies)
  <2>1. UNCHANGED asking
    BY <1>8, AppWritesEffect, AppWroteEffect, ReadPathEffect, ReadSizeEffect, LookEffect, CopyEffect,
       ProxyWritesEffect, ProxyClosesEffect, CutEffect DEF TransferNext, AppTransfers, ProxyTransfers
  <2>2. QED
    BY <1>3, <2>1
<1>9. QED
  BY <1>4, <1>5, <1>6, <1>7, <1>8

-----------------------------------------------------------------------------
(* At first nothing has been read.                                         *)
LEMMA TransferStarts == TransferInit => TransferInv
<1> SUFFICES ASSUME TransferInit PROVE TransferInv
  OBVIOUS
<1>1. /\ file.op \in {"stat", "get", "put"} /\ file.name \in Names
      /\ asking = [at |-> IF file.op = "put" THEN "status" ELSE "send", answer |-> NoAnswer]
      /\ sending = [at |-> "write", todo |-> RequestRecords(file)]
      /\ serving = [at |-> "path", todo |-> <<>>, path |-> <<>>, size |-> Nothing]
      /\ wire = [up |-> <<>>, down |-> <<>>] /\ ends = {"app", "proxy"}
  BY DEF TransferInit
<1>2. RequestRecords(file) \in Seq(Records)
  BY <1>1, RequestIs
<1>3. FieldsInv
  BY <1>1 DEF FieldsInv, NoAnswer
<1>4. /\ asking.at \in {"send", "status"} /\ asking.answer.code = 0 /\ asking.answer.body = <<>>
      /\ sending.at = "write" /\ sending.todo = RequestRecords(file)
      /\ serving.at = "path" /\ serving.todo = <<>> /\ serving.path = <<>>
      /\ wire.up = <<>> /\ wire.down = <<>>
  BY <1>1 DEF NoAnswer
<1>5. ShapeInv
  <2>1. <<>> \in Seq(Records) /\ <<>> \in Seq(Cells)
    OBVIOUS
  <2>2. asking.at \in Places /\ serving.at \in Stages
    BY <1>4 DEF Places, Stages
  <2>3. QED
    BY <1>1, <1>2, <1>4, <2>1, <2>2 DEF ShapeInv
<1>6. PlaceInv /\ HeadInv /\ StatInv
  BY <1>4 DEF PlaceInv, HeadInv, StatInv
<1>7. AnswerInv
  BY <1>4 DEF AnswerInv, ReadingNow, NotTold
<1>8. RequestInv
  <2>1. Taken = 0 /\ 0 + Len(<<>>) = 0
    BY <1>4 DEF Taken
  <2>2. GoesOn(<<>>, 0, RequestRecords(file)) /\ GoesOn(RequestRecords(file), 0, RequestRecords(file))
    BY <1>2 DEF GoesOn
  <2>3. QED
    BY <1>4, <2>1, <2>2 DEF RequestInv
<1>9. QED
  BY <1>3, <1>5, <1>6, <1>7, <1>8 DEF TransferInv

(* And every step keeps all of it.                                         *)
LEMMA TransferSteps == TransferInv /\ [TransferNext]_transferVars => TransferInv'
<1>1. ASSUME TransferInv, TransferNext PROVE TransferInv'
  BY <1>1, FieldsStep, ShapeStep, PlaceStep, RequestStep, AnswerStep, HeadStep, StatStep DEF TransferInv
<1>2. ASSUME TransferInv, UNCHANGED transferVars PROVE TransferInv'
  <2>1. UNCHANGED <<file, asking, sending, serving, wire, ends, disk>>
    BY <1>2 DEF transferVars
  <2>2. Taken' = Taken /\ Got' = Got /\ GrantedRecords' = GrantedRecords
    BY <2>1 DEF Taken, Got, GrantedRecords
  <2>3. (ReadingNow' <=> ReadingNow) /\ (NotTold' <=> NotTold) /\ (Whole' <=> Whole) /\ (Dead' <=> Dead)
    BY <2>1 DEF ReadingNow, NotTold, Whole, Dead
  <2>4. FieldsInv' /\ ShapeInv' /\ PlaceInv'
    BY <1>2, <2>1 DEF TransferInv, FieldsInv, ShapeInv, PlaceInv
  <2>5. RequestInv'
    BY <1>2, <2>1, <2>2, <2>3 DEF TransferInv, RequestInv
  <2>6. AnswerInv'
    BY <1>2, <2>1, <2>2, <2>3 DEF TransferInv, AnswerInv
  <2>7. HeadInv' /\ StatInv'
    BY <1>2, <2>1, <2>3 DEF TransferInv, HeadInv, StatInv
  <2>8. QED
    BY <2>4, <2>5, <2>6, <2>7 DEF TransferInv
<1>3. QED
  BY <1>1, <1>2

(* At every moment of a transfer the records on their way go on where what *)
(* was read ends, in the request and in the answer, and an answer is only  *)
(* on its way when the proxy has read the request.                         *)
THEOREM TransferInvariant == TransferSpec => []TransferInv
<1>1. QED
  BY TransferStarts, TransferSteps, PTL DEF TransferSpec

(* It makes what is acknowledged true.                                     *)
LEMMA TransferTells == TransferInv => TransferIsTrue
<1> SUFFICES ASSUME TransferInv, asking.answer.code = 200
             PROVE  CASE file.op = "get" ->
                           /\ asking.answer.name = FirstLine(file.name) /\ asking.answer.type = FileType
                           /\ asking.answer.size = Encoded[Len(Content)]
                           /\ IsPrefix(asking.answer.body, Content)
                      [] file.op = "put" -> disk = Content
                      [] file.op = "stat" -> asking.answer.body \in {<<>>, <<"stat">>}
  BY DEF TransferIsTrue
<1>1. CASE file.op = "get"
  <2>1. /\ asking.answer.name = FirstLine(file.name) /\ asking.answer.type = FileType
        /\ asking.answer.size = Encoded[Len(Content)] /\ GoesOn(asking.answer.body, 0, Content)
    BY <1>1 DEF TransferInv, HeadInv
  <2>2. IsPrefix(asking.answer.body, Content)
    <3> DEFINE b == asking.answer.body
               n == Len(b)
    <3>1. b \in Seq(Cells) /\ n \in Nat /\ Content \in Seq(Cells) /\ Len(Content) \in Nat
      BY CellsOf DEF TransferInv, ShapeInv
    <3>2. \A i \in 1..n : i \in 1..Len(Content) /\ b[i] = Content[i]
      BY <2>1 DEF GoesOn
    <3> HIDE DEF b
    <3>3. n <= Len(Content)
      <4>1. n = 0 \/ n \in 1..n
        BY <3>1
      <4>2. QED
        BY <3>1, <3>2, <4>1
    <3>4. SubSeq(b, 1, n) = SubSeq(Content, 1, n)
      BY <3>1, <3>2, <3>3
    <3>5. QED
      BY <3>3, <3>4 DEF IsPrefix, b
  <2>3. QED
    BY <1>1, <2>1, <2>2
<1>2. CASE file.op = "put"
  <2>1. disk = Content
    BY <1>2, AnswerIs DEF TransferInv, StillReading, HasRefused, HasGranted, NotTold
  <2>2. QED
    BY <1>2, <2>1
<1>3. CASE file.op = "stat"
  BY <1>3 DEF TransferInv, StatInv
<1>4. QED
  BY <1>1, <1>2, <1>3 DEF TransferInv, ShapeInv

(* What is acknowledged is true, whatever the names and contents are, at   *)
(* whatever step the connection breaks.                                    *)
THEOREM TransferHolds == TransferSpec => []TransferIsTrue
<1>1. QED
  BY TransferInvariant, TransferTells, PTL

-----------------------------------------------------------------------------
(* Sequences of the same length and with the same cells are equal.         *)
LEMMA SeqEqual ==
    ASSUME NEW S, NEW s \in Seq(S), NEW r \in Seq(S), Len(s) = Len(r),
           \A i \in 1..Len(s) : s[i] = r[i]
    PROVE  s = r
  OBVIOUS

(* The cells of a path. That a string is in STRING no prover knows, so     *)
(* those that are named below are named here.                              *)
Cell == STRING \cup {"/", "tmp", "run"}

(* A path as the sockets and mounts of a template have them: a socket's is *)
(* absolute, its name after the last slash and one slash before the name,  *)
(* in a directory that is not the root.                                    *)
IsPath(p) == p \in Seq(Cell)
IsSocket(p) ==
    /\ IsPath(p)
    /\ \E i \in 2..Len(p) : /\ p[i] = "/" /\ \A j \in (i + 1)..Len(p) : p[j] # "/"
                            /\ p[i - 1] # "/"

(* Where kvdi mounts something in one of the two containers only.          *)
Apart(p) ==
    \A q \in {HomeMnt, <<"/", "etc", "/", "kvdi", "/", "tls", "/", "server">>, <<"/", "dev", "/", "shm">>,
              UserHome, <<"/", "sys", "/", "fs", "/", "cgroup">>,
              <<"/", "dev", "/", "kvm">>, <<"/", "disk">>, DockerBin} : ~Under(p, q)

(* A template that Kubernetes takes: its mounts are of its volumes and at  *)
(* paths, one of them at most at /tmp; and whose sockets, if they have a   *)
(* path, do not lie where kvdi mounts something in one container only, nor *)
(* in a directory of their own name that the template mounts.              *)
SocketAt(t, p) == IsSocket(p) /\ Apart(p) /\ \A m \in t.mounts : TrimSlash(m.path) = p => m.path = p

Sound(t) ==
    /\ {m.name : m \in t.mounts} \subseteq t.volumes
    /\ {m.name : m \in t.dindMounts} \subseteq t.volumes
    /\ DOMAIN t.display = {"scheme", "path"} /\ \A m \in t.mounts : IsPath(m.path)
    /\ \A m, n \in t.mounts : TrimSlash(m.path) = Tmp /\ TrimSlash(n.path) = Tmp => m = n
    /\ IsUNIXDisplaySocket(t) => SocketAt(t, DisplaySocket(t).path)
    /\ IsPrefix(Home, PulseServer(t)) \/ SocketAt(t, PulseServer(t))

(* Prefixes, cell by cell.                                                 *)
LEMMA PrefixIs ==
    ASSUME NEW s, NEW p, IsPath(s), IsPath(p)
    PROVE  IsPrefix(s, p) <=> Len(s) <= Len(p) /\ \A i \in 1..Len(s) : s[i] = p[i]
<1>1. CASE Len(s) <= Len(p)
  <2>1. Len(SubSeq(s, 1, Len(s))) = Len(s) /\ Len(SubSeq(p, 1, Len(s))) = Len(s)
        /\ \A i \in 1..Len(s) : SubSeq(s, 1, Len(s))[i] = s[i] /\ SubSeq(p, 1, Len(s))[i] = p[i]
    BY <1>1 DEF IsPath
  <2>2. SubSeq(s, 1, Len(s)) \in Seq(Cell) /\ SubSeq(p, 1, Len(s)) \in Seq(Cell)
    BY <1>1 DEF IsPath
  <2>3. SubSeq(s, 1, Len(s)) = SubSeq(p, 1, Len(s)) <=> \A i \in 1..Len(s) : s[i] = p[i]
    BY <2>1, <2>2, SeqEqual
  <2>4. QED
    BY <1>1, <2>3 DEF IsPrefix
<1>2. CASE ~(Len(s) <= Len(p))
  BY <1>2 DEF IsPrefix
<1>3. QED
  BY <1>1, <1>2

(* TrimSlash leaves a path, or all of it but a slash at its end.           *)
LEMMA TrimIs ==
    ASSUME NEW p, IsPath(p)
    PROVE  /\ IsPath(TrimSlash(p)) /\ Len(TrimSlash(p)) <= Len(p)
           /\ \A i \in 1..Len(TrimSlash(p)) : TrimSlash(p)[i] = p[i]
           /\ TrimSlash(p) = p \/ (Len(p) = Len(TrimSlash(p)) + 1 /\ p[Len(p)] = "/")
<1>1. CASE p # <<>> /\ p[Len(p)] = "/"
  <2>1. TrimSlash(p) = SubSeq(p, 1, Len(p) - 1)
    BY <1>1 DEF TrimSlash, Front, Last
  <2>2. Len(p) \in Nat /\ Len(p) > 0
    BY <1>1 DEF IsPath
  <2>3. \A n \in Nat : n <= Len(p) => /\ SubSeq(p, 1, n) \in Seq(Cell) /\ Len(SubSeq(p, 1, n)) = n
                                      /\ \A i \in 1..n : SubSeq(p, 1, n)[i] = p[i]
    BY <2>2 DEF IsPath
  <2>4. Len(p) - 1 \in Nat /\ Len(p) - 1 <= Len(p)
    BY <2>2
  <2>5. Len(TrimSlash(p)) = Len(p) - 1 /\ TrimSlash(p) \in Seq(Cell)
        /\ \A i \in 1..(Len(p) - 1) : TrimSlash(p)[i] = p[i]
    BY <2>1, <2>3, <2>4
  <2>6. QED
    BY <1>1, <2>2, <2>5 DEF IsPath
<1>2. CASE ~(p # <<>> /\ p[Len(p)] = "/")
  BY <1>2 DEF TrimSlash, Last, IsPath
<1>3. QED
  BY <1>1, <1>2

(* A socket lies under its directory.                                      *)
LEMMA DirIs ==
    ASSUME NEW p, IsSocket(p)
    PROVE  /\ IsPath(Dir(p)) /\ IsPrefix(Dir(p), p)
           /\ TrimSlash(Dir(p)) = Dir(p) /\ Under(p, Dir(p))
<1>1. PICK i \in 2..Len(p) : /\ p[i] = "/" /\ \A j \in (i + 1)..Len(p) : p[j] # "/"
                             /\ p[i - 1] # "/"
  BY DEF IsSocket
<1>2. IsPath(p) /\ Len(p) \in Nat
  BY DEF IsSocket, IsPath
<1>3. SelectLastInSeq(p, LAMBDA c : c = "/") = i
  <2> DEFINE I == {j \in 1..Len(p) : p[j] = "/"}
  <2>1. i \in I /\ \A j \in I : i >= j
    BY <1>1, <1>2
  <2>2. \A k \in I : (\A j \in I : k >= j) => k = i
    BY <2>1
  <2> HIDE DEF I
  <2>3. Max(I) = i
    BY <2>1, <2>2 DEF Max
  <2>4. SelectLastInSeq(p, LAMBDA c : c = "/") = IF I # {} THEN Max(I) ELSE 0
    BY DEF SelectLastInSeq, I
  <2>5. QED
    BY <2>1, <2>3, <2>4
<1>4. Dir(p) = SubSeq(p, 1, i - 1)
  BY <1>3 DEF Dir
<1>5. Dir(p) \in Seq(Cell) /\ Len(Dir(p)) = i - 1 /\ \A j \in 1..(i - 1) : Dir(p)[j] = p[j]
  BY <1>2, <1>4 DEF IsPath
<1>6. IsPath(Dir(p)) /\ IsPrefix(Dir(p), p)
  <2>1. IsPath(Dir(p))
    BY <1>5 DEF IsPath
  <2>2. QED
    BY <1>2, <1>5, <2>1, PrefixIs
<1>7. TrimSlash(Dir(p)) = Dir(p)
  <2>1. Dir(p)[Len(Dir(p))] = p[i - 1]
    BY <1>1, <1>5
  <2>2. QED
    BY <1>1, <2>1 DEF TrimSlash, Last
<1>8. Len(Dir(p)) + 1 = i
  BY <1>5
<1>9. QED
  BY <1>1, <1>6, <1>7, <1>8 DEF Under

(* A path under a mount begins with the mount's, as it is written.         *)
LEMMA UnderBegins ==
    ASSUME NEW p, NEW q, IsPath(p), IsPath(q), Under(p, q), TrimSlash(q) = p => q = p
    PROVE  IsPrefix(q, p)
<1> DEFINE r == TrimSlash(q)
<1>1. IsPath(r) /\ Len(r) \in Nat /\ Len(p) \in Nat /\ Len(q) \in Nat
  BY TrimIs DEF IsPath
<1>2. IsPrefix(r, p) /\ (Len(p) = Len(r) \/ p[Len(r) + 1] = "/")
  BY DEF Under
<1>3. Len(r) <= Len(p) /\ \A i \in 1..Len(r) : r[i] = p[i]
  BY <1>1, <1>2, PrefixIs
<1>4. CASE Len(p) = Len(r)
  <2>1. r = p
    BY <1>1, <1>3, <1>4, SeqEqual DEF IsPath
  <2>2. q = p
    BY <2>1
  <2>3. QED
    BY <1>1, <2>2, PrefixIs
<1>5. CASE Len(p) # Len(r)
  <2>1. \A i \in 1..Len(r) : r[i] = q[i]
    BY TrimIs
  <2>2. r = q \/ (Len(q) = Len(r) + 1 /\ q[Len(q)] = "/")
    BY TrimIs
  <2> HIDE DEF r
  <2>3. Len(q) <= Len(p) /\ \A i \in 1..Len(q) : q[i] = p[i]
    BY <1>1, <1>2, <1>3, <1>5, <2>1, <2>2
  <2>4. QED
    BY <2>3, PrefixIs
<1>6. QED
  BY <1>4, <1>5

(* A path that begins with another that begins with dir begins with dir.   *)
LEMMA BeginsWithTmp ==
    ASSUME NEW p, NEW q, IsPath(p), IsPath(q), IsPrefix(q, p),
           IsPrefix(Tmp, q) \/ TrimSlash(q) = Tmp
    PROVE  IsPrefix(Tmp, p)
<1>1. IsPath(Tmp) /\ Len(Tmp) = 2
  <2>1. "/" \in Cell /\ "tmp" \in Cell
    BY DEF Cell
  <2>2. \A S : \A a, b \in S : <<a, b>> \in Seq(S) /\ Len(<<a, b>>) = 2
    OBVIOUS
  <2>3. QED
    BY <2>1, <2>2 DEF IsPath, Tmp
<1>2. Len(q) <= Len(p) /\ \A i \in 1..Len(q) : q[i] = p[i]
  BY PrefixIs
<1>3. Len(q) \in Nat /\ Len(p) \in Nat
  BY DEF IsPath
<1>4. 2 <= Len(q) /\ \A i \in 1..2 : Tmp[i] = q[i]
  <2>1. CASE IsPrefix(Tmp, q)
    BY <1>1, <2>1, PrefixIs
  <2>2. CASE TrimSlash(q) = Tmp
    BY <1>1, <1>3, <2>2, TrimIs
  <2>3. QED
    BY <2>1, <2>2
<1>5. Len(Tmp) <= Len(p) /\ \A i \in 1..Len(Tmp) : Tmp[i] = p[i]
  BY <1>1, <1>2, <1>3, <1>4
<1>6. QED
  BY <1>1, <1>5, PrefixIs

(* The mounts that reach deepest depend on the places that are mounted.    *)
LEMMA DeepestPlaces ==
    ASSUME NEW c, NEW d, NEW p,
           \A m \in Reaching(c, p) : \E n \in Reaching(d, p) : Place(n) = Place(m),
           \A n \in Reaching(d, p) : \E m \in Reaching(c, p) : Place(m) = Place(n)
    PROVE  \A m \in Deepest(c, p) : \E n \in Deepest(d, p) : Place(n) = Place(m)
<1> SUFFICES ASSUME NEW m \in Deepest(c, p)
             PROVE  \E n \in Deepest(d, p) : Place(n) = Place(m)
  OBVIOUS
<1>1. m \in Reaching(c, p)
      /\ \A k \in Reaching(c, p) : Len(TrimSlash(k.path)) <= Len(TrimSlash(m.path))
  BY DEF Deepest
<1>2. PICK n \in Reaching(d, p) : Place(n) = Place(m)
  BY <1>1
<1>3. \A j, k : Place(j) = Place(k) => TrimSlash(j.path) = TrimSlash(k.path)
  BY DEF Place
<1>4. ASSUME NEW k \in Reaching(d, p)
      PROVE  Len(TrimSlash(k.path)) <= Len(TrimSlash(n.path))
  <2>1. PICK j \in Reaching(c, p) : Place(j) = Place(k)
    OBVIOUS
  <2>2. Len(TrimSlash(j.path)) <= Len(TrimSlash(m.path))
    BY <1>1
  <2>3. TrimSlash(j.path) = TrimSlash(k.path) /\ TrimSlash(m.path) = TrimSlash(n.path)
    BY <1>2, <1>3, <2>1
  <2>4. QED
    BY <2>2, <2>3
<1>5. n \in Deepest(d, p)
  BY <1>4 DEF Deepest
<1>6. QED
  BY <1>2, <1>5

(* Two containers in which the same places reach a path have one file.     *)
LEMMA SamePlaces ==
    ASSUME NEW c, NEW d, NEW p, Reaching(c, p) # {},
           \A m \in Reaching(c, p) : \E n \in Reaching(d, p) : Place(n) = Place(m),
           \A n \in Reaching(d, p) : \E m \in Reaching(c, p) : Place(m) = Place(n)
    PROVE  SameFile(c, d, p)
<1>1. \A m \in Deepest(c, p) : \E n \in Deepest(d, p) : Place(n) = Place(m)
  BY DeepestPlaces
<1>2. \A n \in Deepest(d, p) : \E m \in Deepest(c, p) : Place(m) = Place(n)
  BY DeepestPlaces
<1>3. {Place(m) : m \in Deepest(c, p)} = {Place(m) : m \in Deepest(d, p)}
  BY <1>1, <1>2
<1>4. QED
  BY <1>3 DEF SameFile

(* What the container of the template mounts, and what the proxy does.     *)
LEMMA MountsAre ==
    ASSUME NEW t
    PROVE  /\ Main(t).mounts = DesktopMounts(t)
           /\ \A m \in DesktopMounts(t) :
                \/ m.path \in {<<"/", "dev", "/", "shm">>, UserHome,
                               <<"/", "sys", "/", "fs", "/", "cgroup">>, <<"/", "dev", "/", "kvm">>,
                               <<"/", "disk">>, DockerBin}
                \/ m \in ProxyContainer(t).mounts
                \/ m \in t.mounts /\ ~IsQEMUTemplate(t)
           /\ \A m \in ProxyContainer(t).mounts :
                \/ m.path \in {HomeMnt, <<"/", "etc", "/", "kvdi", "/", "tls", "/", "server">>}
                \/ m \in DesktopMounts(t)
                \/ m = Mount(TmpVolume(t), Tmp) /\ ~NeedsEmptyTmpVolume(t)
           /\ \A n, q : Mount(n, q).path = q /\ Mount(n, q).name = n
           /\ Mount(TmpVolume(t), Tmp) \in ProxyContainer(t).mounts
           /\ DisplayMounts(t) \cup PulseMounts(t) \subseteq ProxyContainer(t).mounts
           /\ Mount("run", Run) \in ProxyContainer(t).mounts
           /\ ~IsQEMUTemplate(t) => t.mounts \subseteq DesktopMounts(t)
<1>1. Main(t).mounts = DesktopMounts(t)
  BY DEF Main, QEMUContainer, DesktopContainer
<1>2. NeedsEmptyTmpVolume(t) => TmpVolume(t) = "tmp"
  BY DEF TmpVolume
<1>3. \A n, q : Mount(n, q).path = q /\ Mount(n, q).name = n
  BY DEF Mount
<1> HIDE DEF Mount
<1>4. ProxyContainer(t).mounts =
        {Mount(TmpVolume(t), Tmp), Mount("run", Run), Mount("run-lock", RunLock),
         Mount("tls", <<"/", "etc", "/", "kvdi", "/", "tls", "/", "server">>)}
        \cup DisplayMounts(t) \cup PulseMounts(t)
        \cup (IF t.files THEN {Mount("home", HomeMnt)} ELSE {})
  BY DEF ProxyContainer
<1>5. \A m \in DesktopMounts(t) :
        \/ m.path \in {<<"/", "dev", "/", "shm">>, UserHome,
                       <<"/", "sys", "/", "fs", "/", "cgroup">>, <<"/", "dev", "/", "kvm">>,
                       <<"/", "disk">>, DockerBin}
        \/ m \in ProxyContainer(t).mounts
        \/ m \in t.mounts /\ ~IsQEMUTemplate(t)
  <2> DEFINE shm == <<"/", "dev", "/", "shm">>
             cgroup == <<"/", "sys", "/", "fs", "/", "cgroup">>
             kvm == <<"/", "dev", "/", "kvm">>
             image == <<"/", "disk">>
  <2>1. ASSUME NEW m \in DesktopMounts(t)
        PROVE  \/ m \in {Mount("run", Run), Mount("run-lock", RunLock)}
               \/ m \in {Mount("shm", shm), Mount("home", UserHome), Mount("cgroups", cgroup),
                         Mount("qemu-kvm", kvm), Mount("qemu-disk-image", image), Mount("docker-bin", DockerBin)}
               \/ m = Mount("tmp", Tmp) /\ NeedsEmptyTmpVolume(t)
               \/ m \in DisplayMounts(t) \cup PulseMounts(t)
               \/ m \in t.mounts /\ ~IsQEMUTemplate(t)
    <3> HIDE DEF shm, cgroup, kvm, image
    <3>1. m \in {Mount("run", Run), Mount("run-lock", RunLock), Mount("shm", shm), Mount("home", UserHome)}
                \cup (IF NeedsEmptyTmpVolume(t) THEN {Mount("tmp", Tmp)} ELSE {})
                \cup DisplayMounts(t) \cup PulseMounts(t)
                \cup (IF Systemd(t) \/ IsQEMUTemplate(t) THEN {Mount("cgroups", cgroup)} ELSE {})
                \cup (IF IsQEMUTemplate(t) THEN {Mount("qemu-kvm", kvm)} ELSE t.mounts)
                \cup (IF QEMUUseCSI(t) THEN {Mount("qemu-disk-image", image)} ELSE {})
                \cup (IF t.dind THEN {Mount("docker-bin", DockerBin)} ELSE {})
      BY DEF DesktopMounts, shm, cgroup, kvm, image
    <3>2. QED
      BY <3>1
  <2> HIDE DEF shm, cgroup, kvm, image
  <2>2. ASSUME NEW m \in DesktopMounts(t)
        PROVE  \/ m.path \in {shm, UserHome, cgroup, kvm, image, DockerBin}
               \/ m \in ProxyContainer(t).mounts
               \/ m \in t.mounts /\ ~IsQEMUTemplate(t)
    BY <1>2, <1>3, <1>4, <2>1
  <2>3. QED
    BY <2>2 DEF shm, cgroup, kvm, image
<1>6. ASSUME NEW m \in ProxyContainer(t).mounts
      PROVE  \/ m.path \in {HomeMnt, <<"/", "etc", "/", "kvdi", "/", "tls", "/", "server">>}
             \/ m \in DesktopMounts(t)
             \/ m = Mount(TmpVolume(t), Tmp) /\ ~NeedsEmptyTmpVolume(t)
  <2>1. CASE m = Mount(TmpVolume(t), Tmp)
    BY <1>2, <2>1 DEF DesktopMounts
  <2>2. CASE m \in {Mount("run", Run), Mount("run-lock", RunLock)} \cup DisplayMounts(t) \cup PulseMounts(t)
    BY <2>2 DEF DesktopMounts
  <2>3. CASE m = Mount("tls", <<"/", "etc", "/", "kvdi", "/", "tls", "/", "server">>) \/ m = Mount("home", HomeMnt)
    BY <1>3, <2>3
  <2>4. QED
    BY <1>4, <2>1, <2>2, <2>3
<1>7. ~IsQEMUTemplate(t) => t.mounts \subseteq DesktopMounts(t)
  BY DEF DesktopMounts
<1>8. QED
  BY <1>1, <1>3, <1>4, <1>5, <1>6, <1>7

(* A socket that is not under a mount of the template's own, and not under *)
(* one that kvdi makes in one container only, is reached by the same mounts *)
(* in both.                                                                *)
LEMMA SharedMounts ==
    ASSUME NEW t, Sound(t), NEW p, SocketAt(t, p), ~OwnMountHolds(t, p),
           \E m \in ProxyContainer(t).mounts : Under(p, m.path)
    PROVE  SameFile(ProxyContainer(t), Main(t), p)
<1>1. TrimSlash(Tmp) = Tmp
  BY DEF TrimSlash, Tmp, Last
<1>2. \A m, n : TrimSlash(m.path) = TrimSlash(n.path) => (Under(p, m.path) <=> Under(p, n.path))
  BY DEF Under
<1>3. ASSUME NEW m \in t.mounts, Under(p, m.path)
      PROVE  ~IsQEMUTemplate(t) /\ TrimSlash(m.path) = Tmp
  <2>1. IsPath(p) /\ IsPath(m.path) /\ (TrimSlash(m.path) = p => m.path = p)
    BY DEF SocketAt, IsSocket, Sound
  <2>2. IsPrefix(m.path, p)
    BY <1>3, <2>1, UnderBegins
  <2>3. QED
    BY <2>2 DEF OwnMountHolds
<1>4. ASSUME NEW m \in Reaching(ProxyContainer(t), p)
      PROVE  \E n \in Reaching(Main(t), p) : Place(n) = Place(m)
  <2>1. m \in ProxyContainer(t).mounts /\ Under(p, m.path)
    BY DEF Reaching
  <2>2. CASE m \in DesktopMounts(t)
    BY <2>1, <2>2, MountsAre DEF Reaching
  <2>3. CASE m = Mount(TmpVolume(t), Tmp) /\ ~NeedsEmptyTmpVolume(t)
    <3> DEFINE n == CHOOSE n \in t.mounts : TrimSlash(n.path) = Tmp
    <3>1. n \in t.mounts /\ TrimSlash(n.path) = Tmp
      BY <2>3 DEF NeedsEmptyTmpVolume
    <3>2. TmpVolume(t) = n.name
      BY <2>3 DEF TmpVolume
    <3> HIDE DEF n
    <3>3. m.path = Tmp /\ m.name = n.name
      BY <2>3, <3>2, MountsAre
    <3>4. Under(p, n.path) /\ Place(n) = Place(m)
      BY <1>1, <1>2, <2>1, <3>1, <3>3 DEF Place
    <3>5. n \in DesktopMounts(t)
      BY <1>3, <3>1, <3>4, MountsAre
    <3>6. QED
      BY <3>4, <3>5, MountsAre DEF Reaching
  <2>4. ~(m.path \in {HomeMnt, <<"/", "etc", "/", "kvdi", "/", "tls", "/", "server">>})
    BY <2>1 DEF SocketAt, Apart
  <2>5. QED
    BY <2>1, <2>2, <2>3, <2>4, MountsAre
<1>5. ASSUME NEW m \in Reaching(Main(t), p)
      PROVE  \E n \in Reaching(ProxyContainer(t), p) : Place(n) = Place(m)
  <2>1. m \in DesktopMounts(t) /\ Under(p, m.path)
    BY MountsAre DEF Reaching
  <2>2. CASE m \in ProxyContainer(t).mounts
    BY <2>1, <2>2 DEF Reaching
  <2>3. CASE m \in t.mounts /\ ~IsQEMUTemplate(t)
    <3> DEFINE n == Mount(TmpVolume(t), Tmp)
    <3>1. TrimSlash(m.path) = Tmp
      BY <1>3, <2>1, <2>3
    <3>2. TmpVolume(t) = m.name
      <4>1. ~NeedsEmptyTmpVolume(t)
        BY <2>3, <3>1 DEF NeedsEmptyTmpVolume
      <4>2. (CHOOSE k \in t.mounts : TrimSlash(k.path) = Tmp) = m
        BY <2>3, <3>1 DEF Sound
      <4>3. QED
        BY <4>1, <4>2 DEF TmpVolume
    <3>3. n.path = Tmp /\ n.name = m.name /\ n \in ProxyContainer(t).mounts
      BY <3>2, MountsAre
    <3> HIDE DEF n
    <3>4. Under(p, n.path) /\ Place(n) = Place(m)
      BY <1>1, <1>2, <2>1, <3>1, <3>3 DEF Place
    <3>5. QED
      BY <3>3, <3>4 DEF Reaching
  <2>4. m.path \notin {<<"/", "dev", "/", "shm">>, UserHome,
                       <<"/", "sys", "/", "fs", "/", "cgroup">>, <<"/", "dev", "/", "kvm">>,
                       <<"/", "disk">>, DockerBin}
    BY <2>1 DEF SocketAt, Apart
  <2>5. QED
    BY <2>1, <2>2, <2>3, <2>4, MountsAre
<1>6. Reaching(ProxyContainer(t), p) # {}
  BY DEF Reaching
<1>7. QED
  BY <1>4, <1>5, <1>6, SamePlaces

(* The directory of a socket is mounted, or lies in /tmp.                  *)
LEMMA DisplayReached ==
    ASSUME NEW t, NEW p, IsSocket(p), IsUNIXDisplaySocket(t), Dir(DisplaySocket(t).path) = Dir(p),
           ~LooksLike(p, Tmp)
    PROVE  \E m \in ProxyContainer(t).mounts : Under(p, m.path)
<1>1. CASE NeedsDisplayVolume(t)
  <2>1. Mount("vnc-sock", Dir(p)) \in ProxyContainer(t).mounts
    BY <1>1, MountsAre DEF DisplayMounts
  <2>2. Mount("vnc-sock", Dir(p)).path = Dir(p)
    BY MountsAre
  <2>3. QED
    BY <2>1, <2>2, DirIs
<1>2. CASE ~NeedsDisplayVolume(t)
  <2>1. IsPrefix(Tmp, Dir(p))
    BY <1>2 DEF NeedsDisplayVolume
  <2>2. IsPrefix(Tmp, p)
    BY <2>1, DirIs, BeginsWithTmp DEF IsSocket
  <2>3. Under(p, Tmp)
    BY <2>2 DEF LooksLike
  <2>4. QED
    BY <2>3, MountsAre
<1>3. QED
  BY <1>1, <1>2

(* The proxy finds the display of a sound template, whatever else it asks  *)
(* for.                                                                    *)
LEMMA DisplayIsFound ==
    ASSUME NEW t, Sound(t)
    PROVE  DisplayFound(t)
<1> DEFINE d == Dialled(ProxyContainer(t).display)
<1> SUFFICES ASSUME d # NoAddress, d.scheme = "unix", ~OwnMountHolds(t, d.path), ~LooksLike(d.path, Tmp)
             PROVE  SameFile(ProxyContainer(t), Main(t), d.path) /\ Main(t).display.path = d.path
  BY DEF DisplayFound
<1>1. d = DisplaySocket(t)
  BY DEF Dialled, ProxyContainer
<1> HIDE DEF d
<1>2. IsUNIXDisplaySocket(t)
  BY <1>1 DEF IsUNIXDisplaySocket
<1>3. SocketAt(t, d.path)
  BY <1>1, <1>2 DEF Sound
<1>4. \E m \in ProxyContainer(t).mounts : Under(d.path, m.path)
  BY <1>1, <1>2, <1>3, DisplayReached DEF SocketAt
<1>5. Main(t).display.path = d.path
  <2>1. DOMAIN d = {"scheme", "path"}
    BY <1>1 DEF DisplaySocket, DefaultDisplay, Sound
  <2>2. QED
    BY <1>1, <1>2, <2>1 DEF Main, QEMUContainer, DesktopContainer
<1>6. QED
  BY <1>3, <1>4, <1>5, SharedMounts

(* It finds the sound of a sound template, too.                            *)
LEMMA PulseIsFound ==
    ASSUME NEW t, Sound(t)
    PROVE  PulseFound(t)
<1> DEFINE p == PulseServer(t)
<1> SUFFICES ASSUME ~OwnMountHolds(t, p), ~LooksLike(p, Tmp), ~LooksLike(p, Run), ~IsPrefix(Home, p)
             PROVE  SameFile(ProxyContainer(t), Main(t), p)
  BY DEF PulseFound
<1>1. SocketAt(t, p) /\ IsSocket(p) /\ IsPath(p)
  BY DEF Sound, SocketAt, IsSocket
<1> HIDE DEF p
<1>2. \E m \in ProxyContainer(t).mounts : Under(p, m.path)
  <2>1. CASE NeedsDedicatedPulseVolume(t)
    <3>1. Mount("pulse-sock", Dir(p)) \in ProxyContainer(t).mounts
      BY <2>1, MountsAre DEF PulseMounts, p
    <3>2. Mount("pulse-sock", Dir(p)).path = Dir(p)
      BY MountsAre
    <3>3. QED
      BY <1>1, <3>1, <3>2, DirIs
  <2>2. CASE IsUNIXDisplaySocket(t) /\ Dir(DisplaySocket(t).path) = Dir(p)
    BY <1>1, <2>2, DisplayReached
  <2>3. CASE IsPrefix(Tmp, p)
    <3>1. Under(p, Tmp)
      BY <2>3 DEF LooksLike
    <3>2. QED
      BY <3>1, MountsAre
  <2>4. CASE IsPrefix(Run, p)
    <3>1. Under(p, Run)
      BY <2>4 DEF LooksLike
    <3>2. QED
      BY <3>1, MountsAre
  <2>5. ASSUME NEW m \in t.mounts, IsPrefix(m.path, p)
        PROVE  IsPrefix(Tmp, p)
    <3>1. TrimSlash(m.path) = Tmp /\ IsPath(m.path)
      BY <2>5 DEF OwnMountHolds, Sound
    <3>2. QED
      BY <1>1, <2>5, <3>1, BeginsWithTmp
  <2>6. QED
    BY <2>1, <2>2, <2>3, <2>4, <2>5 DEF NeedsDedicatedPulseVolume, p
<1>3. QED
  BY <1>1, <1>2, SharedMounts

(* The parts of the pod, one condition at a time: what a container mounts  *)
(* when the template asks for it is a volume of the pod then.              *)
LEMMA MountNames ==
    ASSUME NEW t, NEW claim, {m.name : m \in t.mounts} \subseteq t.volumes,
           NEW m \in DesktopMounts(t) \cup ProxyContainer(t).mounts
    PROVE  \E v \in Volumes(t, claim) : v[1] = m.name
<1> DEFINE V == Volumes(t, claim)
           Named(name) == \E v \in V : v[1] = name
<1>1. /\ <<"run", "empty">> \in V /\ <<"run-lock", "empty">> \in V /\ <<"shm", "host">> \in V
      /\ <<"tls", "secret">> \in V /\ <<"home", IF claim THEN "claim" ELSE "empty">> \in V
      /\ NeedsEmptyTmpVolume(t) => <<"tmp", "empty">> \in V
      /\ NeedsDisplayVolume(t) => <<"vnc-sock", "empty">> \in V
      /\ NeedsDedicatedPulseVolume(t) => <<"pulse-sock", "empty">> \in V
      /\ Systemd(t) \/ IsQEMUTemplate(t) => <<"cgroups", "host">> \in V
      /\ IsQEMUTemplate(t) => <<"qemu-kvm", "host">> \in V
      /\ QEMUUseCSI(t) => <<"qemu-disk-image", "image">> \in V
      /\ t.dind => <<"docker-data", "empty">> \in V /\ <<"docker-bin", "empty">> \in V
      /\ \A n \in t.volumes : <<n, "own">> \in V
  BY DEF Volumes
<1> HIDE DEF V
<1>2. \A n, k : <<n, k>> \in V => Named(n)
  <2> TAKE n, k
  <2>1. <<n, k>>[1] = n
    OBVIOUS
  <2>2. QED
    BY <2>1
<1> HIDE DEF Named
<1>3. /\ Named("run") /\ Named("run-lock") /\ Named("shm") /\ Named("tls") /\ Named("home")
      /\ NeedsEmptyTmpVolume(t) => Named("tmp")
      /\ NeedsDisplayVolume(t) => Named("vnc-sock")
      /\ NeedsDedicatedPulseVolume(t) => Named("pulse-sock")
      /\ Systemd(t) \/ IsQEMUTemplate(t) => Named("cgroups")
      /\ IsQEMUTemplate(t) => Named("qemu-kvm")
      /\ QEMUUseCSI(t) => Named("qemu-disk-image")
      /\ t.dind => Named("docker-bin")
      /\ \A n \in t.volumes : Named(n)
  BY <1>1, <1>2
<1>4. ASSUME NEW n \in t.mounts
      PROVE  Named(n.name)
  BY <1>3
<1>5. Named(TmpVolume(t))
  <2>1. CASE NeedsEmptyTmpVolume(t)
    BY <1>3, <2>1 DEF TmpVolume
  <2>2. CASE ~NeedsEmptyTmpVolume(t)
    <3>1. \E n \in t.mounts : TrimSlash(n.path) = Tmp
      BY <2>2 DEF NeedsEmptyTmpVolume
    <3>2. (CHOOSE n \in t.mounts : TrimSlash(n.path) = Tmp) \in t.mounts
      BY <3>1
    <3>3. QED
      BY <1>4, <2>2, <3>2 DEF TmpVolume
  <2>3. QED
    BY <2>1, <2>2
<1>6. \A n \in DisplayMounts(t) \cup PulseMounts(t) : Named(n.name)
  BY <1>3 DEF DisplayMounts, PulseMounts, Mount
<1>7. \A n \in DesktopMounts(t) : Named(n.name)
  BY <1>3, <1>4, <1>6 DEF DesktopMounts, Mount
<1>8. \A n \in ProxyContainer(t).mounts : Named(n.name)
  BY <1>3, <1>5, <1>6 DEF ProxyContainer, Mount
<1>9. QED
  BY <1>7, <1>8 DEF Named, V

(* What kvdi mounts for itself lies in places of its own, not at /tmp.     *)
FixedMounts ==
    {Mount("run", Run), Mount("run-lock", RunLock), Mount("shm", <<"/", "dev", "/", "shm">>),
     Mount("home", UserHome), Mount("home", HomeMnt),
     Mount("tls", <<"/", "etc", "/", "kvdi", "/", "tls", "/", "server">>),
     Mount("cgroups", <<"/", "sys", "/", "fs", "/", "cgroup">>), Mount("qemu-kvm", <<"/", "dev", "/", "kvm">>),
     Mount("qemu-disk-image", <<"/", "disk">>), Mount("docker-bin", DockerBin)}

LEMMA FixedApart ==
    /\ \A m, n \in FixedMounts : m.path = n.path => m = n
    /\ \A m \in FixedMounts : m.path \in FixedPaths
    /\ Tmp \notin FixedPaths /\ Run # DockerData
<1> DEFINE shm == <<"/", "dev", "/", "shm">>
           tls == <<"/", "etc", "/", "kvdi", "/", "tls", "/", "server">>
           cgroup == <<"/", "sys", "/", "fs", "/", "cgroup">>
           kvm == <<"/", "dev", "/", "kvm">>
           image == <<"/", "disk">>
<1>1. /\ Len(Run) = 2 /\ Run[2] = "run"
      /\ Len(Tmp) = 2 /\ Tmp[2] = "tmp"
      /\ Len(image) = 2 /\ image[2] = "disk"
      /\ Len(RunLock) = 4 /\ RunLock[2] = "run"
      /\ Len(UserHome) = 4 /\ UserHome[2] = "home"
      /\ Len(HomeMnt) = 4 /\ HomeMnt[2] = "mnt"
      /\ Len(shm) = 4 /\ shm[2] = "dev" /\ shm[4] = "shm"
      /\ Len(kvm) = 4 /\ kvm[2] = "dev" /\ kvm[4] = "kvm"
      /\ Len(cgroup) = 6
      /\ Len(DockerData) = 6 /\ Len(DockerBin) = 8 /\ DockerBin[2] = "usr"
      /\ Len(tls) = 8 /\ tls[2] = "etc"
  BY DEF Run, Tmp, RunLock, UserHome, HomeMnt, DockerData, DockerBin
<1>2. FixedPaths = {Run, RunLock, shm, UserHome, HomeMnt, tls, cgroup, kvm, image, DockerBin}
  BY DEF FixedPaths
<1>3. FixedMounts = {Mount("run", Run), Mount("run-lock", RunLock), Mount("shm", shm),
        Mount("home", UserHome), Mount("home", HomeMnt), Mount("tls", tls), Mount("cgroups", cgroup),
        Mount("qemu-kvm", kvm), Mount("qemu-disk-image", image), Mount("docker-bin", DockerBin)}
  BY DEF FixedMounts
<1>4. \A n, q : Mount(n, q).path = q
  BY DEF Mount
<1> HIDE DEF shm, tls, cgroup, kvm, image
<1>5. \A m \in FixedMounts : m.path \in FixedPaths
  BY <1>2, <1>3, <1>4
<1>6. Tmp \notin FixedPaths /\ Run # DockerData
  BY <1>1, <1>2
<1>7. \A m, n \in FixedMounts : m.path = n.path => m = n
  BY <1>1, <1>3, <1>4
<1>8. QED
  BY <1>5, <1>6, <1>7

(* A socket that has a volume of its own does not lie in /tmp itself.      *)
LEMMA SocketNotTmp ==
    ASSUME NEW t, NeedsDedicatedPulseVolume(t) => IsSocket(PulseServer(t)),
           NEW k \in DisplayMounts(t) \cup PulseMounts(t)
    PROVE  k.path # Tmp
<1>1. \A j, q : Mount(j, q).path = q
  BY DEF Mount
<1>2. CASE k \in DisplayMounts(t)
  <2>1. k.path = Dir(DisplaySocket(t).path) /\ ~IsPrefix(Tmp, k.path)
    BY <1>1, <1>2 DEF DisplayMounts, NeedsDisplayVolume
  <2>2. IsPrefix(Tmp, Tmp)
    BY DEF IsPrefix, Tmp
  <2>3. QED
    BY <2>1, <2>2
<1>3. CASE k \in PulseMounts(t)
  <2>1. k.path = Dir(PulseServer(t)) /\ NeedsDedicatedPulseVolume(t) /\ ~IsPrefix(Tmp, PulseServer(t))
    BY <1>1, <1>3 DEF PulseMounts, NeedsDedicatedPulseVolume
  <2>2. IsPrefix(k.path, PulseServer(t))
    BY <2>1, DirIs
  <2>3. QED
    BY <2>1, <2>2
<1>4. QED
  BY <1>2, <1>3

(* Mounts of four kinds are at paths of their own: kvdi's, the one at /tmp, *)
(* those of the sockets and those of the template.                         *)
LEMMA PathsApart ==
    ASSUME NEW t, NEW S, NEW tmp, ~SocketClashes(t), ~OwnClash(t),
           NeedsDedicatedPulseVolume(t) => IsSocket(PulseServer(t)),
           \A m \in S : \/ m \in FixedMounts
                        \/ m = Mount(tmp, Tmp)
                        \/ m \in DisplayMounts(t) \cup PulseMounts(t)
                        \/ m \in t.mounts /\ ~IsQEMUTemplate(t) /\ m.path # Tmp,
           NEW m \in S, NEW n \in S, m.path = n.path
    PROVE  m = n
<1> DEFINE Sockets == DisplayMounts(t) \cup PulseMounts(t)
           Own == IF IsQEMUTemplate(t) THEN {} ELSE t.mounts
<1>1. \A k, q : Mount(k, q).path = q
  BY DEF Mount
<1>2. ASSUME NEW k \in Sockets
      PROVE  k.path \notin FixedPaths /\ k.path # Tmp /\ \A o \in Own : o.path # k.path
  BY <1>2, SocketNotTmp DEF SocketClashes
<1>3. ASSUME NEW k \in Sockets, NEW j \in Sockets, k.path = j.path
      PROVE  k = j
  <2>1. NeedsDisplayVolume(t) /\ NeedsDedicatedPulseVolume(t) =>
          Dir(DisplaySocket(t).path) # Dir(PulseServer(t))
    BY DEF NeedsDisplayVolume, NeedsDedicatedPulseVolume
  <2>2. QED
    BY <1>1, <1>3, <2>1 DEF DisplayMounts, PulseMounts
<1>4. \A o \in t.mounts : o.path \notin FixedPaths /\ \A k \in t.mounts : k.path = o.path => k = o
  BY DEF OwnClash
<1>5. \A k \in S : \/ k \in FixedMounts
                   \/ k = Mount(tmp, Tmp)
                   \/ k \in Sockets
                   \/ k \in Own /\ k \in t.mounts /\ k.path # Tmp
  OBVIOUS
<1> HIDE DEF Sockets, Own
<1>6. QED
  BY <1>1, <1>2, <1>3, <1>4, <1>5, FixedApart

(* The containers of a template that nothing clashes in mount each volume  *)
(* at a path of its own (part of PodWorks).                                *)
LEMMA PathsAreUnique ==
    ASSUME NEW t, NEW claim, ~SocketClashes(t), ~OwnClash(t),
           NeedsDedicatedPulseVolume(t) => IsSocket(PulseServer(t))
    PROVE  PathsUnique(Pod(t, claim))
<1>1. Pod(t, claim).containers = Containers(t) /\ Pod(t, claim).init = InitContainers(t)
  BY DEF Pod
<1>2. TrimSlash(Tmp) = Tmp
  BY DEF TrimSlash, Tmp, Last
<1>3. ASSUME NEW m \in ProxyContainer(t).mounts
      PROVE  m \in FixedMounts \/ m = Mount(TmpVolume(t), Tmp) \/ m \in DisplayMounts(t) \cup PulseMounts(t)
  BY <1>3 DEF ProxyContainer, FixedMounts
<1>4. ASSUME NEW m \in DesktopMounts(t)
      PROVE  \/ m \in FixedMounts
             \/ m = Mount("tmp", Tmp) /\ NeedsEmptyTmpVolume(t)
             \/ m \in DisplayMounts(t) \cup PulseMounts(t)
             \/ m \in t.mounts /\ ~IsQEMUTemplate(t)
  BY <1>4 DEF DesktopMounts, FixedMounts
<1>5. ASSUME NEW m \in ProxyContainer(t).mounts, NEW n \in ProxyContainer(t).mounts, m.path = n.path
      PROVE  m = n
  BY <1>3, <1>5, PathsApart
<1>6. ASSUME NEW m \in DesktopMounts(t), NEW n \in DesktopMounts(t), m.path = n.path
      PROVE  m = n
  <2>1. CASE NeedsEmptyTmpVolume(t)
    <3>1. \A k \in t.mounts : k.path # Tmp
      BY <1>2, <2>1 DEF NeedsEmptyTmpVolume
    <3>2. QED
      BY <1>4, <1>6, <3>1, PathsApart
  <2>2. CASE ~NeedsEmptyTmpVolume(t)
    <3> DEFINE S == {k \in DesktopMounts(t) : k.path # Tmp}
    <3>1. CASE m.path = Tmp
      <4>1. \A k \in DesktopMounts(t) : k.path = Tmp => k \in t.mounts
        <5>1. ASSUME NEW k \in FixedMounts
              PROVE  k.path # Tmp
          BY FixedApart
        <5>2. ASSUME NEW k \in DisplayMounts(t) \cup PulseMounts(t)
              PROVE  k.path # Tmp
          BY SocketNotTmp
        <5>3. QED
          BY <1>4, <2>2, <5>1, <5>2
      <4>2. QED
        BY <1>6, <3>1, <4>1 DEF OwnClash
    <3>2. CASE m.path # Tmp
      <4>1. m \in S /\ n \in S
        BY <1>6, <3>2
      <4>2. \A k \in S : \/ k \in FixedMounts
                         \/ k \in DisplayMounts(t) \cup PulseMounts(t)
                         \/ k \in t.mounts /\ ~IsQEMUTemplate(t) /\ k.path # Tmp
        BY <1>4, <2>2
      <4> HIDE DEF S
      <4>3. QED
        BY <1>6, <4>1, <4>2, PathsApart
    <3>3. QED
      BY <3>1, <3>2
  <2>3. QED
    BY <2>1, <2>2
<1>7. t.dind => \A m, n \in DindContainer(t).mounts : m.path = n.path => m = n
  <2>1. DindContainer(t).mounts = t.dindMounts \cup {Mount("run", Run), Mount("docker-data", DockerData)}
    BY DEF DindContainer
  <2>2. Mount("run", Run).path = Run /\ Mount("docker-data", DockerData).path = DockerData
    BY DEF Mount
  <2>3. \A m \in t.dindMounts : /\ m.path # Run /\ m.path # DockerData
                                /\ \A n \in t.dindMounts : n.path = m.path => n = m
    BY DEF OwnClash
  <2>4. QED
    BY <2>1, <2>2, <2>3, FixedApart
<1>8. \A c \in InitContainers(t) : \A m, n \in c.mounts : m = n
  BY DEF InitContainers
<1>9. Main(t).mounts = DesktopMounts(t)
  BY MountsAre
<1>10. QED
  BY <1>1, <1>5, <1>6, <1>7, <1>8, <1>9 DEF PathsUnique, Containers

(* Its volumes have names of their own, if the template's own have.        *)
LEMMA NamesAreUnique ==
    ASSUME NEW t, NEW claim, t.volumes \cap FixedVolumes = {}
    PROVE  NamesUnique(Pod(t, claim))
<1>1. Pod(t, claim).volumes = Volumes(t, claim)
  BY DEF Pod
<1>2. \A n, k : <<n, k>>[1] = n
  OBVIOUS
<1>3. ASSUME NEW v \in Volumes(t, claim)
      PROVE  \/ v \in {<<"run", "empty">>, <<"run-lock", "empty">>, <<"shm", "host">>, <<"tls", "secret">>,
                       <<"home", IF claim THEN "claim" ELSE "empty">>, <<"tmp", "empty">>,
                       <<"vnc-sock", "empty">>, <<"pulse-sock", "empty">>, <<"cgroups", "host">>,
                       <<"qemu-kvm", "host">>, <<"qemu-disk-image", "image">>, <<"docker-data", "empty">>,
                       <<"docker-bin", "empty">>}
             \/ \E n \in t.volumes : v = <<n, "own">>
  BY <1>3 DEF Volumes
<1>4. \A n \in t.volumes : n \notin FixedVolumes
  OBVIOUS
<1>5. ASSUME NEW v \in Volumes(t, claim), NEW w \in Volumes(t, claim), v[1] = w[1]
      PROVE  v = w
  BY <1>2, <1>3, <1>4, <1>5 DEF FixedVolumes
<1>6. QED
  BY <1>1, <1>5 DEF NamesUnique

(* Whatever a template asks for, the pod of its session has every volume   *)
(* that one of its containers mounts, and none of them asks for the root   *)
(* that the pod forbids (parts of PodWorks): the files that make volumes,  *)
(* mounts and security contexts agree. The template's own mounts are of    *)
(* its own volumes.                                                        *)
LEMMA PodIsMade ==
    ASSUME NEW t, NEW claim,
           {m.name : m \in t.mounts} \subseteq t.volumes,
           {m.name : m \in t.dindMounts} \subseteq t.volumes
    PROVE  MountsExist(Pod(t, claim)) /\ RootAllowed(Pod(t, claim))
<1> DEFINE pod == Pod(t, claim)
<1>1. /\ pod.volumes = Volumes(t, claim) /\ pod.init = InitContainers(t)
      /\ pod.containers = Containers(t) /\ pod.nonRoot = NonRoot(t)
  BY DEF Pod
<1> HIDE DEF pod
<1>2. ASSUME NEW c \in Containers(t), NEW m \in c.mounts
      PROVE  \E v \in Volumes(t, claim) : v[1] = m.name
  <2>1. CASE m \in DesktopMounts(t) \cup ProxyContainer(t).mounts
    BY <2>1, MountNames
  <2>2. CASE t.dind /\ c = DindContainer(t)
    <3>1. m \in t.dindMounts \/ m.name \in {"run", "docker-data"}
      BY <2>2 DEF DindContainer, Mount
    <3>2. /\ <<"run", "empty">> \in Volumes(t, claim) /\ <<"docker-data", "empty">> \in Volumes(t, claim)
          /\ \A n \in t.volumes : <<n, "own">> \in Volumes(t, claim)
      BY <2>2 DEF Volumes
    <3>3. \A n, k : <<n, k>>[1] = n
      OBVIOUS
    <3>4. CASE m \in t.dindMounts
      <4>1. <<m.name, "own">> \in Volumes(t, claim)
        BY <3>2, <3>4
      <4>2. QED
        BY <3>3, <4>1
    <3>5. CASE m.name \in {"run", "docker-data"}
      BY <3>2, <3>3, <3>5
    <3>6. QED
      BY <3>1, <3>4, <3>5
  <2>3. c = ProxyContainer(t) \/ c = Main(t) \/ (t.dind /\ c = DindContainer(t))
    BY DEF Containers
  <2>4. Main(t).mounts = DesktopMounts(t)
    BY DEF Main, QEMUContainer, DesktopContainer
  <2>5. QED
    BY <2>1, <2>2, <2>3, <2>4
<1>3. ASSUME NEW c \in InitContainers(t), NEW m \in c.mounts
      PROVE  \E v \in Volumes(t, claim) : v[1] = m.name
  <2>1. m.name = "run" \/ (t.dind /\ m.name = "docker-bin")
    BY DEF InitContainers, Mount
  <2>2. <<"run", "empty">> \in Volumes(t, claim) /\ (t.dind => <<"docker-bin", "empty">> \in Volumes(t, claim))
    BY DEF Volumes
  <2>3. \A n, k : <<n, k>>[1] = n
    OBVIOUS
  <2>4. QED
    BY <2>1, <2>2, <2>3
<1>4. MountsExist(pod)
  BY <1>1, <1>2, <1>3 DEF MountsExist
<1>5. RootAllowed(pod)
  <2>1. ASSUME NonRoot(t), NEW c \in Containers(t)
        PROVE  c.user # 0
    <3>1. ~t.dind /\ ~Systemd(t)
      BY <2>1 DEF NonRoot
    <3>2. c = ProxyContainer(t) \/ c = QEMUContainer(t) \/ c = DesktopContainer(t)
      BY <2>1, <3>1 DEF Containers, Main
    <3>3. ProxyContainer(t).user = -1 /\ QEMUContainer(t).user = 9000
      BY DEF ProxyContainer, QEMUContainer, NoUser
    <3>4. DesktopContainer(t).user = 9000
      BY <3>1 DEF DesktopContainer
    <3>5. QED
      BY <3>2, <3>3, <3>4
  <2>2. QED
    BY <1>1, <2>1 DEF RootAllowed
<1>6. QED
  BY <1>4, <1>5 DEF pod

(* Whatever a sound template asks for, its session's pod works: unless a   *)
(* socket or a mount of the template's own clashes with another mount, the *)
(* pod can be made and the proxy finds the sockets of display and sound    *)
(* where the desktop has them; and in any case none of its containers asks *)
(* for the root that it forbids.                                           *)
THEOREM PodWorksWhenSound ==
    ASSUME Sound(template.spec)
    PROVE  PodWorks
<1>1. MountsExist(Pod(template.spec, template.claim)) /\ RootAllowed(Pod(template.spec, template.claim))
  BY PodIsMade DEF Sound
<1>2. DisplayFound(template.spec) /\ PulseFound(template.spec)
  BY DisplayIsFound, PulseIsFound
<1>3. ~SocketClashes(template.spec) /\ ~OwnClash(template.spec) =>
        PathsUnique(Pod(template.spec, template.claim)) /\ NamesUnique(Pod(template.spec, template.claim))
  <2>1. NeedsDedicatedPulseVolume(template.spec) => ~IsPrefix(Home, PulseServer(template.spec))
    BY DEF NeedsDedicatedPulseVolume
  <2>2. QED
    BY <2>1, PathsAreUnique, NamesAreUnique DEF Sound, SocketAt, OwnClash
<1>4. QED
  BY <1>1, <1>2, <1>3 DEF PodWorks, CanBeMade
=============================================================================
