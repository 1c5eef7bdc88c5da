--------------------------- MODULE DisplayStream ---------------------------
(***************************************************************************)
(* The display of one desktop session, streamed to a browser: the handler  *)
(* GetWebsockify in the app, the connection of pkg/proxyproto, and         *)
(* handleDisplay in the proxy beside the desktop, which also gives the     *)
(* desktop its sound devices for as long as somebody looks at it           *)
(* (pkg/audio/pa). On either side two goroutines copy, one each way, and   *)
(* the first to end lets the handler go on.                                *)
(*                                                                         *)
(* The lock of the display is the exclusive lock of ExclusiveLock, without *)
(* expiry. The browser, the display server and the PulseAudio server are   *)
(* outside the repository.                                                 *)
(***************************************************************************)
EXTENDS Integers, Sequences, FiniteSets

CONSTANTS Viewer,      \* requests for the display of the session
          Other,       \* requests for it that are not followed but for the lock
          Nobody,      \* the holder of the free lock
          Buffer,      \* bytes in flight from the app to the proxy
          MaxFaults    \* bound: calls that fail and processes that die

ASSUME DisplayAssumption ==
    Nobody \notin Viewer /\ Other \notin Viewer \cup {Nobody} /\ Buffer \in Nat \ {0} /\ MaxFaults \in Nat

VARIABLES holder,   \* the viewer the display lock is granted to
          app,      \* app[v]: the handler in the app and its copying goroutines
          browser,  \* browser[v]: the websocket
          link,     \* link[v]: the connection of the app and the proxy
          prx,      \* prx[v]: the handler in the proxy and its copying goroutines
          screen,   \* screen[v]: the proxy's connection to the display server
          devices,  \* devices[v]: the device manager of the handler
          modules,  \* the modules the PulseAudio server has loaded
          failures  \* faults so far

displayVars == <<holder, app, browser, link, prx, screen, devices, modules, failures>>

Copying == {"off", "on", "full", "end"}   \* full: read and not yet written
Invalid == "invalid"     \* the index PulseAudio answers for a module it cannot load
Kinds == {"sink", "source"}

DisplayTypeOK ==
    /\ holder \in Viewer \cup {Nobody, Other}
    /\ app \in [Viewer -> [at : {"idle", "lock", "dial", "status", "upgrade", "stream",
                                 "closeConn", "release", "end", "held", "dead"},
                           up : Copying, down : Copying]]
    /\ browser \in [Viewer -> {"none", "open", "closed"}]
    /\ link \in [Viewer -> [app : {"none", "open", "closed"}, prx : {"none", "open", "closed"},
                            status : {"none", "ok", "failed"}, sent : 0..Buffer]]
    /\ prx \in [Viewer -> [at : {"none", "dial", "status", "manager", "ready", "sink", "source",
                                 "default", "undo", "wait", "destroy", "close", "end"},
                           up : Copying, down : Copying]]
    /\ screen \in [Viewer -> {"none", "open", "closed"}]
    /\ devices \in [Viewer -> [context : {"none", "open", "freed"},
                               list : Seq(Kinds \cup {Invalid}), next : Nat, logged : BOOLEAN]]
    /\ modules \subseteq Viewer \X Kinds
    /\ failures \in 0..MaxFaults

(* No device manager. logged remembers an error that Destroy returned. *)
NoManager(logged) == [context |-> "none", list |-> <<>>, next |-> 1, logged |-> logged]

DisplayInit ==
    /\ holder = Nobody
    /\ app = [v \in Viewer |-> [at |-> "idle", up |-> "off", down |-> "off"]]
    /\ browser = [v \in Viewer |-> "none"]
    /\ link = [v \in Viewer |-> [app |-> "none", prx |-> "none", status |-> "none", sent |-> 0]]
    /\ prx = [v \in Viewer |-> [at |-> "none", up |-> "off", down |-> "off"]]
    /\ screen = [v \in Viewer |-> "none"]
    /\ devices = [v \in Viewer |-> NoManager(FALSE)]
    /\ modules = {}
    /\ failures = 0

Pulse == <<devices, modules>>
Fault == failures < MaxFaults /\ failures' = failures + 1

AppGoes(v, at) == app' = [app EXCEPT ![v].at = at]
PrxGoes(v, at) == prx' = [prx EXCEPT ![v].at = at]

-----------------------------------------------------------------------------
(* The app: GetWebsockify and ServeWebsocketProxy.                         *)

Request(v) ==
    /\ app[v].at = "idle"
    /\ AppGoes(v, "lock")
    /\ browser' = [browser EXCEPT ![v] = "open"]
    /\ UNCHANGED <<holder, link, prx, screen, Pulse, failures>>

Acquire(v) ==
    /\ app[v].at = "lock" /\ holder = Nobody
    /\ holder' = v
    /\ AppGoes(v, "dial")
    /\ UNCHANGED <<browser, link, prx, screen, Pulse, failures>>

(* The lock is granted but the answer is lost: Acquire tries again, and     *)
(* waits for its own lock. held: the handler has left the lock behind.     *)
AcquireLost(v) ==
    /\ app[v].at = "lock" /\ holder = Nobody
    /\ Fault
    /\ holder' = v
    /\ AppGoes(v, "held")
    /\ UNCHANGED <<browser, link, prx, screen, Pulse>>

(* Acquire does not find its pod and returns an error, as the handler does. *)
AcquireFails(v) ==
    /\ app[v].at = "lock"
    /\ Fault
    /\ AppGoes(v, "end")
    /\ browser' = [browser EXCEPT ![v] = "closed"]
    /\ UNCHANGED <<holder, link, prx, screen, Pulse>>

(* Dial, which sends the type of the request; the proxy's handleConn reads *)
(* it and calls the handler in a goroutine of its own.                     *)
Dial(v) ==
    /\ app[v].at = "dial"
    /\ AppGoes(v, "status")
    /\ link' = [link EXCEPT ![v].app = "open", ![v].prx = "open"]
    /\ PrxGoes(v, "dial")
    /\ UNCHANGED <<holder, browser, screen, Pulse, failures>>

(* The session has no address yet, or the proxy cannot be reached. *)
DialFails(v) ==
    /\ app[v].at = "dial"
    /\ Fault
    /\ AppGoes(v, "release")
    /\ UNCHANGED <<holder, browser, link, prx, screen, Pulse>>

ReadStatus(v) ==
    /\ app[v].at = "status"
    /\ \/ link[v].status = "ok" /\ AppGoes(v, "upgrade") /\ UNCHANGED link
       \/ /\ link[v].status = "failed" \/ (link[v].status = "none" /\ link[v].prx = "closed")
          /\ AppGoes(v, "release")
          /\ link' = [link EXCEPT ![v].app = "closed"]
    /\ UNCHANGED <<holder, browser, prx, screen, Pulse, failures>>

Upgrade(v) ==
    /\ app[v].at = "upgrade"
    /\ IF browser[v] = "open"
       THEN app' = [app EXCEPT ![v] = [at |-> "stream", up |-> "on", down |-> "on"]]
       ELSE AppGoes(v, "closeConn")
    /\ UNCHANGED <<holder, browser, link, prx, screen, Pulse, failures>>

(* The goroutine that copies from the websocket to the proxy reads what    *)
(* the browser sends, or the end of a websocket that is closed ...         *)
AppRead(v) ==
    /\ app[v].up = "on" /\ browser[v] = "open"
    /\ app' = [app EXCEPT ![v].up = "full"]
    /\ UNCHANGED <<holder, browser, link, prx, screen, Pulse, failures>>

AppReadEnds(v) ==
    /\ app[v].up = "on" /\ browser[v] = "closed"
    /\ app' = [app EXCEPT ![v].up = "end"]
    /\ UNCHANGED <<holder, browser, link, prx, screen, Pulse, failures>>

(* ... and writes it, unless either side has closed the connection. *)
AppWrite(v) ==
    /\ app[v].up = "full"
    /\ \/ /\ link[v].app = "open" /\ link[v].prx = "open" /\ link[v].sent < Buffer
          /\ link' = [link EXCEPT ![v].sent = @ + 1]
          /\ app' = [app EXCEPT ![v].up = "on"]
       \/ /\ "closed" \in {link[v].app, link[v].prx}
          /\ app' = [app EXCEPT ![v].up = "end"]
          /\ UNCHANGED link
    /\ UNCHANGED <<holder, browser, prx, screen, Pulse, failures>>

(* The goroutine that copies from the proxy to the websocket. What it      *)
(* copies changes nothing else; it ends when either end is closed.         *)
AppDown(v) ==
    /\ app[v].down = "on"
    /\ "closed" \in {browser[v], link[v].app, link[v].prx}
    /\ app' = [app EXCEPT ![v].down = "end"]
    /\ UNCHANGED <<holder, browser, link, prx, screen, Pulse, failures>>

(* Broken: the lock is released before the connection is closed. *)
CloseReleased(v) ==
    /\ app[v].at = "stream" /\ "end" \in {app[v].up, app[v].down}
    /\ holder' = Nobody
    /\ browser' = [browser EXCEPT ![v] = "closed"]
    /\ AppGoes(v, "closeConn")
    /\ UNCHANGED <<link, prx, screen, Pulse, failures>>

(* The context is cancelled: the deferred calls run, the last one first. *)
CloseWebsocket(v) ==
    /\ app[v].at = "stream" /\ "end" \in {app[v].up, app[v].down}
    /\ browser' = [browser EXCEPT ![v] = "closed"]
    /\ AppGoes(v, "closeConn")
    /\ UNCHANGED <<holder, link, prx, screen, Pulse, failures>>

CloseConn(v) ==
    /\ app[v].at = "closeConn"
    /\ link' = [link EXCEPT ![v].app = "closed"]
    /\ AppGoes(v, "release")
    /\ UNCHANGED <<holder, browser, prx, screen, Pulse, failures>>

Release(v) ==
    /\ app[v].at = "release"
    /\ holder' = Nobody
    /\ AppGoes(v, "end")
    /\ UNCHANGED <<browser, link, prx, screen, Pulse, failures>>

(* Release fails, which is only logged: the lock, without expiry, stays.   *)
ReleaseFails(v) ==
    /\ app[v].at = "release"
    /\ Fault
    /\ AppGoes(v, "held")
    /\ UNCHANGED <<holder, browser, link, prx, screen, Pulse>>

(* The pod of the app dies: its sockets are closed, and the lock, which it *)
(* owns, is collected.                                                     *)
AppDies(v) ==
    /\ app[v].at \notin {"idle", "end", "dead"}
    /\ Fault
    /\ app' = [app EXCEPT ![v] = [at |-> "dead", up |-> "end", down |-> "end"]]
    /\ browser' = [browser EXCEPT ![v] = "closed"]
    /\ link' = [link EXCEPT ![v].app = IF @ = "open" THEN "closed" ELSE @]
    /\ UNCHANGED <<holder, prx, screen, Pulse>>

CollectLock(v) ==
    /\ holder = v /\ app[v].at = "dead"
    /\ holder' = Nobody
    /\ UNCHANGED <<app, browser, link, prx, screen, Pulse, failures>>

(* Other requests take the lock when it is free, and let it go again. *)
OtherHolds ==
    /\ \/ holder = Nobody /\ holder' = Other
       \/ holder = Other /\ holder' = Nobody
    /\ UNCHANGED <<app, browser, link, prx, screen, Pulse, failures>>

(* The browser goes away. *)
Leave(v) ==
    /\ browser[v] = "open"
    /\ browser' = [browser EXCEPT ![v] = "closed"]
    /\ UNCHANGED <<holder, app, link, prx, screen, Pulse, failures>>

-----------------------------------------------------------------------------
(* The proxy: handleDisplay.                                               *)

(* A failed dial is answered with WriteError. *)
DialDisplay(v) ==
    /\ prx[v].at = "dial"
    /\ \/ /\ screen' = [screen EXCEPT ![v] = "open"]
          /\ PrxGoes(v, "status")
          /\ UNCHANGED <<link, failures>>
       \/ /\ Fault
          /\ link' = [link EXCEPT ![v].status = "failed"]
          /\ PrxGoes(v, "close")
          /\ UNCHANGED screen
    /\ UNCHANGED <<holder, app, browser, Pulse>>

(* WriteStatus, and the two goroutines are started; without a connection   *)
(* to the app the handler returns.                                         *)
WriteStatus(v) ==
    /\ prx[v].at = "status"
    /\ \/ /\ link' = [link EXCEPT ![v].status = "ok"]
          /\ prx' = [prx EXCEPT ![v] = [at |-> "manager", up |-> "on", down |-> "on"]]
       \/ /\ link[v].app = "closed"
          /\ PrxGoes(v, "close")
          /\ UNCHANGED link
    /\ UNCHANGED <<holder, app, browser, screen, Pulse, failures>>

(* The goroutine that copies from the app to the display server. *)
PrxUp(v) ==
    /\ prx[v].up = "on"
    /\ \/ /\ link[v].sent > 0 /\ link[v].prx = "open" /\ screen[v] = "open"
          /\ link' = [link EXCEPT ![v].sent = @ - 1]
          /\ UNCHANGED prx
       \/ /\ \/ link[v].prx = "closed"
             \/ link[v].sent > 0 /\ screen[v] = "closed"
             \/ link[v].sent = 0 /\ link[v].app = "closed"
          /\ prx' = [prx EXCEPT ![v].up = "end"]
          /\ UNCHANGED link
    /\ UNCHANGED <<holder, app, browser, screen, Pulse, failures>>

(* The goroutine that copies from the display server to the app. It learns *)
(* that the app is gone only when the display has something to show.       *)
PrxDown(v) ==
    /\ prx[v].down = "on" /\ screen[v] = "open"
    /\ "closed" \in {link[v].app, link[v].prx}
    /\ prx' = [prx EXCEPT ![v].down = "end"]
    /\ UNCHANGED <<holder, app, browser, link, screen, Pulse, failures>>

(* It reads the end of a display that closed the connection. *)
PrxDownEnds(v) ==
    /\ prx[v].down = "on" /\ screen[v] = "closed"
    /\ prx' = [prx EXCEPT ![v].down = "end"]
    /\ UNCHANGED <<holder, app, browser, link, screen, Pulse, failures>>

(* The display server closes a connection. *)
DisplayCloses(v) ==
    /\ screen[v] = "open"
    /\ Fault
    /\ screen' = [screen EXCEPT ![v] = "closed"]
    /\ UNCHANGED <<holder, app, browser, link, prx, Pulse>>

(* Nothing in the handler closes the connection to the display: it is      *)
(* closed by its finalizer when neither goroutine uses it any more.        *)
Finalize(v) ==
    /\ screen[v] = "open" /\ prx[v].at \in {"close", "end"} /\ "on" \notin {prx[v].up, prx[v].down}
    /\ screen' = [screen EXCEPT ![v] = "closed"]
    /\ UNCHANGED <<holder, app, browser, link, prx, Pulse, failures>>

-----------------------------------------------------------------------------
(* The proxy: the sound devices, set up while the goroutines copy.         *)

(* newDeviceManager; when it fails it frees what it made. *)
NewManager(v) ==
    /\ prx[v].at = "manager"
    /\ \/ /\ devices' = [devices EXCEPT ![v].context = "open"]
          /\ PrxGoes(v, "ready")
          /\ UNCHANGED failures
       \/ /\ Fault
          /\ PrxGoes(v, "wait")
          /\ UNCHANGED devices
    /\ UNCHANGED <<holder, app, browser, link, screen, modules>>

(* WaitForReady: the PulseAudio server accepts the connection, refuses it, *)
(* or has not answered within two seconds.                                 *)
WaitForReady(v) ==
    /\ prx[v].at = "ready"
    /\ PrxGoes(v, "sink") \/ PrxGoes(v, "undo")
    /\ UNCHANGED <<holder, app, browser, link, screen, Pulse, failures>>

Listed(v, k) == devices' = [devices EXCEPT ![v].list = Append(@, k)]

(* A module is loaded, the server cannot load it and answers Invalid, or   *)
(* the call fails. AddSink does not look at the index.                     *)
AddSink(v) ==
    /\ prx[v].at = "sink"
    /\ \/ /\ modules' = modules \cup {<<v, "sink">>}
          /\ Listed(v, "sink") /\ PrxGoes(v, "source") /\ UNCHANGED failures
       \/ Fault /\ Listed(v, Invalid) /\ PrxGoes(v, "source") /\ UNCHANGED modules
       \/ Fault /\ PrxGoes(v, "undo") /\ UNCHANGED Pulse
    /\ UNCHANGED <<holder, app, browser, link, screen>>

AddSource(v) ==
    /\ prx[v].at = "source"
    /\ \/ /\ modules' = modules \cup {<<v, "source">>}
          /\ Listed(v, "source") /\ PrxGoes(v, "default") /\ UNCHANGED failures
       \/ Fault /\ PrxGoes(v, "undo") /\ UNCHANGED Pulse
    /\ UNCHANGED <<holder, app, browser, link, screen>>

SetDefaultSource(v) ==
    /\ prx[v].at = "default"
    /\ \/ PrxGoes(v, "wait") /\ UNCHANGED failures
       \/ Fault /\ PrxGoes(v, "undo")
    /\ UNCHANGED <<holder, app, browser, link, screen, Pulse>>

(* Where Destroy returns to: from the failed setup, or from the defer. *)
Returns(v) == PrxGoes(v, IF prx[v].at = "undo" THEN "wait" ELSE "close")
InDestroy(v) == prx[v].at \in {"undo", "destroy"}
Entry(v) == devices[v].list[devices[v].next]

(* Destroy unloads one device after the other ... *)
Unload(v) ==
    /\ InDestroy(v) /\ devices[v].context # "freed"
    /\ devices[v].next <= Len(devices[v].list) /\ Entry(v) # Invalid
    /\ <<v, Entry(v)>> \in modules
    /\ modules' = modules \ {<<v, Entry(v)>>}
    /\ devices' = [devices EXCEPT ![v].next = @ + 1]
    /\ UNCHANGED <<holder, app, browser, link, prx, screen, failures>>

(* ... returns at the first it cannot unload, which its caller logs ...    *)
UnloadFails(v) ==
    /\ InDestroy(v) /\ devices[v].context # "freed"
    /\ devices[v].next <= Len(devices[v].list)
    /\ IF Entry(v) = Invalid \/ <<v, Entry(v)>> \notin modules THEN UNCHANGED failures ELSE Fault
    /\ devices' = [devices EXCEPT ![v].next = 1, ![v].logged = TRUE]
    /\ Returns(v)
    /\ UNCHANGED <<holder, app, browser, link, screen, modules>>

(* Broken: the setup that failed counts its devices as gone already. *)
DisconnectFirst(v) ==
    /\ InDestroy(v) /\ devices[v].context # "freed"
    /\ prx[v].at = "undo" \/ devices[v].next > Len(devices[v].list)
    /\ devices' = [devices EXCEPT ![v].context = "freed", ![v].next = 1]
    /\ Returns(v)
    /\ UNCHANGED <<holder, app, browser, link, screen, modules, failures>>

(* ... and disconnects. *)
Disconnect(v) ==
    /\ InDestroy(v) /\ devices[v].context # "freed"
    /\ devices[v].next > Len(devices[v].list)
    /\ devices' = [devices EXCEPT ![v].context = "freed", ![v].next = 1]
    /\ Returns(v)
    /\ UNCHANGED <<holder, app, browser, link, screen, modules, failures>>

(* Broken: only the copy of what the viewer sends wakes the handler. *)
WokenByUp(v) ==
    /\ prx[v].at = "wait" /\ prx[v].up = "end"
    /\ PrxGoes(v, IF devices[v].context = "none" THEN "close" ELSE "destroy")
    /\ UNCHANGED <<holder, app, browser, link, screen, Pulse, failures>>

(* Either copy has ended. The deferred calls: Destroy, if there is a       *)
(* manager, then the connection is closed.                                 *)
Woken(v) ==
    /\ prx[v].at = "wait" /\ "end" \in {prx[v].up, prx[v].down}
    /\ PrxGoes(v, IF devices[v].context = "none" THEN "close" ELSE "destroy")
    /\ UNCHANGED <<holder, app, browser, link, screen, Pulse, failures>>

PrxClose(v) ==
    /\ prx[v].at = "close"
    /\ link' = [link EXCEPT ![v].prx = "closed", ![v].sent = 0]
    /\ PrxGoes(v, "end")
    /\ devices' = [devices EXCEPT ![v] = NoManager(@.logged)]
    /\ UNCHANGED <<holder, app, browser, screen, modules, failures>>

(* The process of the proxy ends, and with it every handler in it. The     *)
(* modules are in the PulseAudio server, which stays.                      *)
ProcessEnds ==
    /\ prx' = [v \in Viewer |-> IF prx[v].at = "none" THEN prx[v]
                                ELSE [at |-> "end", up |-> "end", down |-> "end"]]
    /\ link' = [v \in Viewer |-> IF link[v].prx = "open" THEN [link[v] EXCEPT !.prx = "closed", !.sent = 0] ELSE link[v]]
    /\ screen' = [v \in Viewer |-> IF screen[v] = "open" THEN "closed" ELSE screen[v]]
    /\ devices' = [v \in Viewer |-> NoManager(devices[v].logged \/ prx[v].at \notin {"none", "end"})]
    /\ UNCHANGED <<holder, app, browser, modules>>

ProxyDies ==
    /\ \E v \in Viewer : prx[v].at \notin {"none", "end"}
    /\ Fault
    /\ ProcessEnds

(* A second Destroy works on a context that was freed: undefined, so the   *)
(* process ends, or the calls do nothing or fail.                          *)
DestroyFreed(v) ==
    /\ InDestroy(v) /\ devices[v].context = "freed"
    /\ \/ ProcessEnds /\ UNCHANGED failures
       \/ /\ Returns(v)
          /\ UNCHANGED <<holder, app, browser, link, screen, Pulse, failures>>

-----------------------------------------------------------------------------

AppStep(v) ==
    \/ Dial(v) \/ DialFails(v) \/ ReadStatus(v) \/ Upgrade(v)
    \/ CloseWebsocket(v) \/ CloseConn(v) \/ Release(v) \/ ReleaseFails(v)

Destroying(v) == Unload(v) \/ UnloadFails(v) \/ Disconnect(v) \/ DestroyFreed(v)

PrxStep(v) ==
    \/ DialDisplay(v) \/ WriteStatus(v)
    \/ NewManager(v) \/ WaitForReady(v) \/ AddSink(v) \/ AddSource(v) \/ SetDefaultSource(v)
    \/ Destroying(v) \/ Woken(v) \/ PrxClose(v)

DisplayNext ==
    \/ \E v \in Viewer :
         \/ Request(v) \/ Acquire(v) \/ AcquireLost(v) \/ AcquireFails(v) \/ AppStep(v)
         \/ AppRead(v) \/ AppReadEnds(v) \/ AppWrite(v) \/ AppDown(v)
         \/ AppDies(v) \/ CollectLock(v) \/ Leave(v)
         \/ PrxStep(v) \/ PrxUp(v) \/ PrxDown(v) \/ PrxDownEnds(v)
         \/ DisplayCloses(v) \/ Finalize(v)
    \/ OtherHolds \/ ProxyDies

(* Goroutines run, reads of a closed connection end, the PulseAudio server *)
(* answers, and an open browser and an open display take what they are     *)
(* sent. Neither need ever send anything, and a viewer need never leave.   *)
DisplayFairness ==
    \A v \in Viewer :
      /\ WF_displayVars(AppStep(v)) /\ WF_displayVars(AppDown(v))
      /\ WF_displayVars(AppReadEnds(v)) /\ WF_displayVars(AppWrite(v))
      /\ WF_displayVars(CollectLock(v))
      /\ WF_displayVars(PrxStep(v)) /\ WF_displayVars(PrxUp(v)) /\ WF_displayVars(PrxDownEnds(v))

DisplaySpec == DisplayInit /\ [][DisplayNext]_displayVars /\ DisplayFairness

-----------------------------------------------------------------------------
(* The app sends on what a browser types only while its viewer has the     *)
(* lock, although the goroutine that copies it may outlive the handler. It *)
(* says nothing of what was sent before: the proxy may hand that to the    *)
(* display after the lock has passed on, a Buffer of it at most.           *)
SentUnderLock == [][\A v \in Viewer : link'[v].sent > link[v].sent => holder = v]_displayVars

(* When a viewer leaves, or the display or the proxy ends the stream, both *)
(* handlers end, whatever of the other goroutines is still waiting for the *)
(* display, and the lock is free for the next viewer, unless a call of its *)
(* own that failed has left it behind: then it is free when the app's pod  *)
(* has died.                                                               *)
Over(v) == browser[v] = "closed" \/ screen[v] = "closed" \/ link[v].prx = "closed"

StreamsEnd ==
    \A v \in Viewer :
      /\ (holder = v /\ Over(v)) ~> (holder # v \/ app[v].at = "held")
      /\ (holder = v /\ app[v].at = "dead") ~> (holder # v)
      /\ (prx[v].at # "none" /\ Over(v)) ~> (prx[v].at = "end" /\ link[v].prx = "closed")

(* A handler that has ended leaves no sound device behind but after an     *)
(* error that was logged or the end of the process, however far the setup  *)
(* had come and however often Destroy was called.                          *)
DevicesGo ==
    \A v \in Viewer :
      prx[v].at = "end" /\ ~ devices[v].logged => ~ \E k \in Kinds : <<v, k>> \in modules
=============================================================================
