# kvdi in TLA+

TLA+ models of kvdi, a Kubernetes operator with an API server that gives users
desktops in pods, with the TLC runs that check them and proofs checked by
TLAPS. Every definition is written from the Go source; `PROJECT.json` has, for
each definition that models code, the file and the lines it models, for each
run its question, and for each property a mutation of a modelled definition
that breaks it.

Parse a module with SANY, check a run with
`tlc -workers 2 -config <Run>.cfg <MCModule>.tla`, and proofs with
`tlapm <Module>Proofs.tla`.

## The system

kvdi has three kinds of processes. They meet only in the Kubernetes API server
and in the secret backend.

- The **manager** (`cmd/manager`, `controllers`, `pkg/resources`): one
  leader, one worker for VDIClusters and one for Sessions.
- The **app** (`cmd/app`, `pkg/api`): one or more replicas of the HTTP API,
  each with its own secret engine and caches.
- The **desktop proxy** (`cmd/kvdi-proxy`, `pkg/proxyproto`, `pkg/audio`): a
  sidecar in every session pod. The app connects to it for the display, audio
  and files.

Beside them, **kvdictl** (`cmd/kvdictl`, `pkg/cmd`, `pkg/api/client`) is a client
of the API on somebody's own machine.

### Inventory

| Component (source) | State | Operations | What is hard | What makes it correct |
| --- | --- | --- | --- | --- |
| ConfigMap lock (`pkg/util/lock`) | one ConfigMap per lock; per goroutine `rawLock`, timeout, name | `Acquire`, `Release`, expiry check | every call may interleave with other goroutines and pods; expiry; lost replies; the holder's pod dies | one holder at a time; a waiter gets in; an acquire with a timeout returns |
| Secret engine (`pkg/secrets`, `providers/k8secret`, `providers/vault`) | the secret, a cache, a mutex, the remote lock | `ReadSecret`, `WriteSecret`, `AppendSecret`, maps, `Lock`, `Release` | read-modify-write of a whole secret by several replicas; conflicts; failing calls; a failed acquire | an acknowledged change is not lost, no request hangs |
| Local users, refresh tokens (`pkg/auth/providers/local`, `pkg/api/api_common.go`) | the passwd table; the token table | create, update, delete, authenticate; issue, look up and consume a token | use the engine from several replicas | tokens are used once, users are created once |
| Home volumes (`pkg/resources/desktop/volumes.go`, `volume_reclaim.go`, `util.go`) | claims, volumes, the map of volumes, finalizers | make the claim, free and record the volume, reclaim | sessions deleted at any time; the garbage collector and the volume controller act between calls; crashes | the home of a user survives and the next session gets it |
| Session life cycle (`pkg/api/post_sessions.go`, `pkg/resources/desktop/reconciler.go`) | Session objects, env secrets, pods, timers | start, delete, reconcile, time out | limit check and create are separate; timers are in memory; failing steps | the limit; the maximum length; nothing left after an error |
| Permissions (`pkg/util/rbac`, `apis/rbac/v1`, `pkg/api/api_validate_*.go`) | roles, users, templates; the rules in each token | evaluate an action, include a rule, filter; requests that change roles and users | patterns, lists and wildcards combine; a request is checked before other requests run and carried out after them | whoever may grant a rule has it |
| MFA (`pkg/auth/mfa`, `pkg/api/*mfa*`) | the table of OTP secrets | read, set, verify, remove | rows are found by a prefix; read and write-back in separate requests | a verified secret was proved by its user |
| Login (`pkg/api/post_login.go`, `get_refresh_token.go`, `pkg/auth/providers`) | tokens, OIDC login state | log in, authorize, refresh, log out | state shared by replicas through caches; several steps of one login | a login ends with the user that began it |
| OIDC login (`pkg/auth/providers/oidc`) | claims saved under a state, the caches of the replicas | POST, callback, POST | three requests at any replicas, with caches | claims that were handed out are forgotten |
| LDAP and webmesh (`pkg/auth/providers/ldap`, `webmesh`) | none: the directory is outside | authenticate, get and list users | roles are made of groups in several places | all places give the same roles |
| Desktop proxy (`pkg/proxyproto`, `pkg/api/get_websockify.go`, `pkg/util/apiutil`) | connections, copying goroutines | connect, copy, close, stat, get, put | two goroutines per stream and side end at different times; framing | each handler ends, each stream has one viewer, files arrive whole |
| Audio (`pkg/audio`) | PulseAudio devices, pipelines, a main loop | set up, read, write, restart, close, destroy | error channels and waits; one of several devices fails | no goroutine waits for ever, no device is left |
| Cluster and PKI (`controllers/app`, `pkg/resources/app`, `pkg/pki`) | CA, certificates, resources of a cluster | reconcile; look up, make, store, verify | the CA is looked up, made and stored in separate calls | one CA; all certificates are signed by it |
| Session pods (`apis/desktops/v1/template_util*.go`) | none | build the pod of a session from its template | volumes, mounts, environment and arguments are made in different files | every mount has its volume, the proxy finds the sockets of the desktop |
| API assembly (`pkg/api/api*.go`, `pkg/types`) | none | route, decode, authorize, dispatch | four tables in as many files | the tables agree |
| Vault backend (`pkg/secrets/providers/vault`) | client, token, the loop that renews it | set up, renew, close | the loop runs beside setup and use; the vault goes away | the token lives while requests use it |
| kvdictl (`pkg/cmd`, `pkg/api/client`) | the refresh token of each invocation | log in, fetch, change and put back a role, log out | edits of several people interleave | an edit keeps what it does not name; tokens are revoked |
| CRD types and generated code, web UI | | | | not modelled, see below |

The components interact in few places. The app creates and deletes Session
objects, the manager reconciles them. Requests change users, tokens, MFA rows
and OIDC state through the secret engine, and the secret engine takes the
ConfigMap lock. The websocket handlers take the ConfigMap lock of a stream.
The session pass makes the claim, the pod and its certificate. The display
stream sets up and takes down the sound devices of the desktop. The hazards
this leads to, each with its line and the property aimed at it, are in
`PROJECT.json`.

## The modules

| Module | Models | State in the code |
| --- | --- | --- |
| `ExclusiveLock` | abstract: what a lock without expiry promises | |
| `ConfigMapLock` | `pkg/util/lock/lock.go`, call by call | `cm` the ConfigMap; `pc`, `deadline`, `seen` the locals of `Acquire` and `Release` |
| `ConfigMapLockProofs` | theorems on it | |
| `SecretMap` | abstract: one table, operations at one instant | |
| `SecretEngine` | `Lock`, read, change, write, `Release` of `pkg/secrets`, for the tables of users and refresh tokens | `table`, `version` the backing object; `mux`, `hasLock` of each engine; `remote` the lock's ConfigMap |
| `ApiProofs` | theorems on `SecretEngine`, `ExternalLogin`, `Kvdictl` and `VaultToken` | |
| `UserdataVolumes` | `reconcileVolumes`, `reconcileUserdataMapping`, `ensureFinalizers`, `reclaimVolumes` | `claim`, `pv`, `pod`, `session`, `volMap` objects in the API server; `worker` the pass |
| `UserdataVolumesProofs` | theorems on it | |
| `DesktopSessions` | `StartDesktopSession`, `DeleteDesktopSession`, the session pass, `killOnSessionTimeout` | `request` each handler; `object`, `secret`, `pod` in the API server; `timer` the goroutines |
| `DesktopSessionsProofs` | theorems on it | |
| `Rules` | rules, what they allow and include, the filters of lists: `pkg/util/rbac`, `apis/rbac/v1/rules.go` | none |
| `Permissions` | the middleware that admits a request, and the requests that change roles, users and templates | `roles`, `users`, `templates` objects; `token` the rules in each token; `pending` the request between middleware and handler |
| `PermissionsProofs` | theorems on both, and on `RequestGate` | |
| `MFATable` | the table of `pkg/auth/mfa`, a line for each user | none: operators on a sequence of rows |
| `Login` | `PostLogin`, `PostAuthorize`, `GetRefreshToken`, `PostLogout`, `PutUserMFA`, `PutUserMFAVerify`, and the cookie and token of the browser | `rows` the MFA table; `refresh` the token table; `cookie`, `jwt` of each browser; `req` the request of each tab |
| `LoginProofs` | theorems on it | |
| `ClusterPass` | the pass over a cluster (`pkg/resources/app`, `pkg/pki`, `pkg/util/reconcile`) and the PKI part of a session's | `live`, `cached` the objects in the API server and in the manager's cache; `queued` the work queue; `pass` where each worker is |
| `ClusterPassProofs` | theorems on it | |
| `DisplayStream` | the display of a session: `GetWebsockify`, `ServeWebsocketProxy`, `handleDisplay`, and the device manager of `pkg/audio/pa` | `app`, `prx` the two handlers with their copying goroutines; `link` the connection between them; `browser`, `screen` its neighbours; `devices`, `modules` the manager's list and what PulseAudio has loaded |
| `ProxyProofs` | theorems on `DisplayStream`, `AudioStream`, `FileTransfer` and `SessionPod` | |
| `AudioStream` | `handleAudio` and the buffer of `pkg/audio` | `play`, `rec`, `mic` the pipelines; `loop` the main loop; `copy`, `watch` the goroutines |
| `FileTransfer` | stat, download and upload of a file: handlers of the app, `pkg/proxyproto`, handlers of the proxy | `asking`, `sending` the app; `serving` the proxy; `wire` the records in flight |
| `WebsocketCopy` | `GorillaReadWriter.Read` under `io.Copy` | `buffered` the rest of a message; `copied` what was written |
| `SessionPod` | `ToPodSpec` and the functions it calls | none: operators on a template |
| `VaultToken` | `Setup`, the refresh loop and `Close` of the vault provider | `client` the token in use; `renewer` the loop; `setup`, `close` the calls |
| `RequestGate` | the router, the decoders, the grants and the types handlers assert | `call` a request on its way |
| `Kvdictl` | an invocation of kvdictl on roles, and `CreateRole`, `UpdateRole`, `DeleteRole` of the server | `roles` the objects; `cli` each invocation; `issued` the refresh tokens |
| `ExternalLogin` | the OIDC flow, and the roles that OIDC, LDAP and webmesh make of groups | `stored`, `cached` the claims; `post`, `visit` the requests; `directory` the groups |
| `MC*` | instances for TLC; `MCLocks`, `MCProxy` and `MCApi` check several components that do not interact in one run | `followed` the component that moves |

In all of them a call to the API server or to the secret backend is a step, and
what a goroutine does between two calls belongs to the step before it. A call
that fails is an action of its own, bounded by `MaxFaults`; where a failed call
may have been applied although its caller saw an error, both outcomes are
there. Operators whose comment begins with `Broken` are mutations: nothing in
the specifications uses them. `PROJECT.json` names the definition each would
replace and the property that then fails.

### ConfigMapLock

The holder is whoever created the ConfigMap. `Acquire` is `Start`, then the
attempts of `Retry`: `Create`; on AlreadyExists `Get`, `Check` (the expiry that
was read, against the clock), `DeleteStale`, `Late` (the deadline), `Recreate`.
`Release` is `ReleaseGet` (compare the owner) and `ReleaseDelete`. Goroutines
of one pod write the same owner, so `ReleaseGet` compares pods, not
goroutines. `CollectGarbage` deletes the ConfigMap of a pod that is gone.

Locks come in two uses, and the run `locks` has both. The display and audio
locks have no expiry (`Timeout = -1`), and for those the code gives mutual
exclusion, proved below. Locks with a timeout (users, MFA, tokens) expire for
others at the deadline of their own acquire, so exclusion is promised only until
then; `TimedAcquireReturns` says that such an `Acquire` returns whatever the
holder does.
`lock_steal` shows a second holder before any ConfigMap has outlived its
expiry: the ConfigMap found stale is deleted by name, and by then it may be
another's (`findings`).

### SecretEngine

A request locks the mutex of its replica, acquires the remote lock if the
cluster has several replicas, reads the secret, and is refused or writes the
whole of it: with the Kubernetes backend a read of the object and an update at
that version (`Versioned`), and another key of the same object may have been
written between the two (`WriteOtherKey`).

The remote lock is a `ConfigMapLock` with a timeout of 10 or 15 seconds, which
does not exclude (`lock_steal`). Here it is a lock that another replica waiting
for it may delete at any time, as stale (`Steal`); whose creation may lose its
reply (`CreateLost`), after which `Acquire` waits for its own lock; whose
`Acquire` may fail when its time is up (`AcquireFails`); and whose `Release` may
fail, which is only logged, and leave it behind (`ReleaseFails`) or find another's
and leave that (`ReleaseGet`). `lapsed` is history: the lock was deleted under a
request between `Lock` and `Release`.

`SecretMap` is what the callers want: each acknowledged operation on the table as
it is at one instant. `ImplementsSecretMap` says that the engine gives this
until the remote lock lapses under a request at work, and `OneAtATime` that two
requests are never at work in one replica, and in two only after that. So a
request that takes longer than the timeout, or a lock stolen sooner, is
the only way to an update that was acknowledged and lost; but it is one: the
backend's versions catch only a write between the second read of the object and
its update, and the vault has none. `Login`, `MFATable`, `Kvdictl` and `Permissions`
take the operations on their tables to happen at one instant, so what they say
of tokens and second factors holds until a lock lapses. Reads under the lock
bypass the cache, as all callers that change a shared table do.

The run `secret_replicas` has three requests, at two replicas, with all combinations of
five operations, one failing call and one write of another key. `Lock` returns an error of the remote acquire with its mutex
locked, and the next request of that replica waits for ever;
`ReturnsUnlessAcquireFailed` says that there is no other way to a request that
never returns.

A replica whose cluster configuration still says one replica takes no remote
lock. In a scale-up such a replica can run beside one that does; the model has
the replicas that know of peers as a constant, and the runs set all of them.

### UserdataVolumes

A session names a user and a namespace, and the claim is named after the user.
A live pass makes the claim (asking for the recorded volume if it exists), makes the
pod, and when the pod runs frees the volume, records it, sets the finalizer
and reports the session running. A deletion pass deletes the pod, the claim
and frees the volume, one per requeue, and removes the finalizer. `Bind`,
`Provision`, `RemoveClaim`, `CollectClaim` and `CollectPod` are the
Kubernetes controllers; they are external and modelled from how the code
relies on them. A volume without a claim reference goes to no claim but one
that names it.

`HomeSurvives` says that a volume that a session was reported running on is not
deleted by anyone but an administrator. `OneHome` says that a user's sessions run on one volume;
`FreedUnlessDeletedEarly`, that a volume that nobody uses any more is free for
the next session, for users whose sessions were deleted only after they had
their finalizer. The documented promise (`vdicluster_types.go:65-66`) has no such
condition; without it the volume keeps referring to a claim that is gone, and
the next session of the user waits for it. `OneHome` and
`FreedUnlessDeletedEarly` are stated
for users of one namespace: the map of volumes has one entry per user, so
sessions in two namespaces overwrite each other's (a hazard without a property).

### DesktopSessions

A request is listed and counted, then the Session is created, then its env
secret. The pass adopts the secret, makes the pod, waits for it, sets the
status and starts the timer. A pass may begin at any time for a session that is
there (events, retries and resyncs), never for two at once: the controller has
one worker. `Crash` loses every timer. `age` counts how long a session has been
reported running.

A start may fail in several ways, all answered with an error but the last:
before there is a session (`StartFails`), after it was created when only the reply is lost
(`CreateLost`), at the env secret, made or not (`EnvFails`), whose deferred
function is to delete the session and may fail (`CleanupFails`); and with the app
itself (`AppGone`), which answers nothing. `ErrorCleansUp` says that an error
leaves no session and no secret unless a reply to a Create was lost or that
Delete failed (`lost`): these do leave them, and the user is told otherwise.

`LimitKeptOneByOne` says that requests of a user one after the other keep
`sessionsPerUser`. Requests that overlap do not, whatever its comment says ("at
a time"): both count before either creates. The volumes of
the session are left out here (`UserdataVolumes` has them).

### Rules and Permissions

A rule's lists are sets and its regular expressions are patterns with the names
each matches. `EvaluateUser` says what a set of rules allows, `RuleIncludes`
when one rule may be handed on by the holder of another. Two facts of the code
that are easy to miss are in them: `RuleIncludes` compares patterns only on the
roles and templates that exist (the getter of users always returns nothing, and
service accounts are not asked for), and the default service account is
evaluated as a template without a name while its verb stays "use".

`Permissions` puts them to work. A login copies the rules of the user's roles
into a token. `Check` is the middleware, and `Handle` the handler, with other
requests between the two. `ReachNeverGrows` says that whatever the users do,
together and in whatever order, none of them comes to a token that allows what
no user was allowed at the start. It speaks of the actions that inclusion
speaks of (`Compared`): those without a name, and those on roles and templates
that have been there all the time (`steady`); the comment at
`rule_includes.go:76-80` leaves out resources that come later. The check itself
is taken as one step. `LaunchesAreListed` ties the lists of the UI to what the
API lets through.

### MFATable and Login

The table of second factors is a text whose lines are found by what they begin
with, so a user whose name begins like another's finds the other's line
(`BeginsWith`). `Login` has the requests of the tabs of browsers; the tabs of
one browser share its cookie and token. A request that reads the table and
later writes it does so in two steps, each under the lock of its own
(`SecretEngine`), and other requests run in between. `made` counts what is
bounded; `proved`, `served` and the fields `presented` and `guarded` of a request
are history, read by properties only.

`SecondFactorAsked` says that nobody is logged in without the code while the
user's own row is verified all along. `VerifiedWasProved`, that a row is
verified only with a secret whose code was shown. `RefreshServesOnce`,
that a refresh token buys one pair of tokens. `CookieLives`, that a
browser with nothing under way has a usable cookie unless a call failed.
A change for `al` also rewrites the row of `alice`, whose name begins with it,
although the comment says "the same user"; `PlainRowsKept` says that this takes
such a name, and that all other rows stay as they are.

Left out: the expiry of tokens and the anonymous login (the redirect of OIDC is
in `ExternalLogin`).
`Managers` are the users whose rules let them change the second factors of
others; `allowSameUser` exempts only `/api/users/{user}/mfa`, so verifying even
one's own needs such a rule. Two consequences of the interleavings are hazards
without a property: a logout beside a refresh leaves the new token usable, and
a verification that writes back the secret it read undoes a reset in between.

### ClusterPass

A pass over a cluster is a fixed sequence of steps (`ClusterSteps`): the
administrator's secret, the app's secret and the key of the tokens in it, the
roles, the passwd file, the RBAC objects, the CA, two certificates, the
deployment and the service. A pass over a session, by another worker, begins
with the service, which is left out, and then has three steps on the same
secret (`SessionSteps`). A step looks at its object in the cache (`Look`), and
goes on or makes a call (`Call`, `Refused`, `Fails`). Objects carry a version
in the API server: an update of what the cache has not seen the last version of
is refused. `CatchUp` brings the cache of one kind of object up to date and
queues the cluster if it owns what has changed; a pass that ends in an error
queues it as well, and nothing else does.

CAs, passwords and keys are numbers, a certificate is the number of the CA that
signed it, and an object made from the spec is the number of that spec. `New`
takes the least number that nobody has, since only equality matters. `lost` is
history: the CAs that were overwritten or cleared while something still held
them. Two workers can both find no CA in an old cache and write one after the
other, so the CA does get replaced; `SignedByStored` says that a certificate is
signed by a CA that was stored. `KeysKept` and `AdminCanLogIn`
are about the data beside the CA in that secret. `Converges` says that in the
end all is as it should be (`Done`): the app's two certificates are signed by
the CA there is, and the objects are made from the last spec. Of objects that
others change it speaks if the cluster is told of that: the roles have no owner reference
and the service account is not watched, so one of them that is removed by hand
is made again only in a pass that something else brings about. `RestsWhenDone`
is the safe part of it: whenever the manager has nothing left to do (no pass
queued or under way, nothing that the cache has not seen), it is `Done`. If the cluster did not own its secrets, one that is removed behind a pass
would leave the manager at rest without it.

Known and left out: a session's certificate is not verified once it is there
(`reconcile.go:98`), so it outlives its CA. A CA that is not JSON at all is an
error of the read and not of the checks that follow it, so each pass fails
there until someone takes it out. An administrator's secret that lost its
password gets a new one, which the passwd file does not follow (`AdminCanLogIn`
excepts secrets that others changed).

### DisplayStream

A display is streamed through two handlers. In the app, `GetWebsockify` acquires
the lock of the display, dials the proxy, reads a status, upgrades the websocket
and starts two goroutines that copy (`AppRead`, `AppWrite`; `AppDown`); the
first of them to end cancels a context, and the deferred calls close the
websocket, the connection and release the lock. In the proxy `handleDisplay`
dials the display server, writes the status, starts its own two goroutines
(`PrxUp`, `PrxDown`) and, while these copy, gives the desktop a speaker and a
microphone (`NewManager`, `WaitForReady`, `AddSink`, `AddSource`,
`SetDefaultSource`), which `Destroy` (`Unload`, `UnloadFails`, `Disconnect`)
takes away again. What is copied from the browser is counted in `sent`, for the
other direction only its end matters. The lock is the abstract lock of
`ExclusiveLock`, which `ConfigMapLock` implements. A second `Destroy` works on a
context that was freed: undefined, so `DestroyFreed` and `ProxyDies` are the
outcomes it may have. `AppDies` and `CollectLock` are the death of the app's pod.

`SentUnderLock` says that the app sends on what a browser types only while its
viewer has the lock, although the goroutine that copies it is not waited for:
the connection is closed before the lock is released, and the order of the two
deferred calls is what this rests on. It says nothing of what was sent before: up
to a buffer of records that are in flight reach the display after the lock has
passed on. `StreamsEnd`: when either end is over both
handlers end and the lock is free, although the goroutine that copies from the
display may wait until the display has something to show. The lock has no
expiry, so a call of the handler's own that fails leaves it behind: a grant whose
reply was lost (`AcquireLost`), or a `Release` that failed, which is only logged
(`ReleaseFails`). Then (`held`) it is free only when the pod of the app has died. `DevicesGo`: a handler
that has ended leaves no device but after an error that was logged (`Destroy`
returns at the first module it cannot unload) or the end of the process.

### AudioStream

`handleAudio` starts a buffer with three GStreamer pipelines, a goroutine that
restarts the recorder (`Tick`, `RestartClose`, `RestartNew`), and two that copy,
then runs the main loop until it is quit. Whatever a pipeline reports is handed
on by the main loop (`Dispatch`) over a channel without room, which `Read` and
`Write` look at before they do anything (`Select`). Each copying goroutine calls
`Close` when it ends; both may.

`AudioEnds` says that the handler ends when the viewer leaves, with the two
exceptions the code has: a `Quit` that comes before `RunLoop` is lost, and the
main loop stands still in a report that nobody receives any more.
`PipelinesStop`: after a stream without errors and restarts, whose copying
began, everything is stopped, but where `Close` waits for a pipeline whose
thread waits to hand a sample to a reader, who is itself in `Close`.
`ClosedIsStopped`: a buffer that says it is closed runs nothing, although the
restart and both calls of `Close` interleave.

### FileTransfer and WebsocketCopy

A connection carries records, one for each write, and a read takes from the
first of them only, as TLS does. Each string is read by a scanner of its own,
which is dropped with what it has read too much (`NextString`); that this loses
nothing rests on each field being written by a call of its own. `Cut` breaks the
connection at any place and loses any tail of what is in flight. `TransferIsTrue`
says that a download that was answered with 200 has the right name, type and
size and a prefix of the content, and that an upload that was confirmed is
stored whole. Of a name with a newline the answer has the first line.

`WebsocketCopy` is `GorillaReadWriter.Read` under `io.Copy`: when a message is
longer than the buffer, the next `Read` copies the rest and a further message
into it and returns the length of the latter only. `ws_read` shows that bytes are
lost then (`findings`). The size of the buffer, 32 KiB in `io.Copy`, is 2 here.

### SessionPod

`Pod` puts together what `ToPodSpec` does: volumes, init containers, the
containers of the proxy, the desktop or virtual machine and docker, with their
mounts and users and the addresses they are told. A path is a sequence of cells,
so that prefixes of strings and of paths can be told apart (`/tmpfs` begins with
`/tmp`). `SameFile` is external: what a path means in a container, given its
mounts. `PodWorks` says that the pod can be made (`CanBeMade`: each mount has its
volume, volumes have names of their own, and no container has two mounts at one
path, all of which Kubernetes asks for), that the proxy finds the
sockets of display and sound where the desktop has them, and that no container
asks for root when the pod forbids it. Its exceptions are those of the code.
The volume of a socket is mounted at the directory of the socket whatever is
mounted there: a display at `unix:///run/display.sock`, or in a directory that the
template mounts itself, gives a pod that is refused (`SocketClashes`); so do
mounts and volumes of the template's own that are kvdi's, too (`OwnClash`). Not found are
sockets under a mount of the template's own other than at `/tmp`, under a path
that begins with `/tmp` but is not in it, and a sound socket under a path that
begins with `/run` but is not in it (`/runtime`), or under `/home`. The one with
`/runtime` came up in the proof, and the run has a template with it since.

### VaultToken

`Setup` makes a client, logs it in and sets its token; a loop renews the token
of whatever client there is by then or logs in again, and `Close` stops the loop
and revokes the token. The app sets the provider up again when it hears of its
cluster, beside the loop; the manager sets one up for a pass and closes it. The
vault may stop answering, and limits the life of a token. Time is in ticks, and
`VaultTick` waits for calls. `TokenKept` says that the token requests use is alive as
long as the vault answers, that after outages it is so again for good, and that
`Close` returns. It excepts the process that dies: `vault_ttl` shows that a token
near the end of its maximum life makes `NewTicker` panic (`findings`); the
exception is the restart of that process, until its provider is set up.

### RequestGate

Four tables in as many files say what the routes are, what their bodies are
decoded to, who may call them, and what types their handlers assert.
`RequestGate` has all four, and takes every request through them: each route and
method, a good body and three kinds of bad ones, four kinds of tokens, own
resources or not, all grants or none. `TablesAgree` says that no assertion
panics, that "no grants known", which the comment at `api_validate_perms.go:530`
says should not fire, fires only for methods other than GET on the websocket
routes, and that all calls of the REST client are served. What the handlers do
is in the other modules; here `HandleCall` is the type they assert.

### Kvdictl

An invocation logs in, fetches the role, changes its copy, sends the whole of it
(`PutGet`, `PutUpdate`: the handler, too, reads before it writes, and may meet a
conflict) and logs out. `EditsKeepTheRest` says that a command changes what it was asked to
and nothing else, unless somebody else's change was written since it fetched:
that one is undone. `TokensRevoked` says that the refresh token of a command is
revoked when it has ended, but in two cases: the command failed, and with it the hook that
logs out did not run; or the logout was lost, or its revocation failed
on the server, which logs it and answers OK (`CloseFails`). In the second the command
succeeds and nobody learns of the token. The commands of users, templates and sessions are left
out.

### ExternalLogin

OIDC takes three requests: a POST is sent to the provider with a state, the
callback saves the claims under the state, another POST picks them up and
clears them. Each may reach another replica, and each replica has a cache of
secrets (`ReadState`, `WriteCache`, `Forget`, `Remember`, `ExpireCached`).
Of the lock of `SecretEngine` only the mutex of each replica is here; nothing below
rests on the lock between replicas. `ForgottenWhereServed` says that a replica
that handed out claims forgets them, unless another POST with the state, which
had read them before, put them into its cache again: they are there while it is under way, and
stay there for up to an hour if its `Lock` or its call to clear them fails
(`LockFails`, `ClearFails`). Another replica with the claims in
its cache does hand them out again, for up to an hour.

All three providers make roles of groups that annotations of VDIRoles name. LDAP
does so at login, at refresh and in the list of users. The first two compare strings; for the
list the annotation becomes part of a filter as it is, and the server
compares as it does names, without case and some blanks. `alike` says which groups the
server takes an annotation for, and `unfit` which annotations make no filter.
`RolesAgree` says that a login and a refresh give the same roles, that webmesh gives what
the others would, and that the list has each user once with each role once: no
role less than a refresh gives, if the server finds the user in each annotated group that it shows
for the user, and just these roles if it finds the user in no other. An
annotation in another case than the group lists a role that the login never gets.
`directory` has no steps: the run enumerates directories. The loops of the code
are `Loop`, a recursive function of the number of rounds whose rounds are
functions themselves, so that the proofs can say what each round leaves. The
roles are listed in the order in which they are read, and each person has one
entry in the directory.

### MCLocks, MCProxy, MCApi

Components that do not interact share a run. `followed` says which of them
moves, from the initial state on, and the others stay as they begin; fairness asks
nothing of what has not begun.

## The runs

| Run | Bounds | Question |
| --- | --- | --- |
| `locks` | without expiry: 3 goroutines in 2 pods, 2 failing calls, both pods may die; with timeouts: 2 goroutines in 2 pods with timeouts 1 and 2, clock to 4, 1 failing call | Does a lock without expiry implement the abstract lock, and does nobody wait for one that no one has? Does an acquire with a timeout return? |
| `lock_steal` | 2 goroutines with timeouts, clock to 6, no failing call | Expected violation: two holders before any expiry |
| `secret_replicas` | 3 requests at 2 replicas, 5 operations, 2 names, 1 fault, 1 write of another key | Does each acknowledged operation happen at one instant until the remote lock lapses, and does each request return? |
| `volumes` | 1 user, 2 sessions, 2 volumes, 1 fault or crash, 1 volume deleted by hand | Does a user keep one home, is it freed, does a deletion end? |
| `sessions` | 2 requests of one user, limit 1, length 1, 1 fault, 1 crash | The limit, the length, errors and the end of sessions |
| `permissions` | 2 acting users, the role of an administrator who does not act, 2 templates, 2 patterns, 3 requests | Does nobody gain a permission that no user had, and does the UI list what can be launched? |
| `login` | 2 tabs of a browser, users `al` and `alice`, 6 requests, 3 tokens, 2 secrets, 1 fault | Second factors, refresh tokens and cookies when requests overlap |
| `cluster` | one each of a session, a role and a service account; 6 numbers; 1 disturbance, which is a session's pass, a failed call, a restart, a new spec or an object changed by others | Does everything come to be there, the certificates with the CA, before the manager rests, and nothing of the app's secret get lost? |
| `proxy` | display: 1 viewer and other requests for the lock, 2 faults; sound: 1 error, 1 restart of the recorder; files: 2 names, 3 cells of content, 2 records in flight, 1 break; pods: 6 720 templates with and without a claim; vault: leases of 4 ticks, 6 at most, renewed 2 ahead, 2 outages | Do streams end on both sides and leave nothing, are files true, do pods work, does the token live? |
| `api` | every route, method and kind of request; 2 places with 3 invocations of kvdictl, 2 roles, 2 rules, 1 fault; 2 POSTs, 2 callbacks, 1 state, 2 replicas, 1 failing call; directories of 2 persons, 2 groups, 2 roles, annotations of up to 2 groups, 4 servers | Do the tables agree, do edits keep the rest, are tokens revoked and claims forgotten, do login, refresh and list give the same roles? |
| `ws_read` | a buffer of 2, 3 messages of up to 5 bytes | Expected violation: bytes lost in `Read` |
| `vault_ttl` | the vault of `proxy`, without outages | Expected violation: the loop panics |

Why the bounds are enough to be of interest. Three goroutines in two pods are
the least in which a waiter of the holder's pod and one of another meet a
release, whose owner check tells only the pods apart. Two requests at one
replica and one at another have both kinds of waiting, for the mutex and for
the remote lock. Two sessions of a user share the claim; a second volume is
what a wrong step would give. One fault is enough for each failure path to be
taken at any call, and a second one in `locks` lets a lost create be
followed by a lost delete. In `permissions` three requests are enough to change a
role, hand it on and use it, and one of the patterns matches only some of the
names. In `login` six requests are a login, an enabling, a verification, and
three that overlap with what follows from them; `al` and `alice` are the
shortest case of a name that begins with another. In `cluster` the one
disturbance may come at any step of any pass, and with the lag of the cache
this includes two workers over one CA and a write from an old copy. In `proxy`
one viewer is enough because a viewer meets others only at the lock, and `Other`
is any of them; two faults are a device that fails and another in its cleanup.
Two records in flight let a reader find more than what it is to read. In the
vault two ticks of margin, a lease of four and a life of six let a renewal be
whole, cut short and refused. Three invocations of kvdictl are
a role's creation and two edits that overlap; two POSTs at two replicas are one
that takes the claims and one that comes late. In `api` the places, the roles and
the rules are interchangeable, and `SYMMETRY` says so; no liveness is checked there.
`CHECK_DEADLOCK FALSE` is there because all of these systems may stop: every
request may have returned, every session ended.

## Fairness

- `ConfigMapLock`: a goroutine inside `Acquire` or `Release` goes on (weak
  fairness), the clock runs, the garbage collector runs. Nothing makes a holder
  release. No strong fairness: a waiter may lose every race for the ConfigMap.
- `SecretEngine`: requests go on; strong fairness for the mutex, because Go's
  mutex goes over to handing itself to a waiter that has starved. A lock that is
  in the way expires and is deleted (`Steal`); nothing makes an `Acquire` fail.
- `UserdataVolumes`, `DesktopSessions`: passes go on and controllers act (weak
  fairness); strong fairness for the beginning of a pass of one session, because
  the work queue is first in, first out and a session whose pass asks for a
  requeue is queued again. Users and administrators owe nothing: no fairness for
  starting or deleting sessions. Faults and crashes are finitely many.
- `DesktopSessions` lets a tick pass only when no timer is due and each running
  session has one: ticks are long (minutes) against a pass of the
  controller and a restart of the manager.
- `ClusterPass`: the manager begins a pass when the cluster is queued, passes go
  on, each informer catches up, and a deployment with its certificates becomes
  ready (weak fairness). Sessions, users and administrators owe nothing.
- `DisplayStream`: goroutines run, a read of a closed connection ends, the
  PulseAudio server answers or refuses, and the lock of a dead pod is collected.
  `Release` returns, with an error or without. An app in `held` need not die.
  Neither the browser nor the display need ever send anything or leave.
- `AudioStream`: goroutines and the main loop run, and a pipeline that plays has
  samples. The viewer need neither come, nor speak, nor leave.
- `VaultToken`: `Setup`, the loop and `Close` go on, a process that died is
  started again, the vault comes back (outages are finitely many) and the clock
  runs. Nobody has to ask for another `Setup`.

`FileTransfer`, `WebsocketCopy`, `RequestGate`, `Kvdictl` and `ExternalLogin` have
safety properties only and no fairness.

## What is proved

`ConfigMapLockProofs`, for any goroutines, pods, clock bound and number of failed calls:

- `TypeCorrect`: the type invariant, with timeouts or without.
- `ForeverInvariant`, from `NoTimeouts` (no timeout is positive, which is how
  the stream locks are made): `ForeverInv` is inductive. Exclusion alone is not:
  a second goroutine could create the ConfigMap if it went away under the
  first. So the invariant adds that the holder owns the ConfigMap, that nobody
  is about to delete one as stale since none has an expiry, and that a
  goroutine whose pod is gone runs no more, so that the collector takes no
  ConfigMap from a holder.
- `HolderOwns`, `MutuallyExclusive`, and `Implements`: each step is a step of
  `ExclusiveLock` or a stutter.
- `LeftByNobody`, with timeouts or without: while no call has failed, a
  ConfigMap that is there is that of a goroutine that holds the lock, or of a
  pod that is gone. It is what is safety in `NeverAllWaiting`: a lock that
  nobody has is left only by a call that fails, or until the collector comes.

`UserdataVolumesProofs`, for any users, namespaces, sessions and volumes:

- `VolumesTypeCorrect`: the type invariant.
- `RetainInvariant`: what carries `HomeSurvives`. The policy of a volume must
  be Retain before the pass goes on to record it, must stay so, and no
  number is made twice, so that a deleted volume does not come back as another.
- `HomesSurvive`: hence only `LoseVolume` deletes a volume of `home`.
- `NamesInvariant`: a volume is named by one user, be it in the map of volumes,
  by a claim or by the pass that is about to record it. Without it nothing could
  be said of one user's volumes beside those of the others.
- `HomeInvariant`: while no volume was lost, the volume recorded for a user of
  one namespace, and the one a pass is about to record, is kept and is the one
  that every claim of the user names. So a claim made for a later session, with
  a pass cut off by a crash in between, asks for that one. `OneHomeHolds` follows.
- `FreeInvariant`: nothing has the recorded volume of a user without sessions.
  It takes in what the pass that removes the last of them has seen: the claim
  gone before it frees the volume, the volume free before it takes the finalizer
  away. `FreedHolds` follows, for users none of whose sessions was deleted early.

`PermissionsProofs`, for any names, patterns, roles, rules and number of requests:

- `IncludedAllowsNoMore`: an action of the compared kind that an included rule
  allows is allowed by the rule that includes it.
- `InvariantHolds`, `ReachStays`: `Inv` is inductive and gives `ReachNeverGrows`.
  What the tokens allow is not enough by itself: the rules that are on their way,
  in a request already let through, and those of roles that have users must stay
  within the reach as well, and the templates and roles that inclusion was
  compared on must not have gone when the handler runs.
- `LaunchesListed`: the filters leave out nothing that can be launched.

Of `RequestGate`, which has no parameters:

- `TablesAgreeHolds`: `TablesAgree`. The lemmas compare the tables with each
  other: a protected route has its grants, but for the websockets
  (`RoutesAreGranted`); what a handler or the name of an action's resource
  asserts is what the request is decoded to (`AssertsDecoded`); and each call of
  the client is a route whose body passes and whose handler finds its type
  (`ClientIsServed`). The invariant says of a request on its way that it has
  come through the doors before, with its object decoded (`OnItsWay`).

`LoginProofs`, for any users, names, browsers, tabs and bounds:

- `OnceInvariant`: the types that the argument needs (`Typed`; the bounds of the
  counters and the types of the table are not among them), and that a token that
  is not made yet is not in the table; that a token that was served, or that a
  refresh on its way has taken, was made and is no longer in the table; and that
  no token is both, or taken by two requests.
- `ServedOnce`: hence `RefreshServesOnce`. The invariant is needed because the
  token is taken in one step and the new one issued two steps later, with other
  requests holding the same cookie.
- `CookieInvariant`: a token belongs to one browser, whose cookie it is or whose
  requests carry it, and one on its way to a browser to one request; and, unless
  a call failed, a browser's token is in the table or a request of that browser
  is about to replace it. The ownership is what keeps a request of one browser
  from taking the token of another. `CookieLivesHolds` follows.
- `TableInvariant`: of the lines that a user's name finds, the user's own comes
  first (`OwnIsFirst`), although a line is found by what it begins with and
  `DeleteRows` takes out all that are found; verified lines were proved; a
  verify about to write has shown its secret; and a request that is guarded has
  shown a code if it was let in. It rests on a lemma about the table itself: a
  table rewritten for a user has, in their order, all the lines that do not
  match and one new line at most (`Rewritten`).
- `SecondFactorHolds`, `VerifiedHolds`, `PlainRowsHolds`: hence
  `SecondFactorAsked`, `VerifiedWasProved` and `PlainRowsKept`.

`ApiProofs`, of `SecretEngine` for any requests, replicas, tables and failing
calls, from `PeersKnown` (replicas that are not alone know of each other, see
above):

- `EngineTypeCorrect`: the type invariant, without that hypothesis.
- `EngineInvariant`: whoever is past the mutex has it; and, until the remote lock
  has lapsed under a request at work, whoever is at work in a cluster with peers has the remote
  lock, and what it has read is the table as it is until it writes. The last
  part needs the one before it: whoever else could write is kept out. Locks that are left
  behind, lost or stolen before anybody is at work under them do no harm.
- `EnginesExclude`: hence `OneAtATime`.
- `EngineImplementsMap`: until then each step is a step of `SecretMap` or a stutter.

Of `ExternalLogin`, for any replicas, states, requests and directories:

- `ForgottenInvariant`, `ForgottenHolds`: `ForgottenWhereServed` is inductive
  together with the shape of requests and caches: whoever fails keeps the
  claims it put into the cache, and is the reason why they are there.
- `RolesAgreeHolds`: `RolesAgree`, for any roles, annotations, groups, servers and finite
  set of persons. It is no matter of steps but of what the loops compute.
  `GoesThrough` is the rule for them: what holds before the first round and is
  kept by each round, with the number of the round, holds after the last (by
  the least round after which it would not). With it, `ListedIs` says that the roles of a
  set are listed each once and in order, and `FilterIs` that filtering by such a
  list gives it back. For the list of users `HasEntry` is what each of its three
  loops carries along, for one person: the list has no entry or one entry, and this has the
  roles, in order, that the rounds so far have found.

Of `Kvdictl`, for any places, roles, rules, invocations and failing calls:

- `TokensRevokedHolds`, from `IdleApart` (what stands for no invocation is not
  the record of one): a token is known to an invocation that has not ended,
  or belongs to one that failed, or whose logout or revocation did; hence
  `TokensRevoked`.
- `CliInvariant`: what an invocation is going to send is what it was told to
  make of what it has seen, and that was rules. `EditsKeepHolds` follows, with
  lemmas about the function that takes a rule out of a sequence (`LeftOf`).

Of `VaultToken`, for any lease, margin, limits and outages:

- `VaultInvariant`: while the vault has always answered, the token of the client
  lives for `Margin` longer than the loop's ticker, unless `Setup` is replacing
  the client; what a login or renewal under way was granted is good for what
  the loop believes; and a token that `Setup` was given is in no other hands, so
  that a renewal cannot shorten it. `Close` comes after `Setup` and ends the loop.
- `AliveHolds`: hence `AliveWhileAnswered`, the first conjunct of `TokenKept`.

`DesktopSessionsProofs`, for any sessions, users, limits, lengths, faults and
crashes:

- `SessionsTypeCorrect`: the type invariant.
- `LifeInvariant`: there is no session before its request has made it, and no
  status or timer of one that is not there; and a session is at most one length
  per crash older than its timer shows, or than nothing if it has none.
  `ErrorsCleanUp` and `LengthsKept` follow.
- `LimitsKept`, for a finite set of sessions: while the requests of a user have
  not overlapped at most one of them is between count and create, and there is
  room for it.

`ClusterPassProofs`, for any sessions, objects and number of disturbances, from
`NoneApart` (the value that stands for nothing is neither the app's secret nor
its name) and, for the last two, `IdleApart` (nor is the one for no pass a
pass), which the constants of a model see to:

- `SignedInvariant`: whatever a certificate, the cache or a pass that is about
  to sign has as the CA was stored. The passes and the cache have to be in it
  because the CA may be replaced between the steps of a pass.
- `CertsSignedByStored`: hence `SignedByStored`.
- `KeysInvariant`, from `Plenty` too (there is a secret besides any four: values
  drawn at random do not run out, and without it `New` means nothing): unless others changed
  the administrator's secret, the passwd file has its password, and the pass
  that writes the file has that password from the cache or from its own call.
  Unless they changed the app's secret, each key stays once it is there, a key
  comes before the next, and a pass beyond a step has left that step's key, so
  that no pass finds one missing, in however old a cache, once the app runs.
- `AdminLogsIn`, `KeysKeptHolds`: hence `AdminCanLogIn` and `KeysKept`.
- `RestInvariant`: unless the cluster is queued, each step that its pass has
  behind it (all of them if there is no pass) is `Settled`: what the step looks
  after is right in the cache, or there is news of it that will queue the
  cluster. A pass has the spec that is in the cache, and beyond the step of the
  CA the CA that is there or news of the secret. That news comes only of what
  the cluster owns; of roles and service accounts the invariant says instead
  that they are in the API server as a pass left them, and, since versions of
  the spec only grow, that none is newer than the spec of the pass nor older
  than the cache has it (`Behind`): so a pass that finds one up to date in an
  old cache is right.
- `RestsWhenDoneHolds`: hence `RestsWhenDone`, since at rest there is no news and
  all steps are behind.

`ProxyProofs`, of `DisplayStream` for any viewers and number of faults:

- `LockInvariant`: a handler has the lock from the grant to the release, or to
  the death of its pod if a call has left it behind, and its connection is open
  only between grant and release. `ViewersSendUnderLock` follows: it is about what the app
  sends, as `SentUnderLock` is.
- `DevicesInvariant`: a device that was loaded is in the manager's list, at or
  behind the place `Destroy` has come to, unless an error was logged; a manager
  whose context was freed has nothing loaded; and the handler has a manager only
  where the code can. `NoDeviceLeft` follows.

Of `AudioStream`, for any number of faults and restarts:

- `AudioTypeCorrect`: the type invariant, and that nothing is reported but
  faults and restarts.
- `ClosingInvariant`: `Close` stops the pipelines one after the other, and what
  it has stopped nobody starts again. For that the handler must be done with
  starting when anybody copies, and a restart must find the writer open or make
  the `Close` that comes then fail before it says that the buffer is closed.
  `ClosedIsStoppedHolds` follows.

Of `FileTransfer`, for any names, types, contents, room on the wire and number of
broken connections:

- `TransferInvariant`: the records on the wire, with those still to be written,
  go on where what was read ends (`GoesOn`), in the request and in the answer,
  also when a `Cut` has taken the tail; an answer other than Ok goes with a
  handler that refused or read too little; and what a download has by now is
  what the file has there. `TransferHolds` follows.

Of `SessionPod`, for any template that is `Sound`: its mounts name its volumes,
are at paths, and at most one of them is at /tmp; its sockets have names in
directories, do not lie where kvdi mounts something in one of the two containers
only, nor in a directory of the socket's own name that the template mounts. All
templates of the run are sound, those with clashes too.

- `PodWorksWhenSound`: `PodWorks`. The mounts that reach a path are compared by
  what they mount where: those of the proxy and of the desktop that a socket lies
  under are the same ones, and there is one. That a pod has no two mounts at one
  path and no two volumes of one name, unless a socket or the template's own
  mounts clash, is shown mount by mount (`PathsAreUnique`, `NamesAreUnique`).

They rest on the assumptions of the modules (`LockAssumption`,
`VolumesAssumption`, `RulesAssumption`, `PermissionsAssumption`,
`MFATableAssumption`, `LoginAssumption`, `IdleAssumption`, `EngineAssumption`,
`SessionsAssumption`, `ClusterAssumption`, `DisplayAssumption`,
`AudioAssumption`, `TransferAssumption`, `KvdictlAssumption`,
`ExternalAssumption`, `VaultAssumption`), which TLC evaluates in each run of a
module that has them. They say what the constants are, and keep apart what the
code cannot confuse: None and a user, an idle tab and a request, the names of
objects, NoToken and a token. `ExternalAssumption` says
that there are finitely many persons, since LDAP answers a search with a list.
Two say more, of what the code relies on: that `BeginsWith` is transitive, as `strings.HasPrefix` is; and that two sizes
are never written alike (`Encoded`), as eight bytes each are not.

Only model-checked:

- Everything temporal under fairness, since TLAPS proves no liveness:
  `NeverAllWaiting`, `TimedAcquireReturns`, `ReturnsUnlessAcquireFailed`,
  `DeletionCompletes`, `SessionEnds`, `Converges`,
  `StreamsEnd`, `AudioEnds`, `PipelinesStop`, and of `TokenKept` that the token is
  replaced after outages and that `Close` returns. Of `Converges`
  the run adds to `RestsWhenDone`, which is proved, that the manager does come
  to rest.
- `CopiedInOrder`, `ExclusionUntilExpiry` and `LoopKeepsRunning`, which the
  runs show to be violated (`findings`).
- The part of `Login`'s type invariant that `Typed` leaves out. The type
  invariants that no theorem states (`TransferTypeOK` and so on) are documentation:
  TLC agreed with them while the modules were written, and no run has them.

## Not modelled, and why

- Data races proper: the cache of the engine and `tickerRoutines` are plain
  maps shared by goroutines. A race that ends the process is a `Crash`.
- Staleness of the controller's informer cache, but in `ClusterPass`: the other
  modules have their passes read the API server.
- Servers outside the repository (vault, LDAP, OIDC providers, webmesh,
  GStreamer, PulseAudio) beyond what the code relies on, and `pulsefifosink`,
  which is an element inside a GStreamer pipeline.
- `AppendSecret`, which no caller uses under the lock, and a `Setup` of the
  engine that swaps its backend under a running request.
- The parts of the modelled components that are named under `components` in
  `PROJECT.json`: metrics, auditing, TLS, wording and output, images and labels.
- The web UI, generated code and the CRD types as such: data and layout, no
  state of the kind a model checker helps with. Where a field of a type decides
  something, the module that reads it has it.

What reading the code for the models brought up besides, and no property is
about:

- `template_util_qemu.go:173` returns the pull policy of the QEMU image for that
  of the disk image; a virtual machine without the CSI driver that also has docker gets no
  `dind-init` (`template_util.go:62`).
- `handleConn` goes on without a connection when `NewConn` failed
  (`server.go:117`). The tarball of a directory that was downloaded stays.
- kvdictl never retries a 401 (`client/util.go:97` returns first); annotating a
  role without rules gives it one empty rule; `users update
  --generate-password` with `--roles` does not generate a password; the
  goroutine of a port forwarding that copies the other way stays.
- The grants have `/api/config/reload`, which has no route.
- A refresh of an LDAP user does not look at the status of the account. An
  OIDC sign-in that nobody comes back for leaves its claims in the secret.
  Webmesh makes its URL with `path.Join` (`webmesh/provider.go:89`), which
  takes one slash out of `https://`, and compares groups without a name.
- The vault tokens of earlier calls of `Setup` are never revoked.

## Plan

Done: `ConfigMapLock`, `SecretEngine`, `UserdataVolumes`, `DesktopSessions`,
`Permissions`, `MFATable`, `Login` and `ClusterPass` first; then the streams
(`DisplayStream`, `AudioStream`, `FileTransfer`, `WebsocketCopy`), `SessionPod`,
`VaultToken`, `RequestGate`, `Kvdictl` and `ExternalLogin`, and the proofs: of the
lock and the engine and what they implement, and of the safety properties of
every module.

Left, in order:

1. Proofs: the types of the modules that have no theorem about them, and what
   of the liveness properties is safety, as `RestsWhenDone` is of `Converges` and
   `LeftByNobody` of `NeverAllWaiting`: for the streams and the pods next.
2. `AppendSecret` and the swap of the backend in `SecretEngine`; reading and
   writing secrets in the vault.
3. The routes of sessions in `Permissions`, and roles that come from groups
   there.
4. kvdictl's commands for users, templates and sessions.
5. Two namespaces of one user in `UserdataVolumes`: what does hold of them.
