# IOTProject in TLA+

IOTProject is the server of an Internet-of-Things application, in Go: users and
devices hold websocket connections, devices report sensor values, users bind
devices, command them and set policies that alarm and command by themselves.
State lives in PostgreSQL, in Redis and in the process (the hub). This directory
models the parts in which goroutines, requests and connections meet, checks them
with TLC and proves their safety properties with TLAPS.

## The system

| Component | State | Operations | Shares with |
|---|---|---|---|
| **Device hub** `internal/websocket/{hub,device_client,handler}.go` | registry `devices` (one connection per device), channels `deviceReg`, `deviceUnreg`, a `send` channel per connection | connect, register, heartbeat, command, fail, unregister | writes `devices.device_status` by detached goroutines; tells the owner through the user hub |
| **User hub** `internal/websocket/{hub,client,handler}.go` | registry `clients` (a set of connections per user), channels `register`, `unregister`, queues `pushQueue`, `eventQueue`, a `send` channel and the `Client` record per connection | connect, authenticate (again), request, push, fail, unregister | the same hub goroutine; user read pumps look devices up and send to them |
| **Ownership and its cache** `repository/postgres/device.go`, `service/device.go` | `devices.user_id`, `device_name`; Redis `device:user:<uid>` | bind, unbind, rename, look the owner up | history, data pushes and status notices ask it; unbinding deletes policies |
| **Policies and engine** `service/{device_policy,device_data}.go` | `device_policies`, `alert_logs`, Redis cooldown keys, one goroutine per frame, per triggered policy and per alarm | create, delete, evaluate, alarm, command | the device hub (`SendToDevice`), the user hub (`SendToUser`), ownership |
| **Sensor data** `service/device_data.go`, `repository/postgres/device_data.go` | `device_data` | store, history | starts the engine, asks for the owner |
| **Registration, profiles** `service/user.go`, `repository/postgres/user.go`, `pkg/utils/redis_locker.go` | `users`, Redis locks with a time to live | register, update, passwords | |
| **Sessions** `service/user.go`, `middleware/auth.go`, `pkg/utils/jwt.go` | Redis set `auth:tokens:<user>` with a time to live | login, logout, check | every authenticated HTTP request; not the websocket's auth message, which only parses the token |
| **Captcha, rate limit** `service/user.go`, `pkg/utils/{captcha,rate_limit}.go` | Redis keys with a time to live | issue, verify; count, lock | login, registration |
| **Start-up** `cmd/server/main.go`, `internal/app/app.go`, `internal/router/router.go` | | wiring; stop on a signal, without a shutdown | |

What is hard here, and what makes each part correct:

* *Device hub.* Handler, two pumps, hub and detached goroutines run in any order.
  Correct: the registry names the newest admitted connection and only connections
  that have not been unregistered; a broken connection leaves it; the recorded
  status, written out of order and possibly refused, becomes right in the end; nobody
  waits for ever on a device, except where a write without a deadline makes them.
* *User hub.* The hub and the read pump share `UserID` and `registered` without a
  lock. Correct: a user's messages reach that user's connections and nobody else;
  the server does not panic; a slow or dead client stops nobody.
* *Ownership.* Checks, updates and the cache are separate steps of concurrent
  requests. Correct: no service to strangers, nobody else's binding removed, a cache
  that follows the row save for failed deletions and late lookups, and not stale for ever.
* *Policies.* Goroutines work on copies. Correct: the table stays clean, a cooldown
  filters and does not mute, a deleted policy stops acting, values are matched as sent.
* *Both hubs.* One goroutine serves both and each side waits on the other. Correct:
  nobody waits for the hub for ever.
* *Sessions.* Sign-ins and sign-outs are several Redis commands each, and most errors
  are dropped. Correct: a session lives as long as its token, and what is signed out
  stays out.
* *Limiter.* Two keys with separate lives, looked at in two steps. Correct: a bound on
  any window, and a refusal that ends by itself.

## Modules

| Module | Models | State in the code |
|---|---|---|
| `Presence` | abstract: which connection a device is reached through | |
| `DeviceHub` | the device hub and who uses it | `handler`, `readPump`, `writePump`, hub `job`: where each goroutine stands; `queue`: length of `send`; `devices`: `Hub.devices`; `writes`, `notices`: detached goroutines by status; `status`: the column; `target`: the local variable of a sender between lookup and send |
| `UserHub` | the user hub | `cl[c]`: the `Client` record, where its pumps stand, its socket and the length and closedness of `send`; `clients`, `keys`: `Hub.clients` and which keys the map has |
| `DeviceBinding` | ownership, its cache and every request that asks for it | `owner`, `name`, `policies`: the rows; `cache`: the Redis key; `req[r]`: where a request stands and what it has read; `past`, `served`, `stale`: histories |
| `PolicyEngine` | policies and engine of one device | `table`, `made`: the rows; `engine[e]`: the goroutine of a frame with its copy; `acts[p][stage]`: goroutines by stage of `handleAction`; `cool`: the cooldown keys |
| `Hubs` | both hubs as the one goroutine they are: `INSTANCE` of `DeviceHub` and of `UserHub`, with what each asks of the other | `deviceJob`, `clientJob`: what the goroutine is doing, at most one of them; `storing`: read pumps inside `SaveDeviceData`; `pushQueue` |
| `Registration` | registration under locks, profile updates | `accounts`: the rows; `lock`: the Redis keys; `reg[r]`, `update[a]`: where a request stands, what it wants and holds; `lapsed`, `overlap`: histories |
| `Sessions` | captcha, sign-in, sign-out and the middleware, for one user | `set`, `expiry`: the Redis key; `captcha`: captcha keys; `cl[c]`: a client's token and where its request stands; `spent`, `twins`, `left`, `undated`, `exposed`: histories |
| `RateLimit` | the login limiter, for one address | `count`, `window`, `lock`: the two keys and their remaining time; `req[r]`: requests past the lookup; `since`, `slip`: histories; `passed[n]`: how many passed in the last n ticks |
| `DeviceHubProofs`, `UserHubProofs`, `HubsProofs`, `DeviceBindingProofs`, `PolicyEngineProofs`, `RegistrationProofs`, `SessionsProofs`, `RateLimitProofs` | theorems about the module each is named after | |

A channel operation, a database statement and a Redis command is one step each.
An unbuffered send is a rendezvous (`HubTake...`): sender and hub move together.
The hub reads a Client's fields in the steps the code reads them in.
Every action is the handler it is named after in `PROJECT.json`'s map; the actions
whose comment begins with "Mutant" are not part of any specification: each is a
plausible mistake in the action below it, and a property fails when it takes its place.

Abstractions: payloads are left out; one device stands for each of them in
`DeviceBinding` and `PolicyEngine`, which share nothing between devices. A user's
read deadline and a device's 60 seconds are folded into "the read may fail at any
time". A socket is up, `silent` (its peer is gone or stopped, and nobody has noticed: a
read fails by its deadline, a write may succeed, fail or wait for ever, since the code
sets no deadline for writes), `broken` or `closed` by the server; a peer that sends and does not
read is a socket that is up with a write on it that does not end. A control message with neither
light nor fan sends nothing and changes nothing, so it is no step. Memory effects below a Go statement (torn reads) are not modelled. A frame of
sensor data changes nothing in the registries: it is the request `push` in
`DeviceBinding`, `Upload` or `DataFrame` in `PolicyEngine`, and in `Hubs` what
keeps a device's read pump waiting (`DataFrame`, `SendToUser`). `PolicyEngine` tells
values apart by the rules they satisfy; `ZeroHits` are those that zeros satisfy. In
`Sessions` a token is the second it was issued in, since nothing else in it differs
between two sign-ins of one user. In `Hubs` a step of a connection is the step of
`DeviceHub` or `UserHub` of that name; `eventQueue` is "an event for anybody may be
next" (`TakeEvent`), `pushQueue` is kept, because `SendToUser` blocks when it is full.

### The properties

* `DeviceHub`: **NoDeadEntry**, **PresenceSpec** (refinement of `Presence`),
  **BrokenLeaves**, **ControlReleased**, **StatusHeals**. A device that is gone or silent
  stays registered for ever only when its read pump is for ever in the write of an
  acknowledgement; a user's read pump waits for ever for a device only when the device's write
  pump has died, or is for ever in one write to a device that does not read (`Unread`).
* `UserHub`: **FiledAsItself**, **AuthenticatedIsFiled**, **PanicNeedsReauth**.
  What a second authentication on one connection can do is excluded by name in
  each, and shown by the run `reauth_panic`.
* `Hubs`: **GoneIsUnfiled**, **BrokenLeaves**, **HubServes**, with channels that fill
  and peers that do not read. A user's connection that is gone stays filed for ever only when
  its read pump waits for ever on a full channel that nobody empties: its own, whose write pump
  has ended or is in a write to a silent user (`Wedged`), or that of a device whose write
  pump has died or is in a write to a device that sends but does not read (`DeadDevice`).
* `DeviceBinding`: **OnlyOwners**, **CacheFollows**, **UnbindsItsOwn**, **CacheConverges**.
  The row and the cache are changed by separate commands of concurrent requests;
  **CacheFollows** names everything that can leave them apart: a change that has still to delete
  the entry, a deletion that failed, a lookup that stored what it had read before the change.
* `PolicyEngine`: **CleanUnlessRaced**, **KeepsActing**, **DeletedFallsSilent**. Its `TypeOK`
  contains `Doing`: no goroutine is at work that its policy's copy does not ask for, or for
  a policy that never existed.
* `Registration`: **MutualExclusion**, **UniqueIdentities**, **RegistrationEnds**. The
  first two hold while no lock expires under its holder, which the code does not
  prevent: a registration that hashes for more than ten seconds goes on without its
  lock, and its release deletes the next one's. `UniqueIdentities` also leaves out a
  profile update beside another request, since updates take no lock.
* `Sessions`: **SessionLives**, **SignedOutIsRefused**, **SetExpires**, **CaptchaOnce**. Each
  says by name what does end a session early or keeps it too long: an error of Redis
  that is dropped, a sign-out between another's SCARD and DEL, two sign-ins of
  one second, a set that lapses between SADD and EXPIRE, a crash.
* `RateLimit`: **BurstBound**, **RefusedBriefly**, **LockCovers**. With a limit of five
  and a window of a minute eight logins pass within some minute, and nine when one of
  them looked for the lock before it was set.

### What reading and modelling brought up

Besides the three findings that have a run of their own:

* The status row of a device stays "online" when an overtaken offline write comes first
  (`hub.go:91,101`, against `repository/postgres/device.go:185`); **StatusHeals** says
  which later event heals it.
* The UPDATE of an unbinding matches the device alone, not the user its SELECT
  checked (`device.go:69`, against the comment at 58-59): of two unbindings by one
  user the late one can remove the next owner. **UnbindsItsOwn** excludes exactly that.
* A lookup that read the row before a change may fill the cache after it, and a former
  owner stays cached for up to 24 hours (`device.go:137`, against `README.md:316`):
  **CacheConverges** holds by expiry only.
* No write to a websocket has a deadline (`device_client.go:55,108`, `client.go:36`), and
  every frame a device sends renews its read deadline (`device_client.go:44`). A device that
  sends but does not read holds its write pump inside `WriteMessage` for ever; its channel fills,
  and the read pumps of users who command it wait at `client.go:110`, where they do not notice
  that their own connection is gone. **ControlReleased** and **GoneIsUnfiled** name this case.
* Redis removes an empty set itself, so the SCARD and DEL of `Logout` change nothing
  but the outcome of a race: the DEL can take a token that was added in between.
* `POST /user/Logout` runs without the middleware, removes nothing and answers success.
* Tokens that expired stay in the set as long as the user keeps signing in.
* A captcha whose deletion fails stays valid for the rest of its five minutes.

## Runs

| Run | Instance | Shows | States |
|---|---|---|---|
| `hub_devices` | 2 connections of 1 device, 2 pending writes, a restart | the safety properties, the inductive invariant, the refinement, recovery of the status | 31 thousand |
| `hub_control` | 1 connection, 2 users and the engine, a channel of 1, a restart | blocked senders; status and notices of a bound device | 86 thousand |
| `user_hub` | 2 connections, 2 users, 2 authentications each, channels of 1 | safety of the user registry | 1.0 million |
| `hubs` | a device connection and a user's, channels and `pushQueue` of 1 | nobody waits for the hub for ever; who is gone leaves both registries, or waits for a write that does not end | 34 thousand |
| `binding` | 2 users, 2 requests at a time, Redis may fail | ownership and cache | 0.7 million |
| `engine` | 2 users, 2 policies that alarm or do both, 1 frame at a time | policies and cooldowns | 53 thousand |
| `registration` | 2 registrations with repetition, 2 identities, updates | the locks exclude, uniqueness without a constraint, no deadlock | 0.3 million |
| `sessions` | 2 clients of one user, 1 captcha name, tokens of 2 ticks, 3 ticks | sessions and captchas, with errors and a crash | 0.4 million |
| `limiter` | 3 requests in progress, a limit of 5, a window and a lock of 4 ticks | the bound on any window, refusals that end | 71 thousand |

and three that end in a violation, each of a sentence the repository says of itself:

| Run | Said at | What happens |
|---|---|---|
| `reauth_panic` | `README.md:378` | the answer to a second auth is sent on a closed channel |
| `unbound_acts` | `docs/项目功能说明.md:56` | the engine runs a left-over policy of an unbound device |
| `zero_frame` | `docs/项目功能说明.md:80` | the values of a data frame on `/ws/device` are parsed and checked, and zeros are stored and matched (`device_client.go:83-88`) |

### Bounds, and why they are enough

* Two connections are the least with which one replaces another; a third brings no
  new relation, since the registry compares one connection with one entry. A
  connection is never reused, and a restarted process sees new ones.
* `SendCap` is 1 for 256: full, empty and neither full nor closed are reached.
* `MaxPending` bounds heartbeats while status writes are pending: two of one status
  and any number of the other can overtake each other.
* `MaxAuths` is 2: the second authentication is the first that re-registers.
* Two requests at a time show every race of a check with one other request; three
  users of a row take turns with two slots.
* `engine` has one request slot, since its property is of requests that do not overlap;
  `unbound_acts` has two, `zero_frame` one. `Policies` counts the ids the table ever hands out.
* `registration` has two profiles, equal or sharing one field, and one kind of update,
  which changes one field and repeats another. `Constraint` is FALSE: the schema is not
  in the repository, and without the database's constraint the code must do the work.
  A refused registration may be repeated, which is how a third one is met. One
  update at a time per account.
* `hubs` has one connection of each side: the waiting it is about is between sides, and
  with capacities of 1 every queue between them fills. What two connections of one
  side do to each other is checked in `hub_devices` and `user_hub`. Status writes stay
  pending (`MaxPending` 0 keeps heartbeats, which add more of them, away).
* `sessions`: tokens live two ticks, so that they can end before, with and after the set
  and be shared within a tick; three ticks let a set be renewed once and outlive its
  first token. A captcha name is used again, so one is enough.
* `limiter`: the real limit, and a window long enough for several lookups, scripts and ends
  of keys to fall apart; with three requests in progress more than one is late. The
  router's limit and times are the configuration's (5, one minute, one minute).
* Deadlock is checked only where something can always happen (`limiter`): elsewhere
  connections and time are bounded and may all be over.

### Fairness

A goroutine that can run does run (weak fairness of each goroutine's steps). Where
several wait for one, the code's choice is fair in the long run, and strong
fairness says so: Go's `select` picks at random among ready cases, and senders
blocked on a channel are served first come, first served. A socket that is silent or gone
fails the read that waits for it, by the read deadline if by nothing else (weak fairness of `ReadFails`
only then). A write is assumed to end only when the socket is gone: there is no fairness
of `WritePumpWrote`, `AckDone` and the like while it is up or silent, because the code sets no write
deadline and a peer need not read. Redis and the
database may refuse any call, but not for ever (strong fairness of the success).
Nothing is assumed of users, devices, frames, heartbeats, restarts or panics, and in
`Hubs` nothing of one side by the other: a blocked command has a fair chance only if the
device's channel has room again and again. "Waits for ever only if" is written
`<>[]A => <>[]B`. `HubServes` and the `BrokenLeaves` of `Hubs` say "again and again not
waiting" ([]<>), which for a waiting that nothing but the awaited step can end is
the same as "ends". Keys
with a time to live expire, except the registration locks: `RegistrationEnds` needs
no expiry, only that a request runs on.

## Proofs

Each `...Proofs` module proves, for every number of connections, users, requests,
devices and policies, every capacity and every time to live, from the assumptions named
in the module it extends, that each invariant and each action property the passing runs
check holds in every behaviour. None needs fairness. Each states first what its
`Inductive` proves, `Spec => []IInv`: the property is seldom inductive, and `IInv` adds
what the code silently relies on. TLC confirmed each `IInv` on a small instance before it was proved;
`DeviceHub`'s, which is a definition of the model, is an invariant of `hub_devices`.

| Proved of | Theorems | What `IInv` adds, and why |
|---|---|---|
| `DeviceHub` | **RegistryCorrect**, **ImplementsPresence** | An entry is removed by a hub step that comes after the read pump's: pumps do not run before their handler returns (`Unstarted`), nothing names a connection that was not admitted (`Unadmitted`), one being admitted has not been handed in for removal (`Admitting`), the hub removes only what was handed in (`Removing`) |
| `UserHub` | **FiledUnderItself**, **AuthenticatedAreFiled**, **PanicsNeedReauth** | The hub reads what the read pump writes: the flags follow the pump's place (`Pumped`), the hub registers only who authenticated (`Registering`), who did so once is unregistered once, at its end (`Once`), `Hub.clients` has keys for whom something is filed (`Entries`), from registration on (`Reached`) |
| `Hubs` | **ImplementsUserHub**, **ImplementsDeviceHub**, **UsersAreServed**, **RegistryCorrect**, **ImplementsPresence** | `Queued` alone: a push is for a user. The rest is inherited |
| `DeviceBinding` | **OnlyOwnersServed**, **CacheFollowsRow**, **UnbindsOnlyItsOwn** | A request acts on what it read: requests past a check are of users who owned the device (`Vetted`); between the SELECT and the UPDATE of an unbinding the row is still its user's, or another unbinding took it (`Unmoved`) |
| `PolicyEngine` | **TableStaysClean** | Without overlap a request is alone (`Alone`), is the owner's (`Owned`), and what it is about to insert is not in the table (`Lacking`); goroutines and the copies they start from do only what their policy is for (`Doing`) |
| `Registration` | **LocksExclude**, **IdentitiesAreUnique** | A request holds only what it wants, and all of it before it checks (`Takes`); while no lock lapses it is locked (`Guarded`) by nobody else (`Apart`), so what the check found free stays free (`Untaken`). An update runs alone (`Alone`) on a row that exists (`Present`) with values nobody else has (`Unclaimed`) |
| `Sessions` | **SessionsLive**, **SignedOutStaysOut**, **SetsExpire**, **CaptchasWorkOnce** | Who holds a token or a captcha where (`Holding`), tokens that are shared are known (`Twins`); while a session must last nobody is about to delete the set (`Undeleted`) and its time to live covers it (`Dated`); a deleted captcha is gone (`Fresh`) |
| `RateLimit` | **BurstsAreBounded**, **RefusalsEnd**, **LockOutlastsCounter** | A count by age: since the counter began fewer passed than it counts (`Young`), before it at most what another counter let pass (`Ended`), and when that was full, the lock it set keeps the next counter from beginning (`Locked`); the last to pass set the lock or was counted (`Recent`) |

and **TypeCorrect** of each.

*Refinement.* `DeviceHub` implements `Presence`: a connection is live from the step in which
the hub files it to the step in which the hub handles its deregistration. `Connect`,
`Leave` and `Reset` are `HandleDeviceRegister`, `HandleDeviceUnregister` and `Restart`;
every other step is a stutter (`OthersStutter`), which needs `IInv`.

*Composition.* `HubsProofs` takes `UserHubProofs` and `DeviceHubProofs` by INSTANCE and shows that
each step of `Hubs` is a step of `UserHub` or leaves its variables alone, and the same
for `DeviceHub`. A panic of the user's side stops both; `DeviceHub` is therefore
instantiated with `panicked <- FALSE`, for which being stopped is a stutter, and without
restarts, which `Hubs` has none of. So the theorems of each hold of both together, and what was left
to prove of `Hubs` is what the sides share: `OneGoroutine`, that the hub is never busy for both, and
`Commanding`, that a read pump is in `handleBusiness` exactly while it holds a device.
Heartbeats are not steps of `Hubs`, so the panic of two simultaneous writes on a
device's socket is not among what **UsersAreServed** excludes.

*Assumptions.* They say what distinguishes the names that stand for nobody (`NoUser`, `NoConn`,
`NoAccount`, `Empty`, ...) from the rest and that capacities, times and bounds are positive
numbers. Two say more: `Limit` is at least two (the router's is five; with
a limit of one the request that starts the counter is also its last, and the bound reads
otherwise), and `Profiles` are profiles, which may be any. `Constraint`, the one
choice the repository leaves open, may be either: the theorems of `Registration` hold for both.

*Only model-checked*: what has to happen some time, which is out of the prover's reach
(**BrokenLeaves**, **ControlReleased**, **StatusHeals**, **GoneIsUnfiled**, **HubServes**,
**CacheConverges**, **KeepsActing**, **DeletedFallsSilent**, **RegistrationEnds**), and the
three violations.

## Not modelled, and the plan

What is left to prove is refinement: an abstract specification of registration, a set of
accounts in which no identity repeats, which `Registration` implements when `Constraint`
holds and, without it, in the behaviours in which no lock lapses and no update overlaps; and one of
sessions, a set of tokens that sign-ins add to and sign-outs take from, which `Sessions`
implements while Redis answers.

Left out because nothing else depends on it: the list of alarms and marking one as handled
(one SELECT, and one UPDATE of a column the engine never reads), passwords and avatars
(single rows that share nothing with the rest), the role the middleware caches
(read by nothing), the channel `broadcast` (sent to by nothing), the captcha a websocket
hands out (stored nowhere).

Left out because it is below or outside the models: the order in which a client sees an
alarm and the notice that it was handled, which come through two queues;
simultaneous writes on one device's socket and the data race on `ctx` in
`SaveDeviceData`, which are below a statement; password hashing, JSON, HTTP parsing,
the response format, SQL and its drivers (a statement is atomic, the unbinding
transaction is READ COMMITTED), the JWT's cryptography and the device's signature, and
the pool in `pkg/db`, which nothing uses.

## Running it

`tlc -config hub_devices.cfg MCDeviceHub` and so on (`PROJECT.json` lists the module
of each configuration); `tlapm DeviceHubProofs.tla` and so on for the theorems.
