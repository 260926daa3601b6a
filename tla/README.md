# NexusFlow backend in TLA+

Specifications, model checks and proofs for the NexusFlow backend, a NestJS
service that links IoT devices (ESP boards on MQTT), the automation flows their
owners build, and the alerts those flows raise. Paths below are relative to the
repository (`src/...`). All modules, configurations and this page are in one
directory; `PROJECT.json` maps every definition to the lines it models.

Contents: 1 the system, 2 plan, 3 the modules, 4 the runs, 5 the bounds, 6
fairness, 7 what is proved, 8 where code and documents disagree, 9 what is not
modelled.

## 1. The system

One Node.js process. Every handler is an `async` function, so handlers
interleave only where one awaits; each database or cache call is a separate
await. MongoDB keeps the collections, one document is updated atomically, and
no code path uses a transaction. The cache is in the memory of the process
(`CacheModule.register({ isGlobal: true })`, `src/app.module.ts:48`): a restart
loses it.

| Component | State it keeps | Operations | Works with |
|---|---|---|---|
| Alert pipeline `notifications/notifications.service.ts` | `incidents`, `notifications`; trigger state per rule in the cache | `processSensorReading`, `triggerAlertFromInternal`, `fireAlertFromRule`, `resolveIncidentFromRule`, `markNotificationHandled`, `recordNotificationReceipts` | called by the MQTT handlers for each reading, by an internal HTTP endpoint and by the user's phone; reads the flow's device; pushes through Firebase |
| Alert rules, policies, preferences, push tokens (same file) | `alert_rules`, `notification_preferences`, `alert_policies`, device tokens | create, update, delete; `syncRulesForFlowNodes`; `registerDeviceToken`, `invalidateDeviceTokens` | flows call it when nodes change or a flow goes |
| MQTT sessions `mqtt/mqtt.handlers.ts`, `mqtt/mqtt.service.ts` | session per device in the cache; per connection its kind, owner, flow and authorized devices | `onAuthenticate`, `authorizePublish/Subscribe/Forward`, `onClientDisconnect`, `reserveEspSession` | the broker calls it; devices and users services authenticate |
| MQTT runtime (same file) | none of its own | `onClientPublish`, `processRuntimeInputAndForwarding`, `executeFunctionStep`, value coercion | runs the flow's program on an input, publishes outputs, feeds the alert pipeline and the readings |
| MQTT performance `mqtt/mqtt-performance.service.ts` | one open session document per device, sample windows | `startEspSession`, `recordInboundMessage`, `endEspSession` | called by the MQTT handlers |
| Logic programs `flows/logic.service.ts` | `logic`; programs cached per device for 5 minutes | `upsertByFlowId`, `getLogicFlowsForFlowId`, `evictForDevice`, `setLogicPathSkipState`, `sanitizeProgram` | flows write it, the runtime reads it |
| Flows `flows/flows.service.ts`, `setup.service.ts` | `flows`, `setups` | `create`, `update`, `delete`, `rebuildUiForFlow` | logic, devices, notifications |
| Flow builder `flows/flow-builder.service.ts` | none | graph of the editor to program and UI | flows |
| Devices `devices/devices.service.ts` | `devices` with `activeFlowId`, registration codes, device tokens | `registerDeviceWithCode`, `updateDeviceFlow`, `unlinkDeviceFlow`, `deleteDevice` | MQTT authentication, flows |
| Authentication `auth/auth.service.ts`, `users/users.service.ts` | users, refresh token states, token version | `login`, `refresh`, `logout`, `resetPassword`, `register` | one-time passwords, Google handoff |
| One-time passwords `verification/verification.service.ts` | `otps` | `issueOtp`, `consumeOtp` | mail |
| Google handoff `auth/services/google-auth-handoff.service.ts` | one-use codes | `create`, `consume` | authentication |
| Readings `readings/readings.service.ts` | time series; throttle in the cache | `saveReadingThrottled` | MQTT runtime |
| Firmware, templates, modules, UI items, guards, mail, seeds | one collection each or none | CRUD, request checks, I/O | |

### Where it is hard

* **Check, then act, across awaits.** Trigger gate, open incident, MQTT session,
  one-time password, registration code, device limits: each is read in one await
  and written in a later one, and none of them is guarded by a unique index.
* **Stale copies.** An incident document, the flow of a device, the program of a
  flow and the devices of a user are read once and used after others changed
  them.
* **Several writes, no transaction.** Incident, then notification, then push;
  password, then token version; flow, then setup, then logic, then alert data.
* **Two stores that fail apart.** The cache is lost with the process, the
  collections are not.
* **Two gates in a row.** The rule's cooldown or backoff and the incident's
  cool-off window each have their own clock, and the first is armed by readings
  the second suppresses.
* **Duplicated and late calls.** Receipts, handled marks, refreshes and
  disconnects come twice, late or out of order.

### What makes each component correct

* Alert pipeline: one open incident per rule and device, alerts of an incident a
  cool-off apart, no hazard silent for ever, every incident announced unless a call
  failed on the way, resolved once for each resolution that overlaps, handling one
  notification handles all of its incident, no lost or reversed state in the two
  collections.
* MQTT sessions: a connection that has its device to itself holds it, whatever
  connections that ended before it left behind; no dead one locks a device out; limits
  hold up to the concurrent attempts; a connection acts only for devices it
  authenticated for.
* Flows: an edit, a deletion or a link that nothing overlapped leaves its documents,
  the link and the cached program in agreement, whatever earlier overlaps and failures
  left; a flow is on no more devices than requests overlap.
* Alert rules: an edit of the flow that nothing overlapped leaves the rules its nodes and
  the policies ask for; a request that nothing overlapped neither switches off nor deletes
  a required rule; conditions made from policies are valid ones.
* Preferences: an owner who was told that notifications are off is not alerted by readings
  that begin afterwards.
* Sessions: a reset ends every session of the old password, a logout its own; racing
  refreshes neither fork a login nor leave a client with a token nobody knows.
* One-time credentials: a code serves one request, and more only if they were in flight
  together; tokens and sessions are for the owner of the code.
* Flow builder: the program is every path of the graph and nothing else; a pin has one
  driver, but for nodes that share an id, which nothing forbids.
* Runtime: a value keeps its meaning on every way to an output; a message is forwarded
  once, again only over a channel that is the id of an input node, which nothing forbids
  either, and commands devices of its owner alone.

`PROJECT.json` lists these hazards at their lines, each with the property that
covers it, or why none does.

## 2. Plan

1. `TriggerGate`, `AlertPipeline`, `IncidentLedger`, `AlertGate`: the alert
   pipeline, its abstract specification and the timing of its gates. *Done, proved.*
2. `MqttSessions`: authentication with reservation and limits, disconnects racing
   reconnects, the sessions of the performance service. *Done, proved.* One holder per
   device, the abstract specification one would want, is not what the code does
   (`one_session`).
3. `RefreshSessions`: login, refresh rotation with its grace period, logout, reset.
   *Done, proved.*
4. `OtpCodes`, `RegistrationCodes`, `GoogleSignIn`: everything that is issued once and
   used once. *Done, proved.* The abstract specification one would want, a
   code used at most once, holds of the Google handoff only; the properties say by how
   much the other two miss it.
5. `FlowLife`, `AlertRules`: the documents of a flow, its link, its cached program and
   its alert rules under overlapping requests. *Done, proved.*
6. `FlowBuilder`, `RuntimeValues`, `FlowBridges`, `AlertConditions`, `PushTargets`,
   `FlowPreference`: the program of a flow, what it does at run time, where alerts go and
   whether the owner wants them. *Done, proved.*

Left: the authorization of topics, a pure function, could be checked against the
documented table of topics. Every property of a passing run but the two about liveness
is a theorem (section 7).

## 3. The modules

### TriggerGate

The entry `shouldTriggerRule` and `shouldTriggerGasRule` keep in the cache for a
rule: `last` is the event time of the reading that armed it, `delay` how long it
blocks, `expires` when the cache drops it. An ordinary rule's delay is the
cooldown; a rule of the MQ2 gas sensor doubles the delay of the entry it finds,
up to the maximum, and starts over when it finds none. `Expire` is the time to
live: an entry is returned up to and including its last millisecond.

### AlertPipeline

Three kinds of handlers, any number of each, with one `pc` step per await that
reads or writes shared state:

| Handler | Code | Steps |
|---|---|---|
| firer | `processSensorReading`, `triggerAlertFromInternal` with an alert, `fireAlertFromRule` | `loop` evaluate the rules of the reading; `set` arm the gate; `device` find the flow's owner and read its device; `find` look up the open incident and decide on the cool-off; `write` create or update it; `notify` create the notification; `push` send |
| resolver | `triggerAlertFromInternal` with a resolution, `resolveIncidentFromRule` | `device`, `find`, `save`, `notify` |
| handler | `markNotificationHandled` | mark the notification, `ack` acknowledge the incident, `rest` mark the others |

The collections are arrays filled in creation order. A rule stands for the fields
the lookup filters on besides the device (user, flow, node, module, reading key):
they never change for a rule. A `save()` writes the changed fields only, as
Mongoose does. The order of the rules in the loop is left open. The environment
ticks the clock, relinks the flow to another device or deletes it at any time, reports
receipts and restarts the process, which ends the handlers where they are and
empties the cache. Push delivery, payload texts, severity and
`notification_count` (written, never read) are left out.

Every call of a handler to the database or the messaging service may throw
(`FirerThrows`, `ResolverThrows`, `HandlerThrows`), before or after it had its effect: the
handler ends there, and a firer leaves the remaining rules of its reading with it. A firer
or resolver that no longer finds the flow returns early (`FlowNotFound`,
`ResolverFindsNoFlow`). What that leaves undone is on record in three history variables,
which only the properties read and which name it one by one: `failed`, the rules whose
gate is armed by a firing that failed before it had an incident; `cutOff`, the
notifications that were owed, each with its incident; `unfinished`, the incidents of which
an answer ended half way. A later firing or answer takes its rule or incident off again.

### IncidentLedger

What the two collections promise: an incident opens once and closes at most once
and keeps its rule and device; an acknowledgement follows a handled notification
and stays; a notification belongs to an incident that exists, a resolution to a
closed one; its status goes from pending to received to handled, never back.
`AlertPipeline` implements it under `IncidentView` and `NoticeView`
(`LedgerSpec`). A notification that is handled and not received has no status of
the ledger, so reaching one would break the refinement.

### AlertGate

The same gates for one rule whose readings come one after the other, over
unbounded time: times are ages (since the entry was armed, since the last
notification, since a reading was last normal) that stop growing at `Horizon`,
past every comparison of the code. It shows how the two gates combine, which
`AlertPipeline`, with its short clock, cannot.

### MqttSessions

Each connection is a record: where its handler is, its client id, and its user if
it is a user's. `pc` is the await the handler is at:

| Part of the code | Steps |
|---|---|
| `onAuthenticate` of a device | connect, past credentials and the owner's limit; `get`, `set` the reservation (`reserveEspSession`); `owner` read the owner and close an active performance session; `start` register the new one (`startEspSession`); `done` |
| `onAuthenticate` of a user | connect, past credentials and the user's limit; `devices`; `done` |
| broker | an accepted client becomes `live` in place of the live one with its id, or is dropped; a live one drops |
| `onClientDisconnect` of a device | `ended` read the reservation; `delete` it; `end` close the performance session |

A device has as many client ids as its MAC address has spellings (`MacOf`): the
code takes any case, the cache and the sessions are keyed by the upper case, and
the reservation, the end of a session and the broker compare ids as they are
written. The limit is counted at the connect, synchronously before the first await
that follows, over the clients the broker has registered. A rejected client
changes nothing, and so is not a step. A device without an owner takes the step
`owner` too, without the read. An error of a service ends the authentication where
one is called (`FailAuthentication`).

The broker is Aedes, external: it registers a client after the authentication
accepted it unless the connection has gone, closes the registered client with the
same id, and reports the end of registered clients only. A restart empties the
cache, the performance service and the broker at once, which is `Init`, so it is not
an action. `alone` is a history variable: no two connections of the device have
overlapped since it last had none.

### RefreshSessions

One account, since accounts share no document. `account` and `sessions` are its user
document, `cookie` what the browsers and apps present, and each request in flight is a
record: where it is, whose it is, the token it presented and what it read.

| Request | Code | Steps |
|---|---|---|
| login | `validateUser` or Google sign-in, `login` | read the account; `login` issue a token and store its session; `answer` set the cookie |
| refresh | `refresh` | `authState` compare the version; `match` find the session of the token; `rotate` replace its token; `answer` |
| logout | `logout` | `logoutMatch`; `clear` pull the session; `clearAll` clear every session; `clearCookie` |
| reset | `resetPassword` | set the password; `version` increment `token_version`; `clearCookie` |

A token is the `jti` of a refresh token. It is compared together with the token's
hash, so one value stands for both. Each update is one atomic operation on the
document, and what a request remembers between two of them may be stale. Where the
code tells from `modifiedCount` whether a session was pulled, the count is 1 also when
none was, because Mongoose sets `updatedAt` with every update (`timestamps: true`,
`user.schema.ts:17`), unless that has the same value already: `ClearRefreshToken`
allows both. `Abort` ends a request anywhere: a service throws, the process stops, the
response is lost. The profile may change the password as well (`UsersService.update`);
it touches neither version nor sessions, so there is no step of it.

Left out: the expiry of tokens by age, accounts that are switched off or unverified
(the same rejection as a deleted one, but temporary), the slot for one token that
earlier versions of the code kept beside the list and no code fills any more, and
the access tokens. History variables: `over` and `out`, the `login` of a
token, and `resets`, the number of resets the login had seen.

### OtpCodes, RegistrationCodes, GoogleSignIn

Credentials that are issued to be used once. Each request is a record with a `pc` step
per await and what it remembers; a step that throws, a failed mail and a stop of the
process are one `Abort` action each, and expiry is a step that may come at any time.

| Module | Code | Steps |
|---|---|---|
| `OtpCodes` | `issueOtp`, `consumeOtp`, `verifyOtp`, `resetPassword` | mark the earlier codes, create the new one, mail it; find the newest usable code and check its wrong attempts, compare, count or mark, apply |
| `RegistrationCodes` | `createRegistrationCode`, `registerDeviceWithCode`, `registerDevice`, `generateDeviceToken`, `deleteDevice`, `revokeToken` | find the code, check the owner, find the device by its address, save or create it, mark the code, read the device, store the token; delete the tokens, then the document |
| `GoogleSignIn` | `validateGoogleUser`, the callback, `create` and `consume` of the handoff, registration and changes of accounts around it | find by Google id, find by address, link or create, log in or create the code; find the code, consume it in one conditional update, read the account, log in |

The addresses, the devices and the Google users share no document, so the run `codes`
explores each module by itself. A code that was typed right or wrong is a Boolean
(`right`); hashes, PKCE challenges and tokens are what they identify. The unique indexes
(`mac_address`, `email`, `google_id`) are guards of the writes. History variables:
`uses`, `registered`, `exchanged`, `aborts`, the `for` of a token and the `google` of a
handoff.

### FlowLife

A document is the revision of the flow it was built from, so that "the four documents
agree" is an equation. A request is a record that walks through the writes of its
operation in their order (`After`, `At`, `GoTo`); creation writes flow, setup, program
and UI, an edit device, setup, UI, program, rules, flow, event. The rules an edit
synchronises are a step that may fail here and the subject of `AlertRules`. Mongoose's
version check refuses the save of an edit when another one saved the nodes it read.
A device's connection remembers its flow (`linked`), and the program is looked up in one
await and cached in the next (`LookUp`, `Store`), so that an eviction may fall between, for
any number of messages at once. A message asks for the flow of its connection, for the one
its topic names where the connection has none, or, forwarded from another flow, for the
flow linked to its device (`Receive`). Any step of a request may throw (`Fail`): it ends
there and what it wrote stays. `alone` is a history: no other request worked on the flows
the request touches since it began.

### AlertRules, AlertConditions

`AlertRules` has the rules of one flow. Requests that create, change and delete one read
the flow and the rule, then the policy, then write; `syncRulesForFlowNodes` removes the
rules of nodes that are gone and inserts the missing ones, unordered, so that a
duplicate key fails the edit after the others went in. Any step of a request may throw
(`Abandon`). Administrators change policies at any time. `AlertConditions` is what is inside a rule: the operators and thresholds a
policy may give, normalisation of the defaults, the check of a condition and the
matching of a reading, as operators that follow the code's functions one by one.

### PushTargets, FlowPreference

`PushTargets` has the token documents of phones, their registration, and the invalidation
of those Firebase calls dead, by the token and not by the document. `FlowPreference` has
the preference of one flow: its creation with the flow, the requests that change it (find,
then save, which fails when the document was created or deleted between), the deletion of
the flow and later of the preference, and the readings, which ask for the owner, for the
preference and for the rules in three awaits and for the owner once more when they fire.
`optedOut` and `late` are histories: the owner was told that notifications are off; he had
been when the reading began.

### FlowBuilder

Nodes are the entries of a list, each with an id, and several may have the same one:
neither the DTO nor `validateFlowStructure` asks for distinct ids. An edge joins ids, and
an id stands for the last node of the list that has it (`HasId`, `Edge`), while the loop
over the inputs visits every node. The paths of a program are a set here, which loses
nothing: paths are sequences of nodes, those of two inputs begin differently, and the
targets of one node have different ids, so none is found twice.
`Pins`, `SetupAccepts`, `UiAccepts`, `ValidStructure` and `BuildAccepts` are what each of
the services refuses; `PathsFrom` and `Throws` the recursion `buildPathsFromNode` with
its set of visited nodes, as functions of a call (`Calls`: a node and the set);
`Sanitised` the checks `LogicService` repeats. The editor draws one edge at a time.
`ProgramIsAllPaths` compares the recursion with `SimplePaths`, a definition of the paths
without any.

### RuntimeValues, FlowBridges

`RuntimeValues` follows a payload through the conversions, on the four ways it can take
to an output: directly, through a function, over a bridge, and both. `Normalised`,
`FunctionPayload`, `CoerceObject`, `CoerceNumber` and `ServoAngle` keep the order in which
the code prefers the fields. `FlowBridges` follows messages: a task runs the paths of the
flow that match its input, each function lets it pass or ends the path, and a bridge
makes a task for each of its flows that is processed later, when programs and links may
be other ones. A channel may be the id of an input node; `last` remembers the input of the
task that forwarded this one.

### MC modules and proofs

`MCAlertPipeline`, `MCAlertSerial`, `MCAlertGate`, `MCMqttSessions` and
`MCRefreshSessions` extend these for TLC. `MCOneTimeCodes`, `MCDocuments` and `MCRuntime`
each combine modules that share no state: a variable `part`, chosen in the initial state,
says which of them the behaviour is one of, and which restriction of its
instance applies; `MCAlertPipeline` and `MCAlertSerial` restrict theirs by a state
constraint instead, `Explored`.
The theorems are in eight modules. Five are about one module each: `AlertPipeline_proofs`,
`AlertLedger_proofs` (about `AlertPipeline` and `IncidentLedger`), `AlertGate_proofs`,
`MqttSessions_proofs` and `RefreshSessions_proofs`. Three are about several that share no
state, in one section each: `OneTimeCodes_proofs` (`OtpCodes`, `RegistrationCodes`,
`GoogleSignIn`), `Documents_proofs` (`FlowLife`, `AlertRules`) and `Runtime_proofs`
(`FlowBuilder`, `FlowBridges`, `RuntimeValues`, `AlertConditions`, `PushTargets`,
`FlowPreference`). A definition commented `MUTANT` is a plausible bug in the definition that follows it; no
specification uses it. `PROJECT.json` names, for each property, the mutant that breaks
it.

## 4. The runs

| Run | Checks | Shows |
|---|---|---|
| `serial` | `TypeOK`, `CoolOffSpacing`, `GateHasIncident`, `OneOpenIncident` | one firing at a time, in two regions of the constraint `Explored`. Region `OneRule`: one gas rule, a resolution and an answer in flight, two clock ticks, a restart (after which nobody answers), a failing call or the deletion of the flow: alerts of an incident are a cool-off apart even when a resolution overwrites the time of the last one; while the flow exists, the gate mutes a rule that has no incident only after a firing of it that failed. Region `Relinked`: time still, two rules, a flow moving between two devices: no rule and device have two open incidents |
| `race` | `NoOlderPending`, `IncidentAnnounced`, `ResolutionsBounded`, `LedgerSpec` | two firings in flight with a resolution, an answer, a receipt and a failing call (region `RacingFirings`), and two resolutions of one incident beside a firing and failing calls (region `RacingResolutions`): the two resolutions close and announce it twice, and never a third time |
| `gate` | `BoundedSilence`, `Renotified` | cooldown 1 min, backoff up to 15 min and window 5 min in half minutes: a lasting hazard is announced at the latest one window and one delay after the last time, and again and again |
| `limits` | `TypeOK`, `UserLimit`, `DeviceLimit` | three connections of one owner's three devices and one user's three clients: the limits are exceeded by concurrent connects, and only by those |
| `retry` | `SoleConnectionHoldsDevice`, `NotLockedOut` | three connections of a device with two spellings: whatever drops, failures and takeovers leave in the cache and the performance service, a connection alone on its device holds it, and a device that keeps trying gets back in |
| `refresh` | `TypeOK`, `ResetEndsSessions`, `OneTokenPerLogin`, `LoggedOutTokenDead`, `NotStranded` | two requests of a client in flight: a reset is final also for a login that began before it, a logout also for a refresh under way; of two refreshes one rotates the token, and the client ends up with the one that counts |
| `codes` | `CodesTypeOK`, `GuessesBounded`, `UsesBounded`, `UsableBounded`, `TokensForOwner`, `RegistrationsBounded`, `SessionOfGoogleUser`, `HandoffOnce` | two requests in flight: guesses, uses and usable codes exceed their limits by the requests that overlap and no more; whatever happens between the awaits, a device token is for the owner whose code was presented and a session for the Google user who signed in; a handoff is exchanged once |
| `documents` | `LinksBounded`, `AloneIsWhole`, `LinkAloneIsExclusive`, `EditAloneCoversNodes`, `AloneRespectsPolicy` | two requests over a flow, or one with two messages of a device at a time, any step of which may fail: an operation that nothing overlapped repairs whatever overlaps and failures left before |
| `runtime` | `ProgramIsAllPaths`, `OneDriver`, `ValueSurvives`, `ForwardOnce`, `AcceptedPolicyMakesRule`, `AloneRegistrationTakes`, `OptedOutIsSilent` | every small graph, with a shared id or not, every small payload, messages over bridges while programs change, every policy, token registrations beside pushes, and readings beside changes of the preference and the deletion of the flow |
| `two_open`, `immediate`, `one_session` | one property each, violated | see 8 |

`OneOpenIncident` and `CoolOffSpacing` hold while firings come one at a time;
with two in flight both fail (run `two_open` shows the first).

## 5. The bounds

* `MaxIncidents`, `MaxNotices` (2 or 3): actions that would create more are
  disabled. Two incidents and two notifications are what the properties compare; region
  `Relinked` of `serial` has a third incident so that both devices and both rules can have
  one, and `race` a third notification so that an incident can have its alert and two
  resolutions. TLC checks a state outside `Explored` but explores nothing behind it.
* `Explored` takes failures one at a time: in `serial` one thing is left undone, and the
  flow is deleted, if at all, before time goes on and anything is announced; in `race`
  nobody answers once a firing or a resolution was cut off, and answers are cut off where
  one firing works. Failures do not meet in a property: each names the rule, the
  notification or the incident that its own failure excuses.
* `MaxTime` 2 with cooldown 1, window 1 and backoff 2: an entry can block, pass,
  double and expire, and a window can be open or over. `gate` has the real ratio.
* `MaxRestarts` 1: a restart at every point; a second one adds no new cut.
* `Bodies`: event times an internal caller sends, also older or newer than the
  clock.
* `race` keeps time still, since two firings of the same instant are the case it
  is about, and uses the symmetry of the firers and that of the resolvers, which no
  property tells apart.
* `Delivered`: notifications whose receipt is reported; the others' is left out.

* `MaxAttempts` 2: authentications in flight at once. It bounds the model and is
  also what the limits are exceeded by, so `UserLimit` and `DeviceLimit` are stated
  with it; the code has no such bound.
* `limits` has limits of 1, so that the second connect of two is already one too
  many, and three connections, so that a third would show a larger excess. Its
  devices have one spelling each, which makes them interchangeable.
* `retry` has one device with two spellings and three connections, two that leave
  something behind or overlap and one that finds it. Other devices would matter by
  the owner's limit alone, which `limits` checks.

* `refresh`: two requests race; `MaxTokens` 3 lets a login be rotated twice, or a second
  login join. `Grace` and `MaxTime` 1: the old token serves for one instant and no
  longer. `MaxResets` 1, a second reset adds nothing to compare. One client: requests
  of different clients have different tokens and meet in the account alone; two clients
  were checked once, with the same result (5.6 million states).

* `codes`: two requests race. Three passwords, so that one is issued while two overlap;
  one wrong attempt allowed, so that the second is too many; two devices of one address,
  so that a deleted one can be registered again by another owner; two accounts and two
  Google users, so that an address can belong to one and the Google id to the other.
* `documents`: two revisions, an edit and a second one that overlaps it. Part `requests`
  has three devices, one more than the requests that can overlap, so that `LinksBounded`
  could fail, and no messages; part `messages` one request over two devices, one of which
  has two messages at a time, so that one may cache what it read before the request and
  another look it up after; part `rules` two requests on the rules of one node; part `policies` one request on two
  nodes of which one can change its module, beside one change of a policy. Three rules are
  one more than those of a node.
* `runtime`: graphs of four nodes and three edges, which is the smallest with an input, a
  function, two outputs and both ways to them; three nodes are configured right and the
  last right or wrong, since a refusal is one node's or that of two on one pin. The ids
  differ, or the first two nodes, inputs, functions or outputs, have the same. The limits
  of a program (`MaxPaths`, `MaxSteps`, `MaxFunctions`) are small enough to be passed.
  Payloads have two fields with numbers below, inside, at the edge of and above the ranges
  of byte, percent and analog values; a third field is never looked at once two have their
  precedence. Conditions have two thresholds, and readings beside, at and between them.
  Two flows, devices and owners, two tasks in flight and `MaxHops` 2, one more than
  `ForwardOnce` allows without a channel that is the id of a node; one of the two is one.
  Two phones, users and tokens: a token can be another's. Two requests on the preference,
  one to enable and one to disable it, and one reading, since readings share nothing.

The runs of the alert pipeline disable the deadlock check, as do `refresh`, `codes`,
`documents` and `runtime`: their instances stop when the collections are full, the tokens
or revisions issued, the graph drawn or time is over. Those of `MqttSessions` keep it: no
handler waits for another, and none may.

## 6. Fairness

`AlertPipeline` states none: all its properties are safety. `AlertGate` assumes
only that time goes on (`WF` of `Tick`). It assumes nothing about the sensor, the
callers of the internal endpoint or the user: `Renotified` and `BoundedSilence`
speak of hazards the sensor keeps reporting, once a period at least, and `streak`
starts over when it is silent.

`MqttSessions` assumes that a handler that was called runs on (`WF` of
`Authenticate` and of `Disconnect`: each await is answered and the event loop
resumes the handler) and that a device without a connection tries again and again
(`SF` of `Retry`, strong because the attempt is refused while others are under way).
It assumes nothing of drops and failures; `NotLockedOut` has as its premise that they
stop at some point, since a connection that always drops is never online, whatever
the code does.

The other modules state none: a request may stop anywhere, and nothing is promised that
it must reach.

## 7. What is proved

For every set of rules and devices, any number of firers, resolvers and handlers,
all times and bounds, from the assumptions named in `TriggerGate` and
`AlertPipeline`:

* `TypeCorrect`: `Spec => []TypeOK`. Besides the types, the collections are filled
  from the front (`Filled`) and what a handler or a notification refers to exists
  (`Located`); the other proofs start from these.
* `SerialFiringsOpenOne`: if there is at most one firer, `Spec => []OneOpenIncident`.
  The property alone is not inductive: `LookupHolds` adds that a firer that found
  no open incident and is about to write one is still right. No step of the others
  opens an incident (`WhatOpens`) or changes whose it is; with a second firer
  `LookupHolds` breaks, which is what the run `two_open` shows.
* `SerialFiringsKeepCoolOff`: if there is at most one firer,
  `Spec => []CoolOffSpacing`. The strengthening says that an open incident's
  `last` is at least as late as each of its alerts (`LastIsNewest`) and that a
  firer past the cool-off test will send a time a window after all of them
  (`AboutToAlert`). A resolution may lower `last`, but only by closing the
  incident, and a closed incident is alerted for only by a firer that passed the
  test before.
* `PipelineIsLedger`: `Spec => LedgerSpec`, for any number of concurrent firers. The
  invariant `LedgerInv` says what handlers in flight still know about the
  collections after the others moved: a resolution about to be stored has its
  incident closed, an alert has an incident, a handler past its first step has a
  handled notification; and a handled notification is a received one. It is
  inductive because incidents stay closed and notifications handled (`Monotone`).
  Each step that writes a collection is then one step of the ledger or none.
* `IncidentsAnnounced`: `Spec => []IncidentAnnounced`, for any number of handlers. Who opens
  an incident owes its alert and who closes one its resolution (`OpenersOwe`,
  `ClosersOwe`), and a debt ends only with the notification, or with the handler, which
  then is on record for that very notification (`OwedIsRecorded`, `AnnouncedStays`).
* `AnswersHandleAll`: `Spec => []NoOlderPending`, for any number of handlers. `AnswerInv`
  adds the answers under way: a handled notification has one for its incident, or the
  older ones of its incident are handled, or an answer to the incident ended half way
  (`HalfHandledOnRecord`). The last step of any answer handles all of them
  (`OthersHandled`), and a notification stored later is newer.
* `MutedRulesHaveIncidents`: `Spec => []GateHasIncident`, for any number of handlers. Only a
  firing arms its gate (`WhoArms`), and it stays past it until the lookup or the write
  has shown an incident of its rule, or it fails and the rule is on record
  (`FiringsLeaveIncidents`, `FailuresOnRecord`); an incident found remains one of the rule
  (`FoundOfRule`).
* `OverlappingResolutionsBounded`: `Spec => []ResolutionsBounded`, for any finite number of
  resolvers. `ResolvedInv` counts the resolutions that were announced with those that have
  found the incident and will announce it: none finds it once it is closed
  (`NoLateResolution`), so all of them found it while it was open and are in flight at once.

About `MqttSessions`, for any connections, devices, spellings, users, limits and
concurrent attempts, from `SessionsAssumption`:

* `TypeCorrect`: `Spec => []TypeOK`, with what is not a mere type: a user's
  connection never gets into a device's handler, and a device is reserved or in
  session only under a spelling of its own address.
* `UserLimitKept`: `Spec => []UserLimit`, and `DeviceLimitKept`: `Spec => []DeviceLimit`. The
  invariant (`LimitsInvariant`) counts the connections under way as well as the live ones
  (`SessionsOf`, `DevicesOf`). Only a
  connect adds to these sets (`Advancing`), and then they are among the live ones it
  counted and the attempts, itself included: less than the limit plus at most
  `MaxAttempts`.
* `SoleConnectionHolds`: `Spec => []SoleConnectionHoldsDevice`. The property is not
  inductive; `SoleInv` adds when the connection comes to hold what: the reservation
  from its write on, the session from its start on, and that a device whose
  connections never overlapped has one at most, so that no other handler can undo it.

About `RefreshSessions`, for any clients, requests, tokens, resets and grace period,
from `RefreshAssumption`:

* `TypeCorrect`: `Spec => []TypeOK`. That the version stays in its bound rests on
  `Behind`: a reset sets the password before it increments the version, so the version
  and the resets in between never exceed the resets that set a password.
* `ResetsEndSessions`: `Spec => []ResetEndsSessions`. A login reads version and password
  at once, so by `Behind` what it has read (`LoginsBehind`), and every token that goes
  back to it (`TokensBehind`), has a version no greater than the number of resets it saw.
* `LoginsNotForked`: `Spec => []OneTokenPerLogin`. A rotation replaces the session whose
  token it presented, and there is one; a login is named by a token that is
  new (`LoginsPast`).
* `LogoutIsFinal`: `Spec => []LoggedOutTokenDead`. The logout pulls the session that has
  the token or had it before (`OutGone`), so no rotation finds it; the token of a later
  rotation is a new one.
* `ClientsNotStranded`: `Spec => []NotStranded`. The tokens of a login are held by one
  client (`OneHolder`), the token of an answer by nobody else (`AnswersNew`), so nobody
  can rotate it away before it arrives and it stays current (`AnswersCurrent`).

About `AlertGate`, for any cooldown, maximum of the backoff and window, from
`GateAssumption` and `CoolOffAssumption`:

* `SilenceBounded`: `Spec => []BoundedSilence`. `ArmedInWindow` relates the two clocks: an
  entry is armed by the reading that sends a notification or by one the window suppresses,
  so the notification is older than the entry by less than a window. Hence once a window
  and a delay have passed both gates are open, a hazardous reading then sends
  (`OpenGatesSend`), and a sensor that reported and sent nothing reported a normal reading
  (`SilenceEnds`).

About `OtpCodes`, for any requests, codes and limit of wrong attempts, from
`OtpAssumption`:

* `OtpTypeCorrect`: `OtpSpec => []OtpTypeOK`.
* `GuessesStayBounded`, `UsesStayBounded`, `UsableStayBounded`: `OtpSpec` implies
  `[]GuessesBounded`, `[]UsesBounded` and `[]UsableBounded`. The invariant `CountsInv` counts
  with what happened what may still happen: failed attempts and uses with the requests that
  compare the code at the moment, usable codes with the requests that have marked the old
  ones and will create one. A request joins these only where the code asks (the attempts are
  not used up, the code is valid, the codes of the purpose are marked), and moves from one
  count to the other afterwards.

About `RegistrationCodes`, for any owners, addresses, codes and requests, from
`RegAssumption`:

* `RegTypeCorrect`: `RegSpec => []RegTypeOK`.
* `TokensStayWithOwner`: `RegSpec => []TokensForOwner`. `OwnerInv` says what a request that
  has its device relies on across its awaits: a document keeps its owner for as long as it is
  in the collection, so it is still that owner's, or deleted, when the token is stored.
* `RegistrationsStayBounded`: `RegSpec => []RegistrationsBounded`. `CodeBounds` distinguishes
  a code that can still be found, with which only requests about to mark it or ended early
  have registered, from one that cannot, which those that had looked it up still use: once
  each (`Presenting`, `Marking`).

About `GoogleSignIn`, for any accounts, Google users, addresses, codes and requests, from
`GoogleAssumption`:

* `GoogleTypeCorrect`: `GoogleSpec => []GoogleTypeOK`.
* `SessionsOfGoogleUser`: `GoogleSpec => []SessionOfGoogleUser`. By `SignInInv` an account that
  was linked is never linked to another Google user, so what a sign-in found, linked or
  created still holds when its code is exchanged.
* `HandoffsExchangedOnce`: `GoogleSpec => []HandoffOnce`. A code that can be consumed has not
  been (`HandoffInv`); the update that consumes it repeats the checks of the look-up.

`CodesTypeCorrect`: `CodesSpec => []CodesTypeOK` puts the three together as the run does.

About `FlowLife`, for any flows, devices, revisions, messages and requests, any step of
which may fail, from `FlowAssumption`:

* `LinksStayBounded`: `LifeSpec => []LinksBounded`. The devices linked to a flow are counted
  together with those a link request is about to set (`TargetsBounded`). The unlinking of
  the others leaves the request's own device and those of the requests beside it; every
  other step leaves the link and the request's target alone or shrinks them.
* `LinksAloneAreExclusive`: `LifeSpec => LinkAloneIsExclusive`, and `EditsAloneAreWhole`:
  `LifeSpec => AloneIsWhole`. Both are about the last step of a request, and what makes it
  right was done by earlier ones. `AloneFacts` says what a request that is alone knows at
  each of its stages: which of the flow's documents it has written, and that no other device
  is linked. `AloneApart` says that no other request works on its flow, or on the devices it
  touches. The two are inductive together: a request's own step extends its facts
  (`AloneStep`), steps of the others keep off its flow (`Elsewhere`), and messages change
  only what is cached, which the last step evicts.

About `AlertRules`, for any nodes, modules, keys, policies and requests, from
`RuleAssumption`:

* `EditsAloneCoverNodes`: `RulesSpec => EditAloneCoversNodes`. `AloneKnows` follows the edit:
  while it is alone the ids it read are those of the rules whose node is gone, afterwards
  every rule has its node, and then every policy has a rule. The insertion gives each of the
  missing pairs an id of its own (`IdsChosen`). That there is one rule at most is
  `RulesUnique`, which holds whatever overlaps: every write asks for the pair to be free.
* `WritersAloneRespectPolicies`: `RulesSpec => AloneRespectsPolicy`. `AloneKnows` also says that
  the rule is still the one the request read and its policy still the one that allowed it;
  so the fields an update merges make up the rule that was checked (`Merged`).

About `FlowBuilder`, for any finite set of nodes, any catalogue and any graph on them, from
`GraphAssumption`:

* `ProgramsAreAllPaths`: `GraphSpec => []ProgramIsAllPaths`. The invariant is that nodes have
  ids (`IdsOK`); the work is in the recursion. `Routes` describes without it what follows
  a node: functions, each after an edge, past the visited ids and those of each other, and
  an output. `Routes` solves the equation of `PathsFrom` (`RoutesFollow`); so does `Faulty`, a
  wrong connection somewhere on such a way, that of `Throws` (`ThrowsOn`). That the equation
  has no other solution, and that a function some input feeds leads to an output
  (`NoDeadEnd`), is shown by contradiction: a call for which it fails makes a later call for
  which it fails, with one more id visited, and there are finitely many (`CallsEnd`). No
  induction over an operator is needed for that, only the least element of a set of
  numbers.
* `PinsHaveOneDriver`: `GraphSpec => []OneDriver`. Two nodes that command a pin are one, as the
  setup refuses others (`OneNode`); and two paths that end there have the same ids from the
  end backwards, as no id has two incoming edges (`SameWay`), so the same nodes but for the
  first of the shorter, whose id only another node can have too (`IdIsNode`, `OnePath`).

About `FlowBridges`, `RuntimeValues`, `AlertConditions`, `PushTargets` and `FlowPreference`,
for any programs, numbers, lists of operators, users, phones, tokens, requests and readings:

* `BridgesForwardOnce`: `BridgesSpec => []ForwardOnce`, for any channels, also those that are
  ids of input nodes. Stored programs have no path from a bridge to a bridge
  (`ProgramsSafe`); so a task that came over a channel and is forwarded matched a path that
  begins with a node, whose id is that channel (`TasksSafe`), whatever program it reads
  when it runs.
* `ValuesSurvive`: `ValuesSpec => []ValueSurvives`. The state is one payload, so the invariant
  is its type (`PayloadOK`); the proof goes through the orders in which the conversions
  prefer the fields, and through the rounding from a byte to an analog value and back.
* `AcceptedPoliciesMakeRules`: `ConditionSpec => []AcceptedPolicyMakesRule`. What is stored is
  what was accepted with its list normalised (`StoredAccepted`); the first supported operator
  of a list is the same before and after it.
* `AloneRegistrationsTake`: `TargetSpec => AloneRegistrationTakes`. `AloneOK` says that a
  registration that is alone has no other request and no push beside it, has taken its token
  from every other phone, and writes upon the document that it read.
* `OptOutsSilence`: `PrefSpec => []OptedOutIsSilent`. While the opt-out stands the preference
  is off or the flow is gone, and no request enables it (`OptOutStored`); a request to
  disable it that is alone finds what it will still be there to change, or fails
  (`AloneOffOK`). So a reading that began late gets past the preference only if the flow is
  gone by then, and stays gone (`LateOK`): what keeps it silent is that the flow goes before
  its preference and that a firing looks for the owner again.

"At most one firer" is stated as `\A f, g \in Firers : f = g`. It is not something
the code guarantees: readings of one flow usually arrive one after the other, but
nothing queues them.

The assumptions say that a constant the code draws from is not empty (`Owners`, `Macs`,
`Emails`, as otherwise no request has anything to choose), that the values for "none" are no
members of the sets they are used beside (`NoFlow`, `NoToken`, `NoModule`, "none" of
`Devices`), that rules, nodes (of `AlertRules` and of a graph), ids, keys, devices, requests on
flows and resolvers are finitely many, and that bounds are numbers. TLC
evaluates each in a run.

Only model-checked: `Renotified` and `NotLockedOut`, liveness properties under fairness, which
are out of the prover's reach.

## 8. Where code and documents disagree

* `two_open`: `docs/arch.md:455` says a rule that fires with identical fields
  targets the same incident. Lookup and creation are separate awaits and no
  unique index backs them, so two evaluations at once open two incidents.
* `immediate`: `docs/notifications-system.md:262` says the first hazardous reading
  after the cool-off is announced at once. The trigger gate, armed by readings the
  window suppressed, may mute it for another cooldown or backoff delay.
* `one_session`: `docs/arch.md:163` says only one live MQTT session is reserved per
  device. The reservation is read and written in two awaits, and the client that has
  it counts as connected only once it is registered: two clients that authenticate at
  once under two spellings of the address both get it and stay live.

Without a run: `docs/arch.md:169` allows a user at most 5 active sessions, which
concurrent connects exceed (`UserLimit` says by how much; with `MaxAttempts` 1 the
limit itself is what is proved). `README.md:592` of the repository ties the incident cool-off to
`ALERT_RULE_COOLDOWN_MS`, the code has 5 and 15 minutes; and the backoff of a gas
rule also starts over when its cache entry expires, not only on a normal reading
(`docs/notifications-system.md:323`). `docs/arch.md:272` and `README.md:90` of the
repository say a logout invalidates all refresh tokens by the token version; the code,
and `auth.controller.ts:567`, end the session of its token alone. The slip at
`users.service.ts:606` is the exception: a second logout of the same session, in the
same millisecond as another update, clears every session of the account.

More of the same kind, met while modelling, without a run:

* `docs/notifications-system.md:267` and `docs/arch.md:437` say a normal reading closes the
  incident. It only deletes the trigger state.
* `README.md:268` of the repository and the comment at `logic.service.ts:349` speak of a
  hop count at run time. There is none: what ends a message is the sanitiser. Where a
  channel is the id of an input node it does not: a message can go round (`ForwardOnce`
  says over which channels).
* Two resolutions that overlap between lookup and save close an incident twice and notify
  the user twice (`ResolutionsBounded`). A firing or a resolution one call of which throws
  leaves a rule muted, or an incident that nobody is told of; nothing makes up for it.
* Nothing requires the ids of nodes to differ. Two inputs with one id each have a path to
  the output that an edge of the id leads to, and both command it (`OneDriver`); of two
  other nodes with one id, the first of the list gets no path.
* `docs/notifications-system.md:211` says rules of required policies can neither be
  disabled nor deleted. The policy is read first and the rule written later, so requests
  that overlap can do either; `AloneRespectsPolicy` is about one that overlaps nothing.
* `devices.service.ts:402` says "Ensure the flow is linked to only one device by unlinking
  others": true of a link that nothing overlaps (`LinkAloneIsExclusive`). A device unlinked this way
  is not told, and keeps its remembered flow and its cached program until it reconnects or
  the entry expires.
* `devices.controller.ts` says the deletion of a device also removes its tokens. One that is
  stored in between stays (it opens a device that does not exist, so nothing).
* The registration code is called one-time; requests that overlap register with it once
  each (`RegistrationsBounded`).
* `README.md:273` and `README.md:299` of the repository say that a bridge without target
  flows and a function without an output are skipped with a warning. The builder throws, so no program has what they describe.
* The `ui` document of a flow stays when the flow is deleted, and so do the documents an
  edit wrote before its program was refused.
* A token that its phone registers again while a push that found it dead is under way may
  end up inactive (`AloneRegistrationTakes` is about registrations beside no push).
* An empty function before a servo hands it an object, which a servo does not take: the
  command is left out.
* An administrator's update of a user's address leaves `email_verified` as it was; two tabs
  that start a Google sign-in overwrite each other's state cookie.

## 9. What is not modelled

Left out for good: payload texts, HTTP routing and DTO validation, mail and file storage,
plain CRUD over one collection (templates, firmware, the module catalogue), the stateless
checks of a request (guards, CSRF, OAuth state), the syntax check of user JavaScript, the
Aedes broker and Firebase themselves, the wiring and the seeds. The readings history is a
throttle before a time series that nothing depends on.

Within the components that are modelled:

* Alert pipeline: rules that are edited while a reading is processed (`AlertRules` has the
  edits alone), the preference the reading asks for first (`FlowPreference` has it), and
  the notifications and rules a deleted flow loses: what is said of the collections is said
  of a flow whose data was not removed. A handler that ends between the creation of an
  incident and that of its notification, by a restart or a failing call, leaves an incident
  nobody is told of: the code has no recovery, and `IncidentAnnounced` says exactly which.
* MQTT sessions: the authorization of topics, revoked devices and owners that change while
  a connection lives. Performance metrics: samples, percentiles, clock skew.
* Authentication: registration with a password beyond what Google sign-in meets of it, the
  MQTT password a login sets, and a stop between the two updates of a reset, after which the
  old sessions go on (`ResetEndsSessions` is about resets that completed).
* One-time credentials: codes stored in the same millisecond (`createdAt` orders them), the
  form of old passwords without a purpose, and accidental equality of random codes.
* Google sign-in: avatars, and two accounts that would take the same user name.
* Flows: skip flags, UI state such as floating, names and descriptions. A link rebuilds the
  UI from the flow, which resets what the user arranged there. That a message caches a
  program it read before an edit, after the edit evicted the old one, is in the model and no
  property excludes it: the device runs it until the entry expires.
* Flow builder: names, alert texts, task names, intervals, settings of single modules that
  no other node sees. Runtime: user JavaScript other than the empty function, numeric
  strings, floating numbers, sampling.
* Alert rules: titles, severities, channels, listings; nodes that share an id, whose rules
  are then those of one node.

Clock steps backwards are not modelled anywhere.
