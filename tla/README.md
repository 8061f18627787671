# Verification of the YADRO SNMP agent

TLA+ models of `yadro-snmp-agent` and `yadro-snmpcfg`, TLC configurations that
check them on small instances, and TLAPS proofs of their most important
properties for instances of any size. Paths below are relative to the
repository's root; line numbers are those of the commit the models were made
from.

Run everything in this directory:

    tlc -config SensorTable_faults.cfg MCSensorTable.tla
    tlapm SensorTable_proofs.tla

## The system

**The agent** (`agent/`) is an AgentX subagent of the SNMP daemon. It mirrors
D-Bus objects into SNMP tables and sends traps when their state changes. It is
one thread around one sd-event loop, into which both the D-Bus connection and
the net-snmp library are hooked. **The configuration manager** (`snmpcfg/`) is
a D-Bus service with one property, `Community`, which it reads from and writes
to `snmpd.conf`.

| Component | Source | State | Operations | Module |
|---|---|---|---|---|
| D-Bus table | `agent/data/table.hpp`, `table/item.hpp` | `_items`, one match per row and two per table | `update`, `onInterfacesAdded`, `onInterfacesRemoved`, `onPropertiesChanged`, `getItem`, `dropItem`, iterator hooks, `snmp_handler` | `SensorTable`, `AgentTables`, `TableItems`, `TableRows` |
| Sensors | `agent/yadro/sensors.cpp` | value, thresholds and alarm flags of a row | `setFields`, `getState`, `send_notify`, `onCreate`, `onDestroy`, `get_snmp_reply` | `Sensor`, `SensorTable`, `SensorMib` |
| Host power | `agent/yadro/powerstate.cpp`, `agent/data/scalar.hpp` | `_value` | `update`, `onPropertyChanged`, `setValue`, `State_snmp_handler` | `HostPower`, `HostMib` |
| Event loop | `agent/snmp.cpp`, `agent/main.cpp` | `snmp_fds`, the timer | `sdevent_snmp_update`, `sdevent_snmp_read`, the timer's callback | `SnmpLoop` |
| Inventory, software | `agent/yadro/inventory.cpp`, `software.cpp`, `data/enums.hpp` | texts, flags and enum values of a row | `setFields`, `setFieldEnum`, `DBusEnum::get`, `onDestroy`, `get_snmp_reply` | `Items`, `AgentTables`, `InventoryMib` |
| Main program, service files | `agent/main.cpp`, `*.service.in` | none; systemd counts starts | `init` of one table after the other, the loop, exit; start, restart | `AgentTables`, `AgentUnit`, `SnmpLoop` |
| Traps, OIDs, variables | `agent/snmptrap.hpp`, `snmp_oid.hpp`, `snmpvars.hpp` | none | `send`, `make_oid` | inside `SensorTable`, `AgentTables`, `HostPower` |
| D-Bus helper | `sdbusplus/helper.hpp` | the connection | synchronous calls | inside `SensorTable`, `AgentTables`, `HostPower` |
| Configuration manager | `snmpcfg/snmpcfg-server.cpp` | the property, `snmpd.conf`, its `.tmp` | `readConfig`, `community`, `writeConfig`, `reloadSnmpDaemon` | `SnmpdConf`, `SnmpCfg`, `Configuration` |

How they interact: services of the BMC emit `InterfacesAdded`,
`InterfacesRemoved` and `PropertiesChanged`; the bus routes to the agent those
it has matches for; sd-bus queues them in the connection and the loop dispatches
one at a time. During initialisation the agent makes synchronous calls
(`GetSubTree`, `GetObject`, `GetAll`, `Get`), whose replies sd-bus returns
**ahead of** the queued signals. The SNMP daemon asks for table cells through a
session of the net-snmp library, and receives traps through the same session.

What is hard about it:

* **Ordering.** A reply is newer than the signals handled after it. A row's
  match is added only when the row is made, after the reply was made.
* **Incomplete knowledge.** After the initial update nothing is ever asked
  again. A failed call reads as an empty answer.
* **Two readers of one truth.** A manager knows a state from traps and from
  GETs. Every way to make, change or drop a row must send its trap.
* **Restarts.** systemd restarts both programs; rows and queues go, what
  managers were told and the files on the disk stay.
* **One process, many tables.** An exception in a row of one table ends the
  process of all of them; systemd starts it again, into the same D-Bus objects.
* **Traps without receipt.** `send_v2trap` has no result: while there is no
  AgentX session a trap is lost and nothing remembers it.
* **A foreign library in the loop.** net-snmp opens and closes descriptors and
  changes its alarms in any call; the loop learns of it in the next update.
* **Files.** The server may end, and every call fail, between any two steps of
  rewriting `snmpd.conf`; a full disk cuts lines, and a name may be read back as
  another one, or as several lines.
* **A start limit nobody set.** Both units restart always; systemd refuses when
  that is too often, and the unit stays down.

Every hazard is listed at its line in `PROJECT.json`, with the properties that
cover it.

## Modules

### `Sensor` and `SensorTable`: a table of sensors

`Sensor` is one row as data: `setFields` with the type test of
`Item::setField`, and `getState` with its tests in the order of the source. Of
the five doubles of a row one stands for all, because they are copied the same
way and decide nothing.

`SensorTable` is the whole life of a table:

* the objects (`has`, `val`) are the environment; each of their actions
  (`AddInterfaces`, `ChangeProperty`, `RemoveInterfaces`) is a change together
  with its signal. A change is routed only while a row holds the match;
* `GetSubTree`, `GetAll(p)`, `Store`, `RunLoop` are the steps of `Table::update`
  between which the world can move. Asking and storing are two actions because
  signals and the match come in between;
* `onInterfacesAdded`, `onInterfacesRemoved`, `onPropertiesChanged` are whole
  handlers, including the traps of `onCreate`, `setFields` and `onDestroy`.
  `onInterfacesAdded` calls `setFields` once per interface, in the order of the
  `std::map`, as the code does: intermediate states may send intermediate traps;
* `told[p]` is the state in the last trap about `p`; `Mute` are the names for
  which `make_oid` fails, whose rows never send one;
* `unheard` is a history variable, used in properties only: what was last said
  about a property where the agent could not hear it.

Whether a `PropertiesChanged` routed for a row that is dropped reaches a row of
the same path made later depends on sd-bus's bookkeeping of new matches; both
are allowed (`orphaned`).

### `SensorMib`: what a manager is promised

The abstract specification of a sensors table has two variables: `view`, what a
GET returns of each sensor (a state, or that there is no row), and `told`, the
last trap about it. Rows change in any way, but a change of `view` and its trap
are one step, and there is no trap without a change; only `Restart` takes rows
away in silence. `SensorTable` implements it with `view` mapped to `getState` of
the rows. The point is the one step: one `InterfacesAdded` calls `setFields` up to
three times, each of which may send a trap, and whatever they sent, the handler
has to end with the trap of the state the row ends in, and with none if that is
the state it began in.

### `Items` and `AgentTables`: inventory, software, and the process

`Items` is one row of each of the two tables as data: the fields of their
interfaces, the conversion of an enum string (`get`, and when it `throws`),
`setFields`, and the two columns of the inventory that traps are about as the
MIB's TruthValue. Names and members of enums are told apart, characters are not.

`AgentTables` is the process with both tables. `phase` is where `main` is:
`"software"` and `"inventory"` in the `init` of the table, in this order,
`"loop"`, or `"down"`. As in `SensorTable` the objects are the environment and
each of their actions is a change with its signal. What is new:

* an object may have interfaces of several services. `GetSubTree` gives all
  pairs, `GetAll(p, s)` asks one service and is answered for the interfaces of
  that service, and `Store` puts the answer into a row that exists from the
  first answer on, and hears of changes between two answers;
* `Throws`: the bare name of an enum makes `substr` throw in the handler or in
  `Store`. Nobody catches it: `End`, the rows of both tables and the queue are
  gone and nothing is told. `Terminate` is the same by a signal, at any moment
  and any number of times. `Start` is systemd's;
* calls fail: with `"mapper"` the answer of `GetSubTree` is any set of pairs, none
  for one, and with `"getall"` a service that has its interfaces may give an
  empty answer, as `callMethodAndRead` makes of every error;
* a trap of the inventory carries both flags. `session` is the AgentX session:
  without it `send` does nothing. `told` is what the last trap that *arrived*
  said. The history variable `lost` remembers why a manager may be wrong about
  an item: nothing, a lost trap, or an end of the process while the item had a
  flag that only `onDestroy` could take back;
* `unheard` is as in `SensorTable`.

### `AgentUnit`: the process as systemd runs it

`AgentUnit` extends `AgentTables` by the unit. `yadro-snmp-agent.service.in` says
`Restart=always` and nothing of start limits, so that systemd's default holds
(five starts in ten seconds): `StartUnit` is a start while `StartLimit` is not
reached, `RefuseStart` the failed unit, `IntervalPasses` the end of the interval,
at any time, because the models have no clock. The rest of the process is that of
`AgentTables`, word for word.

### `InventoryMib`: what a manager is promised of the inventory

The abstract specification has the state of two parties: `view`, what a GET
tells of each item with identifiers, and `told`, what the last trap that arrived
said, with `lost`, why that may be wrong, and `session`. Its only steps are a
session that comes or goes, a change of one item with its report, and the end of
the agent. `AgentTables` implements it with `view` mapped to the two columns of
the row. A handler calls `setFields` once per interface and may send a trap each
time; a message may change other columns only, or nothing; the object may be
read by `GetAll` into a row that exists: each is one `Change` or no step at all.

### `TableRows`, `TableItems`: how rows are kept and walked

`TableRows` is the abstract specification: a set of names, with the hooks run
exactly when a row comes to exist or ceases to. `TableItems` is the code: a
vector in the order of names, `std::lower_bound`, `emplace`, `erase`, and the
manager's walk by GETNEXT, answered by net-snmp's table iterator, which visits
every data point by an index into the vector. The refinement maps `rows` to the
names in the vector. A name is its place in the order of `std::string`;
`Index` is its place in the order of index identifiers, which begin with the
length of the name: the two orders differ. `update`'s loop over rows that are
not in the mapper's answer is in `SensorTable` (`GetSubTree`).

### `HostPower`: the host power state

The scalar's match is added by a static object's constructor, so no change is
lost; but the initial `Get` overtakes what is queued. `version` numbers the
states the host went through, `valver` the one the agent shows. With the fault
`"call"` the mapper or the running service does not answer: `update` ends, and
the value stays unknown until a signal comes. `ShowsHost` therefore speaks of
states the agent was told (`heard`): a state is not told if the service came up
without a word (`"silent"`), or was there before the agent did and the initial
`Get` failed or found signals waiting.

`HostMib` is what a manager is promised of it: numbers of states only grow, GET
and last trap are one state the host has had, the first one is known by asking
or by a signal, and `late` counts the signals that may still go back, which are
those that waited when the agent asked. `HostPower` implements it with `late`
mapped to its `backlog` while it is in the loop.

### `SnmpLoop`: the event loop

What the library may do in a call is `LibraryCall`: close and open sessions,
and change its alarms. Everything else is the code: the two loops of
`sdevent_snmp_update`, its timer, the post source that runs it after every
event, and the initialisation, whose last step is followed by no update. A
source whose descriptor was closed is `stale`: the kernel has dropped it from
epoll. `sdevent_snmp_update` begins with the library's
`netsnmp_check_outstanding_agent_requests`, which serves delegated requests; the
agent's handlers delegate none, and it changes nothing here.

`Faults` are the two doubtful points: `"reuse"`, a descriptor's number given to
a new session between two updates, without which `Attached` holds, and `"zero"`,
a timeout of zero, for an alarm that is due by the time of the update: the timer
is not set for it (`snmp.cpp:74`). `SnmpLoop_live` checks the loop with it. What
remains true is `AlarmIsTimed`, which speaks of alarms still to come, and
`AlarmIsRun`, which names the two ways for a due alarm to wait for ever: other
events come without end, or the zero left the timer off and no other event comes.

### `SnmpdConf` and `SnmpCfg`: the configuration manager

`SnmpdConf` is the file. It is a sequence of lines, each a com2sec line (its name)
or another. Two constants say how text becomes lines, which is all of the text
the properties tell apart:

* `Written[v]`: the lines that are read where `v` was written. The setter checks
  the length and nothing else, the name is streamed as it is, with quotes around
  it if it has whitespace, and read back without a pair of quotes: most names
  are one line with that name, one in quotes is a line with another name, and
  one with newlines several lines, with names of their own or none. `Stored(v)`
  is the name that comes back.
* `Torn`: what may be left of a line, or of what is written for a name, when the
  disk is full: any of these pieces, and nothing after it, because a stream that
  has failed writes no more.

Files have names of any length (`FileNames`), because `readConfig` checks none.

`SnmpCfg` is the server. `writeConfig` is split where the process may end or a
call may fail: open, one action per line, close, rename or remove, reload. The
loop may end before the file does (`"read"`). The repository's README
describes methods (`GetConfig`, `SetConfig`, `ResetConfig`); the code has the
property `Community` only, and the model is of the code. Two history variables:
`behind`, the file could not follow the property, and `missed`, the file was
replaced and no reload was asked for since.

`Configuration` is the same without temporary file and steps: `Replace` puts in
one step what each line becomes, one after the other (`Rewritten`), up to the end
of what could be read, or up to a piece of a line if the disk is full
(`BrokenOff`), and only if a name has to change; then the server owes one reload
(`due`), which it asks for or fails to. `SnmpCfg` implements it: opening,
copying, closing and removing are no steps of it, and no fault or end of the
server between them shows in the file.

## What is checked

Each run is one question. All finish within a few minutes.

| Run | Checks | Shows |
|---|---|---|
| `SensorTable_faults` | `TrapsAgree`, `Accurate`, `AlarmReaches`, `MibSpec` | with interfaces lost one by one, payloads of another type, failing calls, a mapper that errs, and restarts: traps and GETs agree in every state, only values nobody could announce are missing at rest, and the table implements `SensorMib` |
| `SensorTable_live` | `GoneIsNotified`, `NoPhantomRow`, `NoMissingRow`, `RowsFollow`, `MibSpec` | two sensors, one without trap OID: signals racing with the initial update leave neither a phantom nor a gap; objects that stay get their rows, objects that stay away lose them |
| `SensorTable_actual` | `ExportsActual` **violated** | a change between the reply and the match is lost |
| `SensorTable_critlow` | `CriticalLowShown` **violated** | both low alarms raised read as warningLow |
| `HostPower_host` | `TrapIsValue`, `ShowsHost`, `MovesForward`, `MibSpec`, `ManagerLearns` | GET, trap and host agree, through restarts of agent and service and failed calls, unless nothing told the agent, and it moves back only for overtaken signals: `HostMib` |
| `AgentTables_life` | `InStep`, `EndHidesNothing`, `Accurate`, `MibSpec` | an item of two services and an image, through exceptions, signals, failed calls and lost traps: the next trap makes up for the lost ones, an end hides nothing, and at rest every announced value is in its row; the process implements `InventoryMib` |
| `AgentUnit_serves` | `Serves` | once no service publishes a string that ends the process, the agent comes to its loop and stays, unless systemd refused to start it |
| `TableItems_walk` | `Sorted`, `RowsSpec`, `WalkComplete` | the vector is the set; a walk gives every row that stays |
| `SnmpLoop_live` | `Attached`, `AlarmIsTimed`, `DataIsRead`, `AlarmIsRun` | with timeouts of zero: the loop never waits for data or an alarm to come that no source would report, data is read, and what can keep a due alarm from being run is named |
| `SnmpLoop_reuse` | `ListIsAttached` **violated** | a reused descriptor leaves a source that watches nothing |
| `SnmpCfg_faults` | `PropertyIsFile`, `ReplacedWhole`, `DaemonIsFile`, `ConfigSpec`, `DaemonCatchesUp` | every fault at every step, lines cut by a full disk, a name in quotes and one with a newline; the file changes as a whole, or by what came before the cut, and reaches the daemon unless a reload was missed: `Configuration` |
| `SnmpCfg_retry` | `CommunityAllowsAccess` **violated** | a failed reload is never made up for |

The violations are findings; `PROJECT.json` quotes the text each disagrees
with. Every property of a passing run has a mutant, an operator in its module
marked "Seeded fault", that breaks it when it takes the place of the definition
it is a variant of.

### Bounds

* `MaxInbox` and `MaxQueue` (2 or 3 signals): the hazards need an old signal
  behind a newer reply, and a removal with an addition behind it; three signals
  of one object make all pairs of kinds with one between them.
* One or two sensors: rows do not influence each other; two are there for an
  update that asks one service after another and for the traps of a mute one.
* `AgentTables_life`: one item with an interface of each of two services, which
  is what a row filled in parts needs, and one image, enough to end the process;
  one purpose and the bare name of its enum; ends by signals and by exceptions
  are not bounded, nor are lost traps. `AgentUnit_serves` leaves out the second
  service and the session, neither of which matters to whether the process
  lives; two starts in an interval (`StartLimit`), after which the third is
  refused, and one end from outside (`MaxEnds`), besides those by exceptions.
* Two alarm flags at a time, a high and a low one: `getState` tells four apart,
  and a pair shows the order of the tests. Two readings, one payload of another type.
* `MaxVersion` 5: more states than the queue holds, so that all of it can be
  older than the reply. The service may stop for good, after which nothing
  happens: that run does not check for deadlock.
* Three descriptors: the ends of the range and one between.
* Four names and two columns: the walk's order differs from the vector's at
  both ends and in the middle.
* `MaxLines` 2 (3 in `SnmpCfg_retry`): files of up to two lines, com2sec or not, in any order. A request
  with a name of two lines makes them longer, up to four lines; no such request
  is made when the file is longer than `MaxLines`. Four names: two plain ones, of
  which one is a beginning of the other, as a cut leaves it, one in quotes and
  one with a newline. `SnmpCfg_retry` needs the plain ones only.

### Fairness

* The agent's thread is in `update` or in the loop and takes its next step:
  `WF(Agent)`. Nothing is assumed of services, objects or managers.
* `AgentUnit`: weak fairness of the agent's steps, and of systemd's decision to
  start the agent or to refuse. `Serves` has the refusal as its other premise:
  without it the property is false, for a string that ends each new process uses
  up the limit. The fairness of the agent's steps is written with `HasWork`,
  which says when one of them is enabled, instead of `WF`: TLC would compute the
  steps once more to find out.
* The loop: `WF` for the thread's own steps, for the timer to elapse and for
  its callback. `SF` for reading a descriptor: sd-event dispatches the sources
  of a priority in the order in which they became pending, and a descriptor
  stays pending until it is dispatched. The timer is set anew by every update,
  which takes it out of that order: it has weak fairness only, and `AlarmIsRun`
  says what follows: an alarm that stays due has other events without end
  before it, or the timer is off after a timeout of zero.
* The configuration manager: `WF` for the steps of a request and for systemd's
  pending reload. Clients need not ask for anything, and a server that has ended
  need not be started again.

## What is proved

TLAPS checks these for every value of the constants, from the named assumptions
of the modules only. `*_proofs.tla` hold one chain of lemmas per theorem: `Init`
implies the invariant, each action preserves it, it implies the property.

* **`SensorTable_proofs`.** `TypeCorrect` rests on `SetFieldsType`, that is on
  the type test of `setField`. `TrapsAlwaysAgree` needs the strengthening
  `MuteIsSilent` (names without OID were never told anything), so that a row
  made again starts from what a manager knows. `GoneAlwaysNotified` holds
  without restarts, and not with them: the agent ends without `onDestroy`.
  `ImplementsMib` is the refinement of `SensorMib`, action by action.
* **`SensorTable_rows_proofs`.** `NeverPhantom` and `NeverMissing` are not
  inductive: they speak of rest. The invariant `Believed` says, for every
  object, that the last signal of its life waiting in the queue tells the truth
  about it, and when none waits, that rows and the rest of the update do. The
  first needs a truthful mapper, the second also objects that go as a whole.
* **`SensorTable_values_proofs`.** `AlwaysAccurate` and `AlarmAlwaysReaches`
  speak of rest too, and need no assumption on faults. The invariant says of
  each property of each object where its value is on the way to the row: the
  last message of the queue that would set or drop it (`LastWord`) brings it,
  and a change brings it only while nothing before it drops the row; if no
  message matters, the reply that is to be stored has it, or the row does
  (`Arrives`). What an object does not publish is blank in the row, or the row is
  about to be dropped (`Cleared`): without this a flag of an interface that has
  gone could keep an alarm up.
* **`HostPower_proofs`.** `TypeCorrect`; `TrapsMatch`; `OnlyForward` by `Ordered` (the queue is
  in the host's order, and newer than the agent's value behind the backlog);
  `HostIsShown` by `Latest` (what will be stored last is the host's state once
  the agent heard of it, whichever calls fail).
  `ImplementsMib`, the refinement of `HostMib`, needs `Genuine` besides: what has
  the number of the host's state is that state, in the queue, in the reply and in
  the value. `Ordered` gives that a number is one of the host's and that numbers
  grow; `Genuine` that they mean what they say.
* **`TableItems_proofs`.** Insertion and removal element by element;
  `AlwaysSorted`; `ImplementsSet`, the refinement of `TableRows`;
  `WalksAreComplete` by `WalkInv`: what the walk has passed of the rows that
  stay it has given. `SearchIsExact` says that the choice of an iterator in the
  model has one outcome, whatever came and went: there is one point of partition
  for each name, and it is the row if there is one. It rests on the least element
  of a set of numbers, from the library's theorem on well-founded orders.
* **`SnmpLoop_proofs`.** `AlwaysAttached` by `Watched` (a live source watches an
  open session, a stale one's number is free), without `"reuse"`;
  `AlwaysTimed` for every library: the update sets the timer for an alarm to come,
  and what the tables set after the last update meets the timer as it was created.
* **`SnmpCfg_proofs`.** For any `Written` and `Torn`. `AlwaysReplacedWhole` by
  `Copied` (the temporary file is what the lines read so far become, whatever a
  former request left there, up to a piece of the last of them if the stream has
  failed); `PropertyStaysFile` by `Settled` (the first name of a file just
  replaced is the property, or what it is read back as), which needs that the
  first name of a rewritten file comes from the first line with a name, or from
  what was written before it; `DaemonStaysFile` by `Owed` (what the daemon lacks
  is being asked for, is pending at systemd, or was missed), without assumptions.
  `ImplementsConfiguration` takes `Copied` and `Reasons`: a copy that was changed
  comes from a file with a name that is not the property, a stream fails on a
  full disk only, and a server that is down has no name.
* **`AgentTables_proofs`.** One inductive invariant, `IInv`, in six parts: the objects,
  the queue, where `init` is, the rows, what is unheard, and the world outside. `TypeCorrect`
  follows, `AlwaysInStep` and `EndNeverHides` from the part about rows: of each
  row, after any number of lost traps, `told` is what a GET gives unless `lost`
  says why not. It holds row by row, so that the chain of `setFields` of one
  message keeps it by composition (`SetFieldsGood`). `AlwaysAccurate` has a second
  invariant on top, `AllHeard`, like the one of the sensors (`Arrives`), with two
  differences: a row is filled in parts, so that a reply waiting for the same row
  must not have the property if the row is said to have it; and nothing has to
  be said once per object, because `update` asks each service and may find a row
  that a signal or another answer made. It uses `NamesAssumption`: an interface
  the table does not own has no property with the name of a row's field. The
  match of a row takes `PropertiesChanged` of every interface of its object, so
  that such a property would be stored as the row's. `ImplementsMib` is the
  refinement of `InventoryMib`: `Reports` says of one item, before and after, that
  either nothing is told and the two columns are the same, or they differ and the
  report says what they became. One call of `setFields` does so
  (`SetFieldsReports`), and two in a row do, unless the second takes back the
  first, which would be a report without a change: fields of one message belong
  to different interfaces, so that no flag is set twice (`ReportsTwice`).

**Model-checked only.** Liveness (`RowsFollow`, `ManagerLearns`, `DataIsRead`,
`AlarmIsRun`, `DaemonCatchesUp`, `Serves`): the prover has no rule for fairness.
Every safety property the passing runs check is proved, and every refinement.

## What is not modelled

* Encoding of SNMP values, object identifiers and variable lists, except that
  an identifier can be too long. What the library does with the empty identifier
  of an inventory item whose name is too long (`Mute` in `AgentTables`).
* Delivery of the traps of sensors and of the host power state: such a trap
  counts as told when it is sent. Both carry the whole state, as those of the
  inventory do, for which the loss is modelled.
* Scaling of readings to integers (`getValue`): a NaN or an overflow has no
  effect on any decision of the code.
* Objects whose path is the folder itself or a sibling with the same prefix:
  `substr` throws for the first, the second makes rows with odd names.
* Columns of the inventory other than `Present` and `Functional`, and of the
  software table, as a manager reads them: each is the value of its field. Rows
  hold all of them, the runs use some.
* The command line; `snmpagent_destroy` at the exit; test scripts.
* systemd: the order of units, and the start limit of the configuration manager.
* Announcing the end of sensors that go while the agent is down: nothing in the
  code does, `GoneIsNotified` is checked and proved without restarts.
* Durability across power loss: the server never calls `fsync`, and the model's
  files survive what ends the process.
* Edits of `snmpd.conf` by others while the server runs.

## Plan

Done: all modules above, their runs and proofs. Worth doing next, in this order:

1. `SnmpCfg` with power loss (the rename reaches the disk before the data), and
   with edits of `snmpd.conf` by others.
2. The loss of traps for sensors, together with `SensorMib`: a manager who
   misses a trap knows the state again with the next one or by a GET.
3. `SnmpLoop` with the ordered exit.
