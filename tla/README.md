# EasyNode: TLA+ models and proofs

EasyNode is a single Go program that runs on a server: a web panel that sets up
proxy nodes, writes the configuration of the sing-box service, hands out
subscriptions, and can chain its server to others.  This directory holds TLA+
models of the parts where order, failure and concurrency matter, the TLC runs
that check them on small instances, and proofs about them for all instances.

## The system

| Part | State | Operations | Hard because |
|---|---|---|---|
| State store (`internal/store`) | `AppState` in memory, `state.json` | `Open`, `Snapshot`, `Update` | a snapshot shares its slices with the store; a failed save leaves memory changed |
| Node and settings handlers (`internal/api/handler_nodes.go`, `handler_setup.go`, `helpers.go`) | nodes, domain, certificate paths | `Setup`, `AddNode`, `RemoveNode`, `NodeAction`, `UpdateSettings`, `ensureRunnableNodes` at the start | only the transaction is atomic; the configuration is written afterwards, without a lock, from a snapshot, and its errors are dropped |
| sing-box configuration (`internal/core/singbox`) | `sing-box.json`, `sing-box.json.tmp`, the service | `WriteConfig`, `ValidateConfig`, `RestartService`, `GET /sing-box/config` | every caller uses the same temporary file |
| Chain pairing (`handler_chain.go`, `internal/core/chain`) | peers, clients and codes of each server | `GenerateCode`, `Pair`, `RemoveChainPeer`, `RemoveChainClient`, `SetChainAccepting`, `ChainPublicPaired`, `ChainPublicUnpaired` | two stores kept in line by one notification, given up after 3 s and never repeated |
| Login and sessions (`handler_setup.go`, `internal/util`) | password hash, session hash, failures, lockout | `Login`, `Logout`, `UpdateSettings`, `auth` | checks on a snapshot, effects in a later transaction |
| Upgrade (`handler_system.go`) | `upgradeState`, systemd's unit and journal | `Upgrade`, `runUpgrade`, `UpgradeStatus` | lock released in the middle; the upgrade restarts the panel itself |
| Metrics and traffic (`metrics.go`, `internal/core/traffic`) | cache, traffic history | `refresh`, `enrich`, `trafficPersistLoop` | counters that are reset or unreadable; one limit for the history of all ports; a read lock held while dialing |
| Subscriptions (`internal/core/subscribe`) | none | `Link`, `V2rayN`, `ClashV2` | three loops choose the nodes that are served or offered, four places spell out how to reach one |
| Certificates (`cert`) and the HTTPS loop (`main.go`) | the listener's certificate | `Ensure`, `serveHTTPS` | minutes in the middle of a request; a listener that fails |
| Detector (`internal/core/detector`) | none | `CheckPurity`, `Detect`, latency probes | services that contradict each other or are silent |
| Frontend (`app.js`), installer (`scripts/`) | none of the server's | | presentation; shell |

How they interact.  A request that changes something runs one `Store.Update`;
then, with no lock held, it takes a `Snapshot`, calls `WriteConfig` on it and
`RestartService`, and answers.  Chain handlers additionally post one
notification to the other server.  Background loops read snapshots and write
display fields.  At every start `ensureRunnableNodes` corrects the nodes before
the first request is served.

What should hold, by part: the store has no two nodes of a protocol, and the disk
has what memory has; `sing-box.json` is always something sing-box accepts, and
together with the running service it follows the stored nodes and the first exit;
links that are handed out can be used; paired servers list each other; nobody is
unpaired but by one of the two or by a post that names him; a request is always answered; whoever is logged in has
proved the present password, and a login cannot bypass the lockout; HTTPS comes up
once there is a certificate; a subscription offers what is served, and what it says
reaches it; the traffic history counts nothing twice; a purity report does not
contradict its sources or itself; an upgrade runs once and its end is reported truly.

## Modules

| Module | What it is |
|---|---|
| `ConfigRegister` | abstract: what `WriteConfig` promises its callers |
| `ConfigFile` | `WriteConfig` and `RestartService`, one action per system call, files as names bound to inodes |
| `Panel` | the store, the handlers of nodes and settings, their pipelines and the start, on top of `ConfigRegister` |
| `ChainPairing` | several servers, the chain handlers and their notifications |
| `Upgrade` | clicks, the task of an upgrade, the status put together from systemd, the installer |
| `Session` | passwords, sessions, the lockout, requests that wait for certbot, the HTTPS loop |
| `Metrics` | iptables' counters, the refresh and persist loops, readers, their lock, the traffic history |
| `Purity` | pure: the purity report, as a function of what the services answer |
| `Formats` | pure: what inbound, link, Clash proxy and chain outbound say of a node, and the names in a Clash file |
| `MCConfigFile`, `MCPanel`, `MCChainPairing`, `MCUpgrade`, `MCSession`, `MCMetrics` | constants, bounds, views and symmetries of the runs |
| `ConfigFileProofs`, `PanelProofs`, `PanelServiceProofs`, `ChainPairingProofs`, `UpgradeProofs`, `SessionProofs`, `MetricsProofs`, `PureProofs` (of `Purity` and `Formats`) | theorems |

Composition: `Panel` has an instance of `ConfigRegister` (`File!Enter`,
`File!Commit`, `File!Abort`, `File!Die`) where its handlers call `WriteConfig`,
and `ConfigFile` is shown to implement that register (`ImplementsRegister`,
checked and proved).  `ChainPairing` has the overlap of a server's handlers, with the
snapshot and the installation as separate steps; what a failed save and a shared temporary
file add to that is the subject of `Panel` and `ConfigFile`, and its `HandleOther` stands for
any handler of `Panel`.  `Session` and `Panel` are two
views of the same handlers `Setup` and `UpdateSettings`: one has the password and the
wait for the certificate, the other the nodes, and `UpdateElsewhere` of `Panel` stands
for `Login` and `Logout`.  `Metrics` has the store's history and its saves.  `Upgrade`
shares no state with the others but the process, whose death and start each of them
has.  `MCPanel` evaluates the claims of `Formats`, `MCMetrics` those of `Purity`, as
assumptions.

### ConfigFile and ConfigRegister

`pc[w]` is the next system call of a goroutine in `WriteConfig`: `open` after
the temporary file was opened and truncated, `written`, `checked` or `refused`
after `sing-box check`, then `ok` or `err`.  `tmp` and `conf` are the inodes the
two names are bound to; a descriptor keeps writing to the inode it opened, also
after somebody renamed it.  File contents are the configuration last written
from the first byte and a length, which is what a mixture of two writers comes
down to.  Write errors, a failed open, a refused configuration, a failed restart
and the death of the process are actions or disjuncts.  Goroutines that only serve
`GET /sing-box/config` are in `viewer`: they write and do not restart.

The register keeps one `content`.  A call that has the file to itself commits
its own acceptable configuration or leaves the content alone; when calls
overlap the content is `Unknown` until a later call on its own succeeds.  The
refinement mapping reads `content` from the inode `sing-box.json` names.

### Panel

`Update` with `Save` is `Store.Update`; each handler is one action that ends in
it, because the whole handler function runs under the store's lock.  `Launch`
starts the rest: `Snapshot`, one `RenderNode` per element (the loop reads
elements of an array that other handlers may be changing), `OpenConfig`,
`ConfigInstalled` or `ConfigRefused`, `RestartService` or `RestartFails`.
Slices are `[arr, len]` over `heap` and `cap`, so in-place compaction
(`RemoveNode`), in-place writes (`NodeAction`, `UpdateSettings`) and `append`
within capacity (`AddNode`) act on what a snapshot in flight still shows.
`Start` is `store.Open` followed by `ensureRunnableNodes`, after a stop or a crash
at any point.  A node is its protocol, status, host, link and whether it has
Reality keys; a link records the host and keys it was made from.

History variables: `drift` remembers that something happened which excuses a
configuration behind the store (overlapping pipelines, a failed save, write or
restart, a crash) and is reset by a pipeline that ran alone and succeeded;
`revived` that a start turned a Reality node on without a rewrite; `solo` which
pipelines have met no other.

`NodesForRequest`, `V2rayN` and `ClashProxies` are what a subscription makes of a
snapshot.  They change nothing; `SubscriptionIsServed` compares them with the service.

### ChainPairing

`req[r]` is a handler together with its notification: `step` is where it is.  `issue` is
between the snapshot and the transaction of `GenerateCode`; `rewrite` before the snapshot
for `WriteConfig`, `install` between that snapshot and the installation, and `sent` when the
notification has been posted; `serving` and `replace` are the same two moments at the
receiver, and `ok` or `refused` the answer on its way back.  `waiting` says whether the
sender's handler still waits.  `TimeOut` ends the waiting and leaves the notification where
it is, so it may be handled after anything the administrators do next; `Lose` drops it.

No lock is held from a snapshot (`Look`) to its installation (`Install`, `ServeInstall`).  In
between a request carries the `outbound` it has rendered, and it is `overtaken` once another
handler of the same server has taken a later snapshot, or has changed the list and will not
write at all (`PairLocally`).

A pairing code is an identity with its bundle; `listed` says that the issuing server still
stores it.  Codes expire at both ends at once (the clocks of the servers are taken to
agree).  The list of peers is a sequence, because `WriteConfig` uses the first; clients are a
function of the endpoint, because that is what `upsertChainClient` keeps apart.  `served` has
the links of a server's running nodes: a code takes one of them, and any of them is an
invitation.

`ChainPublicUnpaired` is a public route that does not ask who the caller is.  Besides the
notifications of the servers' own handlers, `OutsideUnpaired` is a post of anybody else, with
any endpoints and any link it may know (`Posts`); `Severed` are the pairs it cuts.  Posts of
others to `ChainPublicPaired`, which need a code or a link that is served, are not modelled.
Public keys are fresh random values and match nothing the endpoint and the link do not
match, so they are left out.

History variables: `doubt` holds the pairs of servers of which a notification failed or
crossed another, or which a post from outside has cut, until a notification succeeds on its
own; `behind` the servers whose configuration was not written after a change, or was last
written by a handler that had been overtaken; `withdrawn` the codes issued before their
server closed its pairing.

### Upgrade

`handler[p]` is a click between the two looks at `upgradeState.Running`, with no
lock while GitHub is asked; `task[p]` is the goroutine of `runUpgrade` it may start,
one action per command.  `running` and `step` are `upgradeState`, its progress and
output abstracted to what the page distinguishes.  `viewer[v]` is a request for
the status, which makes a copy of `upgradeState` and then runs `journalctl`,
`systemctl is-active` and `systemctl show`, one action each; `seen[v]` is what it has
got so far.

systemd and the script are the environment, modelled by what these commands can
tell: `systemd-run` is refused while the unit is loaded; a transient unit that
succeeds is unloaded, and of a unit that is not loaded `systemctl show` prints the
result "success"; `curl | bash` with nothing to run succeeds.  The installer
restarts the panel half-way, which forgets `upgradeState` and every goroutine, and
it may fail or hang anywhere.  `systemctl is-active` is taken to work; every other
command may fail.

History variables: `outcome` is what became of the unit last started; `calm` the
requests since whose start no click has begun an upgrade or touched the unit;
`steady` those since whose start the installer has been running.  `seen.stale`
says that the success a request found in the journal was an earlier upgrade's.
`CompleteIsInstalled` names each case in which the status is wrong: no unit of the
upgrade yet, a script that could not be fetched, an older line in the journal, a
click during the request, and a task that had stopped waiting.  Leaving out any of
them, TLC finds a behaviour.

### Session

A handler is two steps: it arrives (`LoginArrives`, `SetupArrives`, `SettingsArrive`) and
looks at a snapshot, and later one transaction changes the state (`LoginFails`,
`LoginSucceeds`, `SetupEnds`, `SettingsEnd`).  In between come the derivation of a key and
perhaps certbot, which `EnsureFails` lets end the request.  `Update` is the same
`Store.Update` as in `Panel`: a failing save leaves the change in memory.  A password stands
for its hash, and `util.Token` for a fresh number.  `Issue` records to whom a session went;
if the save failed, or after a logout, it went to nobody.  The lockout is a flag that
`LockoutEnds` may take away at any time; `failures` stops at the limit, above which the
code compares no further.  `https` is the loop of `serveHTTPS`; a listener that started
never returns while it listens, so it keeps the certificate it started with, which is why
`HttpsComesUp` asks for any certificate and not for the present one.

History variables: `proof` is the password the receiver of a token has shown or set,
`crossed` the tokens of logins under which the password was changed (the code checks the
old one and then issues a session), `ended` the tokens that ceased to be the session,
`unsaved` and `reverted` that a start lost changes, `tries` the wrong passwords since the
last reason to forget them.

### Metrics

`kernel` is what iptables shows, `gone` what it showed before resets.  A refresh reads one
chain and then the other (`ReadIn`, `ReadOut`), with traffic and resets in between, and
requests the write lock, which from then on keeps new readers out, as Go's `RWMutex` does;
`StoreReading` takes it when the readers have left.  A GET of the state is a reader for as
long as it dials the chain clients.  `Persist` appends what has passed since its last
sample and cuts the history to `MaxHistory`; its save may fail, and any other handler's
save writes the history too (`UpdateElsewhere`).  The panel may restart at any point while
iptables goes on counting.  Latency and peer status, which travel along, are left out, and
so is the data race on the display fields: `enrich` writes them into arrays it shares
with the store.

History variables: `recorded` sums all entries ever made, `made` holds those not lost with
an unsaved state, and `torn` remembers that a sample lacked a chain.

### Purity and Formats

`CheckPurity(sources)` is the set of reports the code may give for the answers of the four
location services: `counts` is ranged over in any order, so a tie may go either way, and
the reputation service may be silent.  The votes are over the country's code, but what makes
the code keep its choice is the country's name, so a service's answer is a record with both
(`spelled` says that the code comes with a name); a winning code whose first service gave no
name is replaced by what the reputation service says.  `GeoFollowsVotes` and `VerdictIsConsistent` state
what a report means, independently of the order of the checks.

`Formats` takes a text as the record of what it says.  `Inbound` is what the server
expects; `Link`, `ClashProxy` and `ChainOutbound(Link(n))` are what three kinds of clients
are told.  `ChainAgrees` and `ClashAgrees` say that all of them reach the inbound;
`ClashResolves` that a Clash file names nothing it does not define.

## Runs

| Run | Bounds | Shows |
|---|---|---|
| `config_file` | 2 goroutines, 3 configurations (short, long, refused), 4 inodes; the reachable states are all explored | a call on its own installs its own rendering whatever litter it finds; only overlap spoils the file; the service follows the installed file; no litter without a failure; the register is implemented |
| `config_file_atomic` | the same | **violated**: a call that succeeded restarts sing-box on a file that another call has emptied; no call fails |
| `panel` | 2 handlers, 2 protocols, 3 arrays of capacity 2, 4 events, from a fresh and from an established state | unique protocols, sound links; configuration and disk follow the store |
| `panel_alone` | 1 handler, Reality and Trojan, lists up to 4, 4 events, from a fresh and from a legacy state | the configuration follows the store with no overlap to excuse it; subscriptions in both formats offer what sing-box serves; what a start leaves running; on the way, that `Formats` agrees for every protocol |
| `panel_running` | 1 handler, 5 events | **violated**: a TLS node is listed as running after its certificate was given up, and a stopped Reality node after a start, with no inbound |
| `chain` | 2 servers, 2 requests, 1 code, 3 events, from strangers and from a mutual pairing, fairness | lists agree unless a notification failed or crossed; the outbound follows the first peer unless the last write failed or was overtaken; every request is answered |
| `chain_three` | 3 servers, 1 request, 1 code, 4 events, from an entry with two exits | nobody is unpaired but by the other of the two or by a post that names him; withdrawn codes are dead |
| `chain_alias` | 2 servers, one with two endpoints | **violated**: "Unpaired" while the exit still lists the entry |
| `upgrade` | 2 clicks at a time, 1 viewer, 2 polls, 3 clicks or crashes, fairness | one upgrade at a time; its end is reported truly by the task and by the status; a running installer is shown; a task ends |
| `upgrade_complete` | the same | **violated**: "Upgrade complete" for an upgrade that has not begun to install, with no earlier line in the journal to mislead the panel |
| `session` | 2 requests at a time, 2 passwords, 1 domain, lockout after 2 failures, 3 tokens, 5 events, fairness | whoever is logged in has proved the present password; what was ended stays ended; the lockout bounds the guesses; HTTPS comes up |
| `metrics` | 2 ports, 1 viewer, a history of 2 entries, 3 samples, 3 events, fairness | the history counts nothing twice and covers its window; readers and refresh get on; on the way, that every purity report over 3 countries is sound |

Why the bounds are enough to be interesting: two goroutines already overlap in
every order of system calls, and a third configuration and four inodes let an
old descriptor, the temporary name and the installed file be different files;
two handlers over three arrays let one snapshot be behind while the other handler
compacts, appends in place or reallocates; in `chain` two requests let a late
notification meet its own undoing, two servers notify each other at once, and one
handler overtake another between its snapshot and its installation; from the mutual
pairing three events suffice to unpair on either side and pair again under such a
notification; in `chain_three` lists hold a third server beside the one an unpairing is about, and
four events let a code be issued, its link be taken out of service, the code be used and
the pairing closed, and opened again, before the notification arrives.  The view
`NamesOnly` of that run leaves out what neither its properties nor any guard or list
depends on; in `upgrade` two clicks meet between the two looks,
two polls let the task stop waiting before the installer does, and three events let
a second upgrade follow the first with a crash between them; in `session` two requests
let a password change under a login and two guesses pass the same look at the lockout,
and five events let a failed save, a restart and a further login follow each other; in
`metrics` three samples fill a history of two entries twice over, and three events put a
reset between the two chains after traffic.  Fewer units of traffic than in life lose
nothing: a difference only matters by its sign and by what it may not exceed.  What the theorems say holds beyond the bounds.
`MaxEvents` counts requests, starts and injected failures; a behaviour stops when
it is used up, so `CHECK_DEADLOCK FALSE` is set where it exists.

Every property has been tried against a slip of the code (the definitions marked
"Slip" in the modules): a dropped check, a forgotten rewrite, exchanged
arguments, a save in the wrong order.  Each is found.

Fairness is assumed in `chain`, `upgrade`, `session` and `metrics` (`FairSpec`).  In the first a
server goes on with its own handlers (goroutines are scheduled, `systemctl` returns),
and its HTTP client gives up after its three seconds; nothing is assumed of the
network, of other servers or of administrators.  In the second the task of an upgrade
goes on, because the commands it runs return; nothing is assumed of the installer,
whose end the task waits for.  In `session` the loop of `serveHTTPS` goes on, which
looks every five seconds; nothing is assumed of requests or of certbot, and the bound on
events limits how often listening fails.  In `metrics` a reader finishes, because dialing
ends after 1.2 seconds a client, and the writer takes a lock that is free; no further
refresh, sample or reader is assumed.

## Proofs

All theorems hold for every value of the constants that satisfies the named
assumptions, in particular for any number of goroutines, handlers, nodes and
events.

`ConfigFileProofs` rests on one inductive invariant, `Inv`.  `AloneInstallsItsOwn`
is not inductive: that a goroutine which met no other finds its own bytes under
the temporary name needs to know that it still is the only one with that file
open (`Exclusive`, `Lonely`), that its descriptor and the name are the same inode
(`OwnFile`), and that nobody's temporary file is the installed one (`FilesApart`).
`Rendered` says that whoever is inside has a configuration.  From `Inv` follow the
safety theorems (`TypeCorrect`, `InstallsItsOwn`, `SpoiltByOverlapOnly`,
`RestartFollowsInstall`, `TmpIsRemoved`) and, step by step, that the file protocol
implements the register (`ImplementationOfRegister`).

`PanelProofs`: `ProtocolsStayUnique` from the invariant `Stored` (slices lie
within their arrays, lists are typed and unique, on the disk too); the work is in
`RemoveNode`, whose in-place compaction is an increasing enumeration of the
positions that stay, and in appending within capacity.  `StartLeavesRunnable` is
an action property that needs no invariant but the type of the disk.
`DiskFollowsStore` uses `Accounted`: whenever disk and memory differ, `drift` is
set or a start is due.

`PanelServiceProofs`: `LinksStaySound` with `LinkInv`, under the assumption that the
links of the first state are sound.  `ServiceFollowsStore` from two invariants.  `Alone`:
a pipeline on record as having met no other is the only request at work, has the file to
itself, and without `drift` there is no other kind.  `Followed`: what such a pipeline has
rendered after k nodes is what the first k nodes of the store ask for, since nobody has
touched the arrays its snapshot shares with the store; and while no request but a GET is at
work, the file and the service have the rendering of the present store, which sing-box
accepts.  A start that reports no change must leave every node what it was in the eyes of
`WriteConfig`, and that is false of revived nodes, hence `revived`.  What `WriteConfig`
renders is stated as a relation (`Rendered`: an inbound for every node served, in their
order), because what a recursive filter computes cannot be proved.  `OffersAreServed`
follows: sing-box has accepted the configuration, so a running Reality node has keys, and
only then do the two formats agree.  `PipelinesUseTheRegister` closes the composition: each
step of `Panel` is a step of `ConfigRegister` or leaves the file alone, and
`ImplementationOfRegister` says that the file protocol implements that register.

`ChainPairingProofs` has three layers.  `Linked`: an endpoint and the link next to it are of
the same server in every list, code and request, so it does not matter by which of the two
an entry is matched; with it `OthersAreLeftAlone`, in which a post from outside takes away
only servers that it names.  `Dead` and `Followed` need only that.  `Dead` gives
`WithdrawnCodesStayDead`.  `Followed` gives `ExitFollowsFirstPeer`: of the handlers between a
snapshot and its installation at most one is not overtaken, and while nobody is about to take
a newer snapshot, either that one has rendered the list as it is, or there is none and the
installed outbound is the list's, or the server is `behind`.  The third is `PairInv`, for
`ListsAgree`: a request on record as having met no other about its two servers is the only
one about them, or a doubt about them is remembered (`Alone`, `Doubted`); while it is under
way the two lists differ by exactly what its step says (`Effects`); and without a request
and without a doubt they agree (`Agree`).  A post from outside puts the pairs it cuts in
doubt, and no other.  `ListsAgree` has the hypothesis `OneName`: every
server gives one endpoint, and first peers are distinct and known by it.  It is needed:
`chain_alias` shows that the lists part when a server goes by two names.  The run `chain`,
which checks `PairingAgrees`, satisfies it.  The other theorems of the module
hold without it.

`UpgradeProofs` builds its invariant in three layers.  `Tasks`: one task at most is at
work, which is what the second look at `Running` is for.  `Unit`: hence nobody but the
installer changes what systemd has to say once the unit has started.  `Views`: what a
request has read so far is still true unless an upgrade has begun meanwhile.
`Rounds` bounds the polls.  `OneUpgradeAtATime` follows from the first,
`ReportsAreTrue` from the second, `RunningInstallerIsShown` and `CompleteMeansInstalled`
from the third.

`SessionProofs`: what becomes of a session is told by the step that issued its token,
because the token is newer than all others (`Numbers`).  Memory and disk each know the
password of their session (`Known`); they differ only after a failed save (`Same`); and a
login whose password is no longer the stored one knows it (`Fresh`).  From these follow
`SessionsKnowThePassword` and `EndedSessionsStayEnded`.  `LockoutHolds` needs `Budget`: while
there is no lockout, the tries are at most the failures counted; once there is, they and the
logins under way that will fail are together fewer than the limit and the requests, a sum
that no step increases, since no login arrives and each failure takes one off.

`MetricsProofs`: `Chain` orders the amounts.  The record, the last sample, the cache, the
reading under way (completed by the chains it still lacks) and the counters each stand for at
most as much traffic as the next, and each has forgotten at most what the next has; so a
positive difference of two samples never exceeds what passed between them.  This is not
true of the bytes alone, which a reset makes smaller.  From it `NothingIsCountedTwice`.
`WindowIsCovered` rests on `Window`: a sample makes one entry a port at most
(`EntryNumber`), so the entries after one that is n samples old are fewer than n + 1 times the
ports (`Spaced`), in memory and in the file; whatever was dropped is older than the limit
divided by the ports.

`PureProofs` proves the claims of the pure modules for every set of
countries and for every value of a node's data.  The services are four (the set `Sources`)
and the protocols seven, as in the code.

Every invariant and every action property of the passing runs is a theorem.  Checked by
TLC only: liveness under fairness (`RequestsAreAnswered`, `UpgradeEnds`, `HttpsComesUp`,
`NobodyWaitsForever`), which the provers cannot reach.

## What disagrees with the code's own words

The violation runs above; each finding in `PROJECT.json` quotes the line.  More was met
on the way:

- `Pair` with a bare code makes the issuing server its own exit without writing the
  configuration, and links stored before the host changed are shown again when a node is
  toggled.
- Only the first exit is used (`config.go:182`), although the panel announces "Chain exit
  enabled" for a second one too.
- The history is "24h at 5-min intervals" (`metrics.go:105`) for one busy port only; with
  more, the window shrinks by their number (`HistoryCoversWindow` states what is left).
- If iptables cannot list a chain once, the next sample counts all its bytes as new; `torn`
  excuses that in `HistoryNeverOvercounts`.
- A login under which the password is changed still gets a session (`crossed`), and logins
  that arrived before the lockout are all tried (`GuessesAreBounded` has the number).
- Once HTTPS listens, a new domain's certificate is not used before a restart.
- A two-two tie of the location services is called a match, for whichever country the
  map yields first; `GeoFollowsVotes` demands a majority for that reason.
- A country the location services agree on gives way to the reputation service's answer if
  the service it was first heard from gave the code without a name (`purity.go:75`).
- Of two chain handlers of one server that overlap, the one with the older list may install
  its configuration last, with no failure anywhere, and nothing repeats the write; `behind`
  remembers it.  In `Panel` the same overlap is `drift`, which the next pipeline that
  runs alone puts right.
- An unpairing is not asked for proof of who sends it (`handler_chain.go:78`), so lists that
  agreed may part without any handler of the two servers; `doubt` remembers it.
- A link of TUIC pairs as an exit and yields no outbound (`config.go:285`).

## Not modelled

Cryptography, the texts themselves (quoting, QR codes, the simple Clash rules that
`ClashV2` never asks for, the fixed parts of a Clash file), static files, the panel's path,
latency figures and the data race on display fields; the
frontend and the shell scripts; the network probes of the detector, of which
`Panel` has the address they may find.  Failing saves, the arrays a snapshot
shares with the store and the steps inside `WriteConfig` are the subject of `Panel` and
`ConfigFile` and are left out of `ChainPairing`, as are posts of others than the chained
servers to `ChainPublicPaired`.  A server's own endpoint is a constant there: settings that change
it between two notifications are not covered.  The backup an upgrade makes, and the
request that compares commits, are in `Upgrade` by their outcome only.

## Plan

1. Done: `ConfigRegister`, `ConfigFile`, `Panel`, `ChainPairing`, `Upgrade`, `Session`,
   `Metrics`, `Purity`, `Formats`, and the theorems above.
2. Proofs: what remains of a pairing when a server goes by several names, in place of
   `OneName`; the steps that liveness rests on, each as a lemma of its own.
3. `ChainPairing` with settings that change a server's own endpoint between two
   notifications.
