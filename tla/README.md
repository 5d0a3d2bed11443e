# Verification of the gLite legacy services

TLA+ models, model-checking configurations and machine-checked proofs for the
stateful programs of this repository: the **proxy renewal daemon**
(`org.glite.security.proxyrenewal`); the **server bones**
(`org.glite.lbjp-utils.server-bones`), the master/slave skeleton of the L&B
and JP servers; the **GSS wrapper** (`org.glite.security.gss`), through which
clients and servers talk; and the **database layer**
(`org.glite.lbjp-utils.db`) below the servers. Everything is translated from
the C code; line numbers below refer to the files under `src/`.

## 1. The system

| Component | Source | State it keeps | Status |
|---|---|---|---|
| Proxy renewal: schedule and repository | `org.glite.security.proxyrenewal/src/commands.c` | per certificate subject a file `<md5>.data` of records, and proxy files `<md5>.<suffix>` | modelled |
| Proxy renewal: master and watchdog processes | `renewd.c`, `renew.c`, `commands.c`, `renewal_core.c`, `voms.c` | signal flags, the listen queue, what the watchdog has read and renewed | partly |
| Proxy renewal: client tool, protocol text | `client.c`, `common.c`, `api.c` | none | not modelled |
| Server bones | `org.glite.lbjp-utils.server-bones/src/srvbones.c` | counters of connections, socket pair, flags set by signals, one connection per slave | modelled |
| Server bones, older copy | `org.glite.lb.server-bones` | the same | not modelled |
| L&B proxy server | `org.glite.lb.proxy/src/lbproxy.c` | pid file, semaphores, database of a slave | not modelled |
| GSS wrapper | `org.glite.security.gss/src/glite_gss.c` | a context and a read buffer per connection | partly |
| gSOAP plugin | `org.glite.security.gsoap-plugin` | binds gSOAP callbacks to the wrapper | not modelled |
| Database layer | `org.glite.lbjp-utils.db/src/db.c` (and its twin in `lb-utils.db`) | connection, open transaction, buffered insert | partly |
| Job identifiers | `org.glite.lbjp-utils.jobid` and copies | none | not modelled yet |
| trio, strmd5, stdsoap2 | vendored or generated | - | not modelled |
| Exceptions of WMS utilities | `org.glite.wms-utils.exception` | none | not modelled |
| Deployment, YAIM, build | scripts and templates | none | not modelled |

### The proxy renewal daemon

Jobs of the grid outlive the short proxy certificates they run with. A client
**registers** a job with the file of its proxy and a MyProxy server; the daemon
keeps a copy of the proxy and renews it until the job is **unregistered** or
the proxy expires. Jobs with the same subject and server may share one proxy
(up to `MAX_PROXIES`), unless it carries VOMS attributes.

Two processes share the repository directory:

* the **master** (`renewd.c`) accepts connections one at a time and runs the
  handler of the request (`commands.c`): `register_proxy`, `unregister_proxy`,
  `get_proxy`, and, on behalf of the watchdog, `update_db`. Only the master
  changes records and the proxy files in use.
* the **watchdog** (`renew.c`), forked by the master, wakes up at intervals,
  reads every `<md5>.data`, renews the proxies that are due into temporary
  files and sends the master one `UPDATE_DB` request per subject. It holds no
  lock: everything it sends rests on what it read before the (slow) calls to
  MyProxy.

What is hard: stale readings (the record a renewal was for may be freed, taken
over or dropped meanwhile); a request the watchdog no longer waits for, but
which the master still handles, with temporary files already deleted, or
deleted while it looks at them; a master killed between the two disk writes of a handler; a watchdog that outlives its
master and works beside the new one; repeated requests of a client whose first
request timed out; a merge in `update_db` that needs both sides sorted though
nothing sorts; the boundaries of `get_delta`.

What makes it correct: a job has a usable proxy as long as its record says so;
a registration stays where it is, with its server and its VOMS flag, until its
client or the end of the proxy takes it away; a proxy is scheduled for renewal
early enough; sharing stays within its limits; expired proxies do not stay.

### The server bones

`glite_srvbones_run` listens on the sockets of several services. Its
**master** accepts a connection, gives it the next number (`clnt_dispatched`)
and passes the descriptor and the number through a socket pair shared by all
**slaves**. A slave that takes a connection writes the number back; the
highest number seen (`clnt_accepted`) tells the master how far the slaves are,
and connections are refused when the difference reaches
`slaves * slave_overload`. A slave holds one connection, may exchange an idle
one for a waiting one, and exits after `set_slave_reqs_max` connections;
`SIGCHLD` makes the master replace it.

What is hard: numbers come back in any order, or never (a slave that dies
between `recvmsg()` and `send()`, a failing `sendmsg()`); the unsigned counter
wraps; signals are merged and blocked except around `select()`; what
`select()` told a slave is used after a request was served.

What makes it correct: the pair never holds more than the slaves may be given;
no dead slave is forgotten; a client gets its turn before it is thrown out;
waiting connections move; overload passes.

### The GSS wrapper

A connection is two processes and what is on its way between them. The client
dials (name service, `connect()`), both ends exchange tokens until the context
stands, and then each call of the wrapper moves one record or a part of one:
`edg_wll_gss_write` wraps the caller's bytes and sends the token,
`edg_wll_gss_read` reads whatever the socket has, unwraps it, gives the caller
as much as fits and keeps the rest in `connection->buffer`; `read_full` and
`unread` work on the same buffer. The caller passes a `timeval` from which each
send and receive takes the time it used.

What is hard: records, pieces read from the socket and the caller's buffers do
not match; a record is torn by a timeout, a signal or a kill; `select()`
promises room for one byte and `write()` on a blocking socket waits for all;
the timeout is reduced in four places, of which two stop at zero; both ends write and neither reads; the other end closes with data unread.

What makes it correct: the caller is given the bytes that were written, in
order and each once; an end of file means that nothing was cut off; calls end.

### The database layer

A context holds one connection to MySQL, an error code and, beside it, prepared
statements and buffered inserts. `ExecSQL` repeats a statement once when the
server is lost and lets the client library connect again; `Transaction`,
`Commit` and `Rollback` are two statements each; a buffered insert collects
rows and sends them as one statement when a limit is reached or at its close.

What is hard: the connection breaks before, during or after a statement, in the
middle of a transaction or between two statements of one call; a statement of
`Transaction`, `Commit` or `Rollback` fails on a live connection and the others
of the call are not sent; a repeated statement meets its own effect; errors are told by a code that the next call
clears.

What makes it correct: transactions are atomic and what was reported in a
committed one is in the table; the session commits by itself again afterwards;
a batch that reported no error is stored.

### The other parts

Job identifiers are pure functions. `lbproxy.c` is a client of the server bones
whose handlers call a library that is not in this repository. The gSOAP plugin
hands gSOAP's callbacks to the GSS wrapper and keeps the timeout for it.

## 2. Modules

```
FiniteSetsExt   RenewalSchedule            ServerBones
                  ^        ^               ^         ^
        MCRenewalSchedule  ProxyRecords    |         |
                             ^             MCServer  ServerBones_proofs
                           ProxyRenewal    Bones
                             ^     ^
              MCProxyRenewal       ProxyRenewal_proofs <- ProxyRenewal_jobs

RenewalService <-(implements)- ProxyRenewal
HandOver <-----(implements)--- ServerBones
ByteStream <---(implements)--- GssStream <- MCGssStream, GssStream_proofs
AtomicTable <--(implements)--- DbTransactions <- MCDbTransactions, DbTransactions_proofs
```

| Module | Models |
|---|---|
| `RenewalSchedule` | `get_delta`, the fitness test of `get_times` |
| `MCRenewalSchedule` | the loop of `get_delta` as written, and the comments' promises, over bounded inputs |
| `ProxyRecords` | records; `get_record_ext`, `store_record`, removal of a job, the merge of `update_db`, the selection of `check_renewal` |
| `ProxyRenewal` | master, watchdogs, clients, clock, kills and restarts |
| `RenewalService` | abstract: what clients get from a renewal daemon: a proxy of a job's own or a shared one, kept until the job leaves or the proxy expires |
| `HandOver` | abstract: connections wait in order, one slave at a time has one |
| `ServerBones` | master, slaves, socket pair, clients, signals |
| `ByteStream` | abstract: two ordered streams of bytes |
| `GssStream` | the GSS wrapper at both ends of a connection, the sockets between them |
| `AtomicTable` | abstract: a table changed by atomic transactions |
| `DbTransactions` | a context of the database layer, its session at the server, a caller |
| `MCProxyRenewal`, `MCServerBones`, `MCGssStream`, `MCDbTransactions` | model values, lifetimes, bounds and symmetry sets |
| `*_proofs`, `ProxyRenewal_jobs` | the theorems of section 5 |

Definitions that begin with the comment "Faulty" are plausible programming
errors. No specification uses them; each shows, in place of the definition
after it, that a property is able to fail.

### ProxyRenewal and the code

| Model | Code |
|---|---|
| `meta[d]` | the lines of `<md5 of d>.data`, one record each, in file order |
| `file[d][s]` | `<md5 of d>.<s>`: end of the first certificate, end of the rest of the chain, VOMS attributes |
| `updates` | `UPDATE_DB` requests the master has not read; `dog` is `None` once the sender has stopped waiting |
| `dog[w]` | what a watchdog process holds: the subjects left to read, the tasks of the present one, the entries made |
| `child`, `up` | the watchdog the master knows; whether a master runs |
| `registered` | history only: the record the last successful registration of a job chose |
| `outside` | the clients' own proxy files exist |
| `RegisterNew`, `RegisterShared` | `register_proxy`, with `get_record_ext`, `copy_file`, `get_times`, `find_voms_cert`, `store_record` |
| `Unregister`, `UnregisterNamed`, `UnregisterForeign` | `unregister_proxy` without a file name, with one of the repository, with one outside it |
| `UpdateDb` | `update_db` |
| `UpdateDbOvertaken` | the same while the watchdog stops waiting and deletes its temporary files (renew.c:167-173): each before `get_times` looks at it, or between `get_times` and `rename()` (commands.c:1225-1226), or not yet |
| `WakeUp`, `CheckRenewal`, `RenewProxy`, `SendUpdate`, `FinishScan` | `watchdog_start`, `renewal`, `check_renewal`, cut where the process waits or reads what the master writes |
| `Timeout` | the client timeout of `edg_wlpr_RequestSend`; the watchdog deletes its temporary files, the request stays |
| `WatchdogExits` | the end of `watchdog_start` after `RENEWAL_COUNTS_MAX` renewals; the renewals are not counted, so any scan may be the last |
| `Crash*`, `WatchdogDies`, `MasterDies` | a kill, with the disk as the handler leaves it there |
| `RestartWatchdog`, `MasterRestart` | `doit` on `SIGCHLD`; a new daemon |

A handler is one step: the master does nothing else meanwhile, the watchdog
reads each file in one go, and `<md5>.data` is replaced by `rename()`. What the
watchdog does to the files a handler works on, deleting temporary ones during
`update_db`, is a choice within the step (`UpdateDbOvertaken`); either way the
watchdog then goes on with the next repository file. Clients' requests wait in the queue without consequence, so they
are taken up where they are handled. `get_proxy` only reads. MyProxy and VOMS
servers are external: a renewal gives any of the lifetimes `RenewedLives`, or
nothing when `"myproxy" \in Faults`.

`Service` maps this to `RenewalService`. The proxy of a suffix is what its
record says (`Known`), or nothing when the record has no jobs or there is none;
`next`, the files, the watchdogs, their requests and the processes are not in
it. A kill in the middle of a handler is a step of the service or none.

### ServerBones and the code

A step is a stretch of one process between two points where it looks at what
another changes. The master: `Unblock` (signals let in before `select()`,
srvbones.c:161), `Wake` (`select()` returns), `Resurrect` (173-187), `ReadAck`
(192-201), `Dispatch` (203-210 and `dispatchit`), `Loop`, `Terminate`. A
slave: `Select`, `Serve` (`on_request_hnd` and what follows it), `Take`
(`recvmsg()`), `Tell` (`send()` and `on_new_conn_hnd`), `Stop`. `Ages` and
`Quiet` are the passing of `NEW_CLIENT_DURATION` and of the idle timeout.
`signals` holds pending signals as a set, as the kernel merges them.
Connections differ only by name, so they arrive in a fixed order.

`Handing` maps this to `HandOver`: what waits is what is in the socket pair, in
its order, whatever the numbers say; a slave has the connection it serves, or
the one it has received and not told yet (`Holds`); a connection in the backlog
of `listen()` is open and nowhere. A slave's exits, `exit(1)` in the middle
included, close what it has, so a dead slave has nothing.

### GssStream and the code

| Model | Code |
|---|---|
| `call[e]` | the local variables of the call an end is in: the rest of the token (`send_token`), `bufsize`, `*total` |
| `wire[e]` | what the sockets between the ends hold; `Capacity` units at most |
| `held[e]`, `next[e]` | the SSL layer (external): an incomplete record, the unit it expects |
| `buffer[e]` | `connection->buffer` |
| `timeout[e]`, `spent[e]` | `*timeout`, and what the present wait has taken of it; `Tick` raises `spent` for every end that is in a call, `Late` beyond the timeout at most |
| `Left`, `WaitedForToken` | `send_token` and `recv_token` take the time off and stop at 0 (glite_gss.c:376-383, 449-457) |
| `WaitedToDial` | `decrement_timeout` and the `tv_sub` of `do_connect` (64-74, 308-310), which do not |
| `WaitedForNothing` | the returns that take nothing off: the answer of the name service, `do_connect` giving up, the end of file (430-433) |
| `sock[e]` | the socket; closing with data unread resets the connection |
| `Connect`, `LookUp`, `Resolved`, `LookUpFails` | `edg_wll_gss_connect`, `asyn_getservbyname` |
| `Dialled`, `Refused`, `HangUp`, `DialExpires` | `do_connect`: connected, at once or after a wait; an error of `connect()`; `select()` interrupted or without result |
| `Accept`, `ReceiveFlight` | `edg_wll_gss_accept` |
| `Write`, `Send`, `SendInVain`, `SendFails`, `Sent` | `edg_wll_gss_write`, `send_token` |
| `Read`, `ReadFull`, `Serve`, `Receive`, `ReceiveData`, `Unwrap`, `ReceiveEnd` | `edg_wll_gss_read`, `read_full`, `recv_token` |
| `Unread`, `Close` | `edg_wll_gss_unread`, `edg_wll_gss_close` |
| `Expire`, `Interrupted`, `Invalid` | `select()` returns 0, or -1 with `EINTR`, or -1 with `EINVAL` for a negative timeout |
| `SetTimeout` | `glite_gsplugin_set_timeout` |
| `written`, `promised`, `got` | history |

A step is one `select()` with the `read()` or `write()` after it, for any
number of units it may move. The caller closes after an error other than a
timeout; after a timeout it may go on, which is the interesting case. The
client speaks first: the services answer requests. Renegotiation and closing
alerts of SSL do not occur (`edg_wll_gss_close` sends none, glite_gss.c:1076).

### DbTransactions and the code

| Model | Code |
|---|---|
| `session`, `table` | MySQL (external): the session of the context, the committed rows; a row stands for its primary key |
| `online`, `inTrans` | `libmysqlclient` (external): `net.vio`, and `SERVER_STATUS_IN_TRANS` of the last answer, with which it refuses to connect again (`CR_SERVER_GONE_ERROR`) |
| `status` | `ctx->err.code` |
| `call` | the call in progress: the statements to send, `retry_nr` |
| `batch` | a `glite_lbu_bufInsert` |
| `stmt` | a prepared insert, detached when its session ends |
| `phase` | the caller: after an error in a transaction it rolls back, but for duplicates; it closes its batch before it commits |
| `Answered`, `Duplicate`, `StatementFails`, `Lost`, `LostAlready`, `Gone`, `Refused` | one `mysql_query()` or `mysql_stmt_execute()` and the branch its error takes |
| `Retry`, `GoOn`, `Return` | the loop of `ExecSQL`, the next statement of `Transaction`, `Commit`, `Rollback`, the return value |
| `told`, `unbegun`, `batch.given`, `batch.sound` | history |
| `astray` | history: a statement of `Transaction`, `Commit` or `Rollback` failed on the live connection (db.c:200, 209, 219), and no transaction was begun, and no session, since; `AUTOCOMMIT` may be off |

`Others` are the other slaves' sessions; rows they hold uncommitted are not
seen and make no difference. A lost statement may have been executed or not.
`StatementFails` is the default branch of `ExecSQL` (db.c:373-377) for any
statement, inserts, `BEGIN`, `COMMIT`, `ROLLBACK` and `SET AUTOCOMMIT` alike.
With a library that does not connect again every statement after a loss ends
as in `Refused`.

## 3. Runs

State counts are TLC's distinct states.

| Run | Instance | States | Shows |
|---|---|---|---|
| `RenewalDelays` | the default options in minutes, every lifetime up to 10 h, read at each minute of an hour | 38,491 | the closed form `Delta` used everywhere is the loop of the code, and keeps the promises of its comments |
| `RenewalRaces` | 2 jobs, 1 subject, 2 suffixes, 1 watchdog that may end, VOMS on, timeouts and refusals, renewed proxies that `get_times` refuses, 2 instants | 338,067 | the repository stays consistent under stale updates; only a file deleted within `update_db` parts a record from its file |
| `RenewalKills` | 2 jobs, 2 suffixes, kills and timeouts, 2 instants | 768,870 | no job loses its proxy or registration to a kill |
| `RenewalTwoWatchdogs` | 1 job, 2 watchdogs, 2 requests in the queue, kills, timeouts, repeated and foreign requests, 2 instants | 419,168 | a left-over watchdog and a careless client do no harm; the daemon implements `RenewalService` |
| `RenewalProgress` | 2 jobs sharing one suffix, 2 servers, foreign requests, a watchdog that may end, 3 instants, fairness | 30,912 | expired proxies go, due ones are dealt with; the service is implemented also for two jobs, and when VOMS attributes go unnoticed |
| `BonesSafety` | 2 slaves, overload 1, 2 connections per slave, 3 clients, crashes, `sendmsg()` failures, termination | 1,185,818 | the pair is bounded, no death is forgotten, connections are handed over one by one |
| `BonesProgress` | 1 slave, overload 2, counter modulo 3, 2 services, 4 clients, fairness | 76,820 | connections move, overload passes, first requests are tried |
| `GssStream` | one connection, 3 bytes one way and 1 the other in records of 1 or 2, sockets of 2 units, blocking accepted socket, signals, kills, no memory, unknown hosts, refused connections, late processes, fairness | 202,942 | the wrapper implements an ordered stream, an end of file hides nothing, a timeout is negative only while connecting, calls end |
| `DbTransactions` | 3 rows, one of which others insert too, batches of 2, lost and refused connections, failing statements of every kind | 904,244 | transactions are atomic and kept, batches are stored, AUTOCOMMIT comes back |
| `StaleRenewal`, `RepeatedRegister`, `BonesSingle` | small instances | - | the disagreements of section 4 |

**Bounds.** `MaxTime` stops the clock, `MaxSuffix` the numbering of proxy
files, `Backlog` the requests of watchdogs that wait, `Clients` the
connections ever made. With skew, minimum and Condor limit 1 a proxy of
lifetime 4 passes through every case of `get_delta` but several divisions of
the margin (those are `RenewalDelays`' subject), becomes due, and a short one
(`<<0,4>>`: already at its end, accepted within the skew) expires within the
clock's range, at the second instant; at the third, in `RenewalProgress`, it is
reported without being tried. Two jobs are enough to share a proxy, to reach
`MaxProxies`, and to take over a suffix another job freed; two suffixes are enough for the
merge of `update_db` to skip one record or one entry, and for one renewed file
to be deleted and another not. `RenewalTwoWatchdogs`
has one job because its question is what two updates do to the same record.
In `BonesSafety` eight numbers for three clients never wrap, and two slaves
tell numbers out of order; `BonesProgress` has fewer numbers than clients so
that the counter wraps. In `GssStream` records of two units, pieces of one or
two, sockets of two and callers' buffers of one or two give every way in which
a record, a piece and a buffer may fail to match; three bytes make a record
that follows a torn one, and leave one to write while two fill the socket; the
other way one is enough to be read, put back and cut off. One unit
of time is enough to run out of it or not, and `Late`, one more, to leave a
negative rest: a process runs again after its timeout by any delay the
scheduler likes, and any delay beyond it has the same effect. In `DbTransactions` two own rows
make a transaction that can be torn in its middle and a batch that is full,
and the third one, others' and one's own, makes duplicates. Symmetry (jobs,
slaves, watchdogs) is used only in runs without liveness properties: no handler
compares these names, and the order in which the watchdog meets the subjects is
left open.

`CHECK_DEADLOCK FALSE`: the clock and the clients are bounded, and a
terminated server really stops.

**Fairness.** `ProxyRenewal!FairSpec` assumes that the master comes to handle
a waiting `UPDATE_DB` (`WF(UpdateDb \/ UpdateDbOvertaken)`: its loop takes
connections in order and every handler ends) and that a watchdog goes on
(`WF(WatchdogStep)`: its sleep and its calls to MyProxy are finite). Nothing is assumed of clients, the
clock, timeouts or refusals, nor that a watchdog that has ended is replaced;
`DueRenewed` therefore excuses behaviours in
which the watchdog is disappointed for ever, and both liveness properties those
in which it stays ended. `RenewalProgress` has no kills: a
killed master need not be restarted by anyone. `GssStream!FairSpec` assumes
that both processes run and that time passes (`WF` of each end's own steps and
of `Tick`), nothing of the callers: they may never call again.
`ServerBones!FairSpec` assumes
that the master and each slave are scheduled and that time passes. No client
must ever send anything.

**Escapes.** `TimesFollowFile`, `EveryRenewalStored` and `LiveJobsHaveProxy`
except what a watchdog does that stops waiting in the middle of `update_db`. It
deletes its temporary files (renew.c:167-173), and when that falls between
`get_times` and the `rename()` whose failure is ignored (commands.c:1225-1226),
the record is dated after a file that never came; the old proxy stays in place.
`TimesFollowFile` allows this one parting, of a record whose entry carried such
a date while the file did not change, and nothing else;
`EveryRenewalStored` allows that the old file is untouched. `LiveJobsHaveProxy`
excepts it only where there is no old file: a master killed in `update_db` after
it removed an expired proxy (commands.c:1214), before the record went, and then
such an update of another watchdog. `RenewalRaces` and `RenewalTwoWatchdogs`
reach these states; in `RenewalKills` no proxy is ever lost.

`ExpiredRemoved` and `DueRenewed` except `Unattended`: `doit` tests `child_died`
before `accept()`, so a `SIGCHLD` in between waits for the next client, and
clears it after the fork, so the death of a watchdog that ends at once is lost
(renewd.c:183-199). Until then nothing is renewed.

`QueueMoves` and `OverloadPasses` except `Missed`: the master
unblocks signals and then calls `select()` (srvbones.c:161-163), so a
`SIGCHLD` delivered between the two sets `child_died` without interrupting the
`select()`; the dead slave is replaced only after something else wakes the
master. With one slave nothing is served until the next connection arrives.

`CallsEnd` excepts a `write()` in progress on a blocking socket, which nothing
ends but the other end: `edg_wll_gss_accept` leaves the socket as `accept()`
returned it, and `select()` (glite_gss.c:352) only promises room for a byte.

`IsAtomic` and `BatchKept` except what follows a statement lost twice in a row
outside a transaction: `ExecSQL` then returns -1 with error code 0
(db.c:369-379, 414), `Transaction` returns 0 without a transaction, and a flush
returns 0 without its rows. `BatchKept` also excepts a flush with a duplicate,
whose other rows the server refuses while the code is cleared (db.c:638).
A control statement that fails on a live connection is the third exception.
`Transaction`, `Commit` and `Rollback` leave at the first statement that fails
(db.c:200, 209, 219), and `AUTOCOMMIT` stays off. `AutoRestored` excepts it;
`BatchKept` excepts the rows of a `Commit` or `Rollback` that failed and of
batches sent until the next `Transaction`; in `IsAtomic` what
such a call leaves open is no transaction of the caller's, and the next `Begin`
may commit what was inserted before it.
`DbTransactions` reaches these states; the exceptions are the variables
`unbegun`, `astray` and `batch.sound`.

## 4. Disagreements found

* **StaleRenewal** - `update_db` applies entries by suffix alone
  (commands.c:1226). A renewal begun for a job that unregisters meanwhile
  replaces the proxy of a job that has taken over the suffix; a record marked
  for VOMS ends up with a file without attributes, against commands.c:573-575.
* **RepeatedRegister** - registering twice lists a job twice; unregistering
  removes one occurrence, against `interface/renewal.h`.
* **BonesSingle** - the first number, 0, never counts as told
  (srvbones.c:199), so one place of the queue is lost until the numbers wrap;
  with one slave and an overload of 1 every later connection is rejected.

Further ones were met for which there is no run of their own; the models reach
the first three, and the properties of section 3 are stated around them:

* **Dated after a lost file.** The ignored failure of `rename()` above. A job may
  then join by a date the file does not have, against commands.c:586-587 ("skip
  expired proxy (or ones that are going to expire soon)").
* **A negative rest of the timeout.** After a slow name service or `connect()`,
  the first `select()` of the handshake fails with `EINVAL` and
  `edg_wll_gss_connect` reports `EDG_WLL_GSS_ERROR_ERRNO` where the time is up
  (glite_gss.c:64-74, 308-310, 356).
* **AUTOCOMMIT left off.** A `COMMIT` or `ROLLBACK` that fails on a live connection
  leaves the transaction open; later inserts report success, are in it, and
  are committed by the `BEGIN` of the next `Transaction` or lost with the session.
* **No record limit.** `record_limit` 0 is documented as unlimited (db.c:74-75);
  `bufferedInsertInit` then allocates no rows (608) and the first row is
  written past the array (655). The model has the unlimited batch, not the
  overrun.
* **An uninitialised descriptor.** When the name service fails, `do_connect`
  closes `sock` before it has one (glite_gss.c:269, 274). Not modelled.

No run is about the misplaced parenthesis in `unregister_proxy`
(commands.c:1019), by which any absolute name passes as one of the repository:
`UnregisterForeign` does what the code does, takes the job off a record and
removes the named file.

## 5. Proofs

All theorems hold for every value of the constants that satisfies the named
assumptions (`ScheduleAssumption`, `NoneAssumption`, `RecordsAssumption`,
`DaemonAssumption`, `RegistrationAssumption`, `BonesAssumption`, `StreamAssumption`, `DbAssumption`):
natural limits, at least one job per proxy, `None` outside the sets it is added
to, an epoch past the clock skew, a handshake of whole round trips, finitely
many rows. `LifeToLoseAssumption` belongs to the closed form of `get_delta`,
which knows sixteen divisions by four: the last one brings the margin to zero
(9000 seconds in the program, for which seven are enough).
`BoundsAssumption`: the bounds of `MCRenewalSchedule` are natural numbers.

| Theorem | Statement |
|---|---|
| `DeltaLeavesLimit`, `DeltaLosesNoMore`, `DeltaNotPostponed` (`RenewalSchedule_proofs`) | the promises of `get_delta` for all options and lifetimes |
| `LoopIsClosedForm` (`MCRenewalSchedule_proofs`) | `Spec => []DeltaIsLoop`: the loop of `get_delta` is the closed form |
| `RenewalLeavesLimit`, `RenewalLosesNoMore` | `Spec => []LeavesLimit`, `Spec => []LosesNoMore` |
| `RenewalNotPostponed` | `Spec => NeverPostponed` |
| `TypeCorrect` (`ProxyRenewal_proofs`) | `Spec => []TypeOK` |
| `RecordsAscend` | `Spec => []SuffixesAscending` |
| `SharingStaysLimited` | `Spec => []SharingLimited` |
| `AlwaysScheduledInTime` | `Spec => []ScheduledInTime` |
| `LiveJobsKeepProxy` | `Spec => LiveJobsHaveProxy`, whatever is killed |
| `RegistrationsKept` (`ProxyRenewal_jobs`) | `Spec => []RegistrationHeld`, whatever is killed or repeated |
| `TimesStayTrue` | `Spec => TimesFollowFile`, if `"kill" \notin Faults` |
| `UnregisteredUnlisted` | `Spec => []UnregisteredNotListed`, if `"repeat" \notin Habits` |
| `JobsDroppedWhenExpired` | `Spec => OnlyExpiryDropsJobs` |
| `RenewalsStored` | `Spec => EveryRenewalStored` |
| `ServesClients` | `Spec => IsService`: the daemon refines `RenewalService` |
| `BonesTyped` (`ServerBones_proofs`) | `Spec => []TypeOK` |
| `DeathsNotForgotten` | `Spec => []NoDeathForgotten` |
| `WaitingStaysBounded` | `Spec /\ [][dispatched' >= dispatched]_vars => []WaitingBounded` |
| `FirstRequestsTried` | `Spec => FirstRequestTried`, if neither `"crash"` nor `"term"` is in `Faults` |
| `HandsOver` | `Spec => IsHandOver`: the server bones refine `HandOver` |
| `TypeCorrect` (`GssStream_proofs`) | `Spec => []TypeOK` |
| `TimeoutsValid` | `Spec => []TimeoutValid` |
| `BytesInOrder` | `Spec => []InOrder` |
| `Implements` | `Spec => IsStream`: the wrapper refines `ByteStream` |
| `EndOfFileMeansAll` | `Spec => []EndMeansAll` |
| `TypeCorrect` (`DbTransactions_proofs`) | `Spec => []TypeOK`, with the bound on a batch that has a limit |
| `AutomaticAgain` | `Spec => []AutoRestored` |
| `BatchesKept` | `Spec => []BatchKept` |
| `RowsKept` | `Spec => CommitKept` |
| `Atomic` | `Spec => IsAtomic`: the layer refines `AtomicTable` |

**The schedule.** The closed form picks the largest of the divided margins that
leaves room; the code divides in a loop, which the model has as a recursive
function of the margin (`LoopedDelta`). That such a function exists, and that it
finds that margin, are inductions the provers cannot instantiate, so they are
made by hand: there would be a least margin up to which no function is the loop,
or a least number of divisions after which the two differ (`MinOfNaturals`), and
one turn of the loop contradicts it. The promises then carry over from
`RenewalSchedule_proofs`.

**The renewal daemon.** `TypeOK` is inductive as it stands: its conjunct on
watchdogs that renew is what types the request they send. The same module
proves one inductive invariant,

    IInv == TypeOK /\ SuffixesAscending /\ SharingLimited /\ ScheduledInTime

and that every step from a state of it satisfies `LiveJobsHaveProxy`,
first for one subject (its records and its files), then for the whole state.
The conjuncts need each other: that `StoreRecord` replaces a record in place
and that no two records own the same file is `SuffixesAscending`, without
which dropping one record could remove the file of another; `ScheduledInTime` is `DeltaLeavesLimit`
for records that are dated again, and monotonicity of the clock for the
others. A crash is harmless for `LiveJobsHaveProxy` because a file is written
before the record that needs it, and removed after the record has let it go,
but in `update_db`, which removes an expired proxy first: that record has
expired, and only an update overtaken in the way of section 3 dates it anew.

What the clients rely on is proved on top of it, in `ProxyRenewal_jobs`. Each
handler is first reduced to what it stores (`OwnRecord`, `JoinedRecord`,
`JobRemoved`, `DbUpdate`); each property is then kept by each of the four, and
`OtherSteps` shows that there are no others. `RegistrationHeld` is inductive
beside `IInv`: a registration that takes a file
of its own finds no job on the record it replaces, and the order of the
records makes the record of a suffix unique. `TimesFollowFile` is an action
property: each of the four leaves every record dated as its file, or as it was
(`DatedIsKept`), and `LostDated` says of a file lost before its rename that the
record's date is then the one `get_times` read. It needs that the
master is not killed between the file and its record, and an assumption on
`Faults` says so. `UnregisteredNotListed` is not inductive: unregistering
removes one occurrence of a job, so the invariant is `AllAtHome`, every job is
listed once, and where it is registered. A client that registers a job twice
breaks it (run `RepeatedRegister`), hence the assumption on `Habits`; kills do
not. `OnlyExpiryDropsJobs` follows: what `update_db` takes off a record has
expired (`DropsOnlyExpired`).

`EveryRenewalStored`, no report of a watchdog is passed over when `update_db`
merges it, also when some of its files vanish under it, is about the one pass the code makes over records and entries
together: an entry behind the cursor is lost. The invariant `ReportsInOrder`
says that the tasks of a watchdog, and the entries of a report on its way, name
suffixes in the order of the records. It is stable because a record is replaced
in its place or appended, never moved or taken away, however many requests of
clients come between the watchdog's look at it and its report (`InPlace`).
`CursorWalks` says where the cursor is at each record of the pass, again by a
least counterexample, and `EntryFound` that each entry meets its record. The
deletion of temporary files changes no suffix (`SameRequest`), so the same
holds for the request as `update_db` finds it.

`ServesClients` uses the same reduction. Because the records are in order, one
record is the proxy of a suffix (`ProxyOfRecord`) and storing a record changes
that proxy alone (`ProxyStored`), so each of the four is one step of the
service: `ServesOwn`, `ServesJoin`, `ServesLeave`, and `ServesUpdate`, which
needs `RegistrationHeld`, since the service forgets a job when its proxy is
gone and the daemon when no record lists it. It assumes nothing of `Faults` or
`Habits`.

**The server bones.** The bound on the pair is not inductive: admission
compares numbers and never looks at the pair. The invariant `NumbersInv` adds
that the numbers in the pair ascend, each one with room below `dispatched` for
those that come after it, and that every number told (in `acks`, held by a
slave, or `accepted`) is beyond none of them; hence what waits lies between
`accepted` and `dispatched`, whose difference admission bounds. It breaks when the counter
wraps, so the theorem assumes that it does not: a 64-bit counter of
connections. `DeathsNotForgotten` rests on the exits of a slave raising
`CHLD` in the step that ends it, and on `Resurrect` waiting for all.
`FirstRequestsTried` adds to the types that a slave which goes for another
connection has none, or has tried the first request of the one it has
(`FreshInv`); it assumes that no slave crashes and nobody tells the master to
end, the cases where a waiting client is closed.

`HandsOver` needs an invariant of its own, for the abstract hand-over lets in
only who is outside: a connection is in one backlog once, or in the pair once,
or with one slave, and open wherever it is (`OnePlace`); and a slave between
`recvmsg()` and the `send()` of the number has let the former one go, as a dead
slave has (`SlaveShape`). `SlaveMoves` reduces everything a slave does, its
death included, to keeping what it has, dropping it or taking the first of the
pair for it; the master's steps are reduced by `DispatchPlaces` and
`RestPlaces`. No assumption on `Faults` is made: crashes between two steps and
failing `sendmsg()` are among the steps.

**The GSS wrapper.** That the bytes given to a caller are numbered 1, 2, 3, ...
is not inductive. The invariant adds, for every end,

    Link(e) == Ordered(e) /\ Chained(e) /\ Shaking(e) /\ Calling(e)

and `OnWire(e)`. `Ordered`: what is given and what is buffered are numbered
without a gap and do not pass what the peer has written. `Chained`: while the
context is sound, what the SSL layer still holds of a token comes next, and
the number the end expects after it is not beyond what the peer may send.
`Shaking`: before the handshake is complete nothing is given, buffered or
counted. `Calling`: what a call in progress presupposes. `OnWire`: no end
sends a byte it has not written. The token layer is what restores order: a unit out of its turn fails in
`unwrap`, so the proof needs no more of the wire than `OnWire`. Each action
cuts and joins sequences, and a lemma on numbers says what that does
(`SplitOrder`, `ServeOrder`, `UnreadOrder`, `ArrivalOrder`). The refinement
follows from `Ordered`: what is written, and what is given, grow by the next
numbers or, when a caller puts bytes back, lose the last ones.

The time a call has left is apart from the bytes: `Times` types `timeout` and
`spent`, and `TimeoutValid` is inductive beside `IInv` and `Times`. The steps
that take time off without stopping at zero belong to a client that has not
completed the handshake (`flights < Flights`); each step of a handshake passes
through `Left`, which is a natural number (`LeftFacts`), before it is complete.

`EndMeansAll`, an end of file is reported only when every byte the peer's
successful writes promised has been given, relates what a closed end once
promised to what the other end sees much later. Two more invariants carry it.
`Handshake`: the ends take turns, no more than one token of the handshake is on
its way, and no data is written before both ends have the context. `Delivery`:
the last promised byte ends a record, wherever that record is (`Marked`); unless
the receiver has failed, it has received that byte or the byte is on the wire
(`Arrives`); who has closed makes no calls (`Quiet`), so what was promised when
the end of file was read does not grow afterwards (`Told`). What is read before
the end of file, and not given, is a torn record at most, and no promised byte
is in a torn record.

**The database layer.** The invariant says where a call stands (`Shape`,
`Placed`), what the library knows of the session (`Sane`: a live session is
not given up, an open transaction was announced in the last answer), and what
that means for the transaction: outside one there is none at the server, unless
a control statement failed on the live session (`Outside`, with `astray`); in one, the library still reports it, and the session, if it
lives, holds exactly the rows the caller was told of (`Inside`, `Running`);
when `Transaction` returned 0 without beginning (a statement lost twice), each
reported row is in the table already (`NeverBegun`). It is `Running` that forbids
a silent new session in the middle: the library would have to forget
`SERVER_STATUS_IN_TRANS` first, and that reports an error. `Stored` and
`Counted` carry the batches. The proof first shows that a call returns in a
good state whatever its result (`Returned`, under what `Justified` asks), then
that each outcome of a statement justifies its result; `TableMoves` and
`Stepping` give the refinement.

**Only model-checked.** The liveness properties, which TLAPS 1.4.5 cannot prove
under fairness: `ExpiredRemoved` and `DueRenewed` of the renewal daemon,
`QueueMoves` and `OverloadPasses` of the server bones, `CallsEnd` of the
wrapper. Every other property of a passing run is a theorem; those with a
hypothesis (no kills, no repeated registrations, no wrapped counter) are
checked by the runs in the same circumstances.

## 6. What is not modelled, and the limits of what is

* Failures of system calls on the repository (no space, no permission), and
  long lines of `<md5>.data` cut by the 1024-byte buffer.
* The master's signal loop (`doit`) and request parsing are one step each;
  `RestartWatchdog` need never come (`Unattended`). Renewals are not counted: a
  watchdog may end after any scan. The
  field `unique` of a record, which no client can set, is left out.
* In the server bones `fork()` and `accept()` do not fail, `data_init` is not
  modelled, every service has all its handlers (those of `lbproxy.c` do), and
  connections have an idle timeout.
* Of the GSS wrapper: credentials and their reloading, the name of the peer,
  the choice of address, failures of `socket()` and `fcntl()`, the descriptor
  `do_connect` closes without having one, memory for a token, a call without a
  timeout, and the bytes inside a token (they are one sealed unit).
* Of the database layer: the array of a batch without a record limit,
  connecting for the first time, capabilities and indices, reading results,
  contexts on which transactions are disabled, and other storage engines than
  InnoDB.
* Text formats, logging, options, and everything in the table of section 1
  with status "not modelled". More than nine lines of ten in the repository
  are copies of gSOAP's `stdsoap2.c`, one per supported release, and of `trio`
  and `strmd5`; none of them is modelled.

## 7. Plan

In this order:

1. `RenewalMaster`: `doit` with its signals, the accept loop and the child;
   failing system calls.
2. The gSOAP plugin on top of `GssStream`; startup of `lbproxy.c`; the round
   trip of job identifiers.
3. Theorems: that what waits stays bounded also when the numbers of the server
   bones wrap, under the weakest condition on the numbers lost; that jobs keep
   their proxy without exception when no watchdog gives up under `update_db`.

Runs that ask related questions of one instance are merged as modules are
added, so that the whole suite stays within minutes.
