# FTNd in TLA+

FTNd is a bulletin board and Fidonet mail system: a mailer (`ftncico`) that exchanges files with
other systems, a tosser (`ftnfido`) that turns packets into messages and back, a daemon
(`ftntask`) that starts both and connects the running programs, and a BBS, a news server and
utilities around them. They are separate unix processes that share directories, lock files,
semaphore files and datagram sockets. Nothing coordinates them but these.

This directory holds TLA+ modules of the parts where processes meet, TLC configurations that check
small instances, and TLAPS proofs. `PROJECT.json` lists the components, the runs, what each
definition translates (file and lines), the hazards with the properties that watch them, the
disagreements that were found, and the theorems.

    tlc -config binkp_clean.cfg MCBinkp
    tlapm CallsProofs.tla

## The system and what is modelled

| component | source | state | meets others through | modelled |
|---|---|---|---|---|
| node locks | `lib/nodelock.c` | a `.bsy` file per node, with a pid | mailers, the queue flusher, mailers of other systems on one outbound | `NodeLock` |
| program locks | `lib/proglock.c`, `ftntask/ftntask.c`, `ftnfido/dirlock.c` | a lock file per program, with a pid; a temporary file | every start of the same program | `ProgLock` |
| binkp file transfer | `ftncico/binkp.c`, `ftncico/bopenfile.c` | the session, the file list, the message queue, partial files in `tmp/` | the same program on the remote, over a TCP connection | `Binkp`, `FileExchange` |
| binkp handshake | `ftncico/binkp.c`, `ftncico/session.c` | addresses, password, options, version | the remote; the node locks of all addresses it presents | no |
| outbound lists | `ftncico/filelist.c`, `lib/attach.c` | `.flo` lines, archives, what to do with each file afterwards | the queue flusher, under the node lock; scanout, without it | `Outbound` |
| calls | `ftncico/call.c`, `ftncico/callstat.c`, `ftncico/session.c` | the `.sts` file: retries, next time | the scheduler, the node lock | `Calls` |
| EMSI, Yoohoo, FTS-1 | `ftncico/emsi.c`, `ftncico/yoohoo.c`, `ftncico/ftsc.c` | state tables | the remote | no |
| Hydra | `ftncico/hydra.c` | two state machines over one packet stream | the remote | no |
| Zmodem, Xmodem | `ftncico/zm*.c`, `ftncico/xm*.c` | one direction at a time | the remote | no: derived from reference implementations |
| task scheduler | `ftntask/ftntask.c`, `ftntask/calllist.c`, `ftntask/taskstat.c` | ten tasks, ten systems to call, the semaphores and timers | children by `wait4`, semaphore requests | `MailIn`, `Calls` |
| client registry, chat | `ftntask/taskregs.c`, `ftntask/taskchat.c` | connected programs, users in channels | datagram socket of every program | the chat in `IbcNet` |
| Internet BBS chat (IBC) | `ftntask/taskibc.c` | links to neighbours, servers, users, channels | UDP datagrams, timers | `IbcLink`, `IbcNet` |
| jobs of ftnfido | `ftnfido/ftnfido.c` | the inbound, the semaphore `mailin` | mailers and the scheduler through the semaphore | `MailIn` |
| tosser, scanner, TIC | `ftnfido/` | packets, message bases, dupe files | the mailer through inbound and outbound | as one step each, in `MailIn` |
| queue | `ftnfido/queue.c`, `ftntask/scanout.c` | a queue directory per node, archives | node lock, archiver, scanout | `Outbound` |
| directory sessions | `ftnfido/dirsession.c` | lock files of foreign programs | those programs | the order of `dirinbound`, in `MailIn` |
| JAM message base | `lib/jammsg.c` | four files per area | BBS, tosser, ftnmsg and news server, by an fcntl lock; readers by nothing | `JamBase` |
| nodelist, BBS, news, setup, login, conversions | `ftnbbs/`, `ftnnntp/`, `ftnsetup/`, `unix/`, `lib/` | records, screens, text | little | no: sequential, interactive or third-party |

What makes each of the modelled parts correct:

* **node locks** - one process works on a node's outbound; a lock whose owner died is taken over;
  only stale locks are removed.
* **program locks** - one instance runs; whoever is refused leaves the lock alone; the call returns.
* **file transfer** - what reaches the inbound is the file that was sent, once per session; a file
  leaves the outbound only after the other side has it; both sides see the same end, and there is one.
* **chat links** - a link is up only between servers with one password, it has one caller, and it comes up
  again after any disturbance; **chat lists** - all servers agree on users, nicks and channels, and nothing
  stays behind a link that is down.
* **jobs** - one program works on the message bases, and what a mailer received is tossed.
* **calls** - a node has one entry and one caller, is not called before its retry time, and is served.
* **outbound** - mail that was queued is somewhere until the other side has it, what lies in the outbound is
  listed, and it is delivered in the end.
* **message base** - one process changes it at a time, no message is lost or taken for read that was not, and
  its count and index are true between two changes.

The hard behaviours are: system calls of several processes on one name, in any order; files that
go away between two looks at them; kills and a broken connection at any point, followed by another
session that finds what the last one left; two state machines that count messages and batches for
themselves and must agree on the end; acknowledgements that cross the next announcement on the line; datagrams that
are lost, doubled or late; copies of a status that grow old; a timer that somebody else restarts.

## The modules

### NodeLock (lib/nodelock.c)

`bsy` is what the lock's name leads to: a file with a pid, an empty one of another system
(`Foreign`), or nothing. `link(2)`, the read of the pid, the stat, the kill and the unlink are one
action each, because others run between them; `pc` names the call that comes next. `Grant` is the
successful link; `Judge` is the decision about the pid and the age; `Unlink` removes *the name*,
so whatever file is there by then. The environment: `Crash`, `SixHoursPass`, `ForeignLock` and
`ForeignUnlock`. Pids are not reused, which the code relies on as well. The temporary file
is not a variable: its name holds the pid, nobody else opens it.

`held`, `robbed`, `deluded` and `moved` are history: who works under a granted lock, whose lock file was
removed by another, who took an empty lock for the own one (`tmppid` is not initialized, line 37,
so `ReadEmpty` may find any value), and whose judgement is out of date.

### ProgLock (lib/proglock.c, ftntask/ftntask.c, ftnfido/dirlock.c)

The three copies of the lock function, chosen by the variable `kind`. They differ in whether the
temporary file is shared (`SharedTmp`: `<program>.tmp`, or `TMP.<pid>` in `lockdir`), whether the unlock
compares the pid (`MayUnlink`), and what a refused program does (`AfterRefusal`: in the users of `lockprogram`,
`die()` unlocks). A name leads to an inode and `link` makes a second name for it: that is how a
later `fopen(..., "w")` of the shared temporary file empties a lock that was linked already.
Each process takes the lock once. The hand-over of `ftntask`'s lock to the daemon it forks
(`ftntask.c:1708-1723`) is not modelled.

### Binkp (ftncico/binkp.c, ftncico/bopenfile.c)

Two processes, `"org"` and `"ans"`, after their handshake. `bp[p]` is the `struct bp` of a process
with the statics of the transmitter, and `wire[p]` the frames it sent that were not read. The
actions follow `file_transfer`: a poll and the call of `binkp_receiver` it leads to are one action
(`QueueMessage`, `Ignore`, `ReceiveEOB`, `AcceptFile`, `WriteData`, ...), a pass through
`binkp_transmitter` is one (`MakeList`, `SendFile`, `SendBlock`, `SendEOB`, `WaitAcks`), and each
message that `binkp_process_messages` takes from the queue is one (`ProcessGet`, `ProcessGot`,
`ProcessSkip`). The `FtState` field says where in the loop of `file_transfer` the process is.

What is abstracted:

* a file is a number, its contents a sequence of blocks `<<file, version, number>>`, a frame a record;
  the order of the numbers is the order of the list;
* `messages` counts to three, which stands for more (the code asks only for less than three);
* a call of `create_filelist` finds `outbound`, and a disposition removes the file from it. What a
  `.flo` line, a truncation or a packet name made for this list is, is left out;
* fclose, chmod and rename of `bclosefile` are one step with the answer, except where a fault is asked for:
  `CloseFails`, `Killed` and `KilledBeforeMove` keep any part of what stdio had not written (`Unflushed`);
* compression (`-GZ`, `-BZ2`), the progress and time statistics;
* frames no FTNd sends: `M_GET` at or behind the end of the file (with `cursend` cleared at
  `binkp.c:2490` and read at 2497), the offset -1 of Taurus, a name of 512 characters, data while no file is open.

Faults are switches, off where a run does not need them: `CanCut` (the connection breaks and any suffix of
what was under way is lost), `CanDie`, `CanStall` (the line takes no output for five minutes), `CanRefuse`
(locks, permissions, free space), `CanFill` (a full disk while a file is written or closed), `CanReplace`
(a new version of a file between sessions). `Retry` is the next call of the scheduler.

`mixed` is history: the open file was not the one announced, or not the same version. Both happen,
and then nothing can be said of the contents.

### FileExchange

What any of the transfer protocols promises, whichever ftncico uses: a file is delivered while its
sender keeps it, and released after it was delivered. `Binkp` implements it with `kept <- outbound` and
`copies <-` the number of whole copies in the inbound, as the properties `ExchangesFiles` (safety,
across cuts and retries) and `ExchangesAllFiles` (with liveness, without faults).

### IbcLink (ftntask/taskibc.c)

The slots that two neighbour chat servers keep for each other in `ncs_list`. `ftntask` has one thread, so each
timer of `check_servers` that is due (`InitTimer`, `CallTimer`, `WaitPwdTimer`, `ConnectTimer`, `RetryTimer`) is one
action and each datagram another (`Receive`, with `command_pass`, `command_server`, `command_squit` and `do_command`
as operators that give the new slot and the answer). `net[s]` is what `s` sent; `Lose`, `Duplicate`, `CutPath` and a
`Tick` while something is under way are faults, and so are `ResetLink` (changed configuration, dynamic address or the
daily reset), `Shutdown` and `Crash`. Time goes in steps of ten seconds, and only when no timer is due. Tokens are
numbers `ftntask` never uses twice; one that nobody carries any more stands for a new one, and a call waits while `MaxTokens` are
in use (with the eight of `ibclink` one is always free). `Tie` counts how often
both sides draw the same random delay. A changed password is left out: both sides keep the one they start with.

### IbcNet (ftntask/taskibc.c, ftntask/taskchat.c)

The lists of every server of a network: `db[s].srv` the known servers with the neighbour they are reached
through, `db[s].usr` the users with nick and channel, `db[s].chn` the counters of the channels. Every command is
an action of the receiver, with what it relays; what a local user does (`chat_connect_r`, `join`, `part`, `SetNick`,
`chat_close_r`, `chat_cleanuser`) is an action of the user. A QUIT names who leaves by his unix name, but by his nickname when `ftntask`
is shut down (`taskibc.c:1804`): then only the SQUIT behind it removes him. A link is what `IbcLink` makes of it: down, calling, or up on either
side. `Crash` and `Shutdown` stop a server; with `Hasty` it returns before its neighbours noticed. Datagrams of a link that
stays up arrive in order here: the code has no numbering, and with loss the lists simply differ until the next reset.

### MailIn (ftntask/ftntask.c, ftntask/taskstat.c, ftncico/ftncico.c, ftnfido/ftnfido.c)

From the inbound to the message bases. `Pass` is one turn of the scheduler's loop: ended tasks leave the list, the timers count,
and the semaphores start jobs, in the order and under the conditions of the code; the semaphore goes whatever
`launch` returned. A mailer that received something sets `mailin` when it ends (`EndSession`) and unregisters after (`ExitClient`).
`ftnfido tic toss` goes through `ResetMailin`, `Tic`, `ResetMailin`, `TossMail`, `dirinbound`; of what it does to a message
only remains that the packets leave the inbound. A full disk, nodelists it can't use, the power alarm or a directory it can't read
end the program or break the toss off at each of these places (`BeginFails`, `TicBreaksOff`, `TossBreaksOff`), and the files stay although
the semaphore is gone; the history variable `left` names them until the semaphore is set again. `hand` is somebody's own `ftnfido`, which holds the lock the job wants (`HandSpec` of `MCMailIn`).

### Calls (ftntask/ftntask.c, ftntask/calllist.c, ftncico/call.c)

The scheduler's slow pass and what it starts: `SlowScan` is `outstat` and `check_calllist`, `SlowLaunch` the rotation
through the list and `launch`, `FastRun` is `checktasks`. `call`, `session` and `PutResult` are the steps of a caller,
which may be killed, stopped and continued. `cst` is the status file of a node, and every entry of the list has the
copy the code keeps. Failures count up to `Undialable` (30 in the code, where each failure adds 0, 1, 5 or 10); the retry time is to
come or past. Lines and TCP/IP sessions are counted as the code counts them. The node lock is what `NodeLock` makes
of it: granted, and taken over from a dead process.

### Outbound (ftnfido/queue.c, lib/attach.c, ftncico/filelist.c, ftntask/scanout.c)

One node: what waits in the queue, the archives of the day with their digit, contents and age, the packet of netmail, and the `.flo` as a
sequence of lines, each sent or not. `BeginFlush`, `Pack`, `Unpack`, `Attach`, ... are the steps of `flush_dir`, between which
`ftnfido` may be killed; `BeginSession`, `Transfer`, `ReceiveGot`, `Dispose`, `FloTurn` those of a session; `ScanLook` and
`ScanUnlink` those of scanout, which takes no lock.

What may fail, once each `MaxFaults`: an archiver that is not known leaves the node locked until ftnfido ends (`NoArchiver`, `LeaveNode`,
`queue.c:269-276`), one that fails leaves the packet in the queue (`PackFails`); a `.flo` that cannot be opened leaves the archive or the file
without a line, because nobody looks at what `attach` returns (`AttachFails`, `FileFails`, `attach.c:73-79`); a packet that cannot be
opened is left for the next time (`OpenFails`), but neither `fwrite` nor `fclose` is looked at before the netmail is unlinked, so a full disk
takes any part of it (`AppendFails`, `queue.c:480-491`). A directory that cannot be read ends the flush like a kill between two steps.

M_GOT makes the *first* entry of the list with the acknowledged name Got and stops there (`binkp.c:2542-2564`), and disposes of every entry of the name:
`se.done` are the entries that are Got or were not there, `se.turn` is the entry whose line is marked (`Mark`, `MarkAgain`) and whose file is
truncated or removed (`Dispose`), `FloTurn` the `.flo` itself at the end. The file of a second entry with the name is truncated by then, so that
what the other side acknowledges for it is not its size and finds no entry (`Unanswered`). That entry stays pending, and the
transmitter in TxWLA (`binkp.c:1719`): the session does not end by itself. `binkp_expired` does not help, since `file_transfer` asks it only when the line takes no
output (`binkp.c:983-993`). `HangUp` is the end of the connection by the other side, which `Closes` assumes to come; the session
then ends with an error, and `binkp_clear_filelist` leaves the `.flo` alone (2836).

`purged`, `robbed`, `spoilt` and `orphan` are history: mail that scanout removed, mail it removed without having seen it, netmail
that a full disk took, and archives and files that a kill or a failing `attach` left without a line.
It is the detailed form of what `Binkp` knows as the set `outbound`.

### JamBase (lib/jammsg.c, ftnbbs/mail.c, ftnfido/ftnmsg.c)

One area and the programs that share it. `jhr[f]` is a `.jhr` file: the count of active messages and the headers;
`rest[f]` the index and the pointers of the users, a `.jdx` and a `.jlr`. `name` says which files have the names, because a pack
makes new ones and renames them, and who opened the base before keeps the old. `lock[f]` is the fcntl lock, which belongs to the
file, not to the name, and goes with the first close. `proc[p]` is a program with the files it has open and what it remembers of
them: the count it read in `JAM_Open` (`jamHdrInfo`), the number on the screen (`LastNum`), `MsgBase.Highest`. Every write that
another one relies on is a step: `AddIndex` (`jammsg.c:188`), `AddBegin` (190), `AddEnd`, `AddCount`; `JAM_Delete`, `DeleteCount`; `PackCopy`, `PackClose`, an
unlink and a rename for the header and for the rest. `Kill` ends a process between any two. After a kill behind `AddBegin` the message
may leave subfields that nobody counts (`tail`), where the next pack looks for a header. After a kill behind `AddIndex` the index has a record that points
to the end of the headers, and the next message adds a second one with the same offset. Until then a search that meets
this record first reads nothing and takes the header of its last read for the message (`Phantom`): it is shown (`ShowPhantom`), or written behind the
headers as deleted (`DeletePhantom`).
What is left out: the text, which goes with the index; `.jdt`, `.jdx` and `.jlr` are opened and renamed as one; a new header file is opened, found short
and written in one step (`jammsg.c:592-603`, without the lock; two that open it at once could overwrite a count); the index of another generation is followed by
place, and its offset taken for the header at that place; a pack that finds the next message through the index and meets a
second broken change there may come back to a message it has passed, and copies it again; flags, replies, searches; pointers of users that no longer exist. One `ftnmsg` packs, two would share the names of the new files.
`strayed`, `cut`, `crossed`, `torn`, `mistaken` are history: messages written to files that a pack took away, files in which a
change was broken off or a message deleted that is not there, files of two generations that were used together, a pack that was killed between its renames, and
whether a message got a number or an index record that is not its place, or one was found that is not there.

### BinkpProofs, BinkpEndProofs, CallsProofs, JobProofs, IbcLinkProofs, IbcNetProofs, OutboundProofs, JamBaseProofs; the MC modules

The proofs, and the instances for TLC with the further formulas. `JobProofs` is about `MailIn` and `ProgLock`: the jobs of ftnfido
and the lock that keeps it from running twice. `CallsProofs` is about `Calls` and `NodeLock`: the calls and the lock on the node that each of them
needs; therefore the names of `NodeLock` that every module has begin with `Bsy` (`BsyInit`, `BsyNext`). `BinkpEndProofs` continues
`BinkpProofs` for sessions without faults.

## The runs

| run | instance | what it shows |
|---|---|---|
| `nodelock` | two processes, kills, old locks, another system | `SoleHolder`: of those who work under the lock, all but the robbed and deluded own the file. `UnlinkJudged`: a lock is lost only if it may be removed, or if it came after the one that was judged. `DeadOwnerGivesWay`: the lock of a dead process goes |
| `proglock` | three processes, the three kinds, kills | `SoleRunner`, `LockNamesOwner` for `lockdir`, and `CallReturns`: the loop of the lock function ends |
| `binkp_clean` | four files: two sent by the caller, one a request, one answer to it, one back; both versions; no fault | everything arrives and both sides end well (`EndsAgree`, `Ends`), and the exchange is implemented with its liveness |
| `binkp_retry` | two files, cuts, two sessions | `RetrySound`: no file leaves the outbound before the other side has it whole, none arrives twice in a session, nothing is mixed; the exchange is implemented |
| `binkp_fault` | two files, the first with a part in `tmp/` and two blocks; kills, stalls, a full disk, refusals, replaced files; two sessions | `DeliveredIsWhole`: what is delivered is whole unless mixed. M_GET, M_GOT and M_SKIP cross the next M_FILE, also in orders that end a process: `fclose(NULL)`, `fseek` on a closed file |
| `binkp_mixed` | two partial files of one length | violated: `OpenFileIsAnnounced`. The receiver takes the open file for the announced one because the offset fits |
| `ibclink` | two servers with the delays of the code, any two passwords, two faults of any kind, one tie | `Authorized`: no connection without the same password. `OneCaller`: not both ends believe they called. `Heals`: with one password the link comes up and stays |
| `ibcnet` | three servers in a line, a user at each end, one of them with a second nick, three acts of users, one crash or shutdown | `ChannelCount`, `NoGhosts`, `Agreement` when nothing is under way, and `Converges` |
| `mailin` | a mailer on a line and one on the internet, all jobs, three events: sessions, requests from outside, the BBS closed, tosses broken off | `OneFtnfido`; `PacketsRemembered`: somebody will look at a packet in the inbound, unless the last toss broke off there; `Tossed`: it is tossed, or the toss breaks off |
| `calls` | two nodes, one on a line, two tasks, three events: mail, hours, resets, incoming calls, a lost connection, kills, stops | `CallKnown`, `ListedOnce`, `CalledInTime`, `Served` |
| `outbound` | two mails, a netmail, a file; archives of one packet, two digits; one fault: a kill, a lost connection, an archiver, an open or a write that fails; two weeks; the other side ends a session in which nothing comes any more | `NothingLost`, but for what scanout or a full disk takes; `Attached`: what lies in the outbound is listed when nobody works at the node; `Delivered` |
| `jam` | a tosser, a user and ftnmsg on a base of two messages; four jobs (add, read, delete, kill, pack), one kill | `BaseSound`: no message is lost; between two changes the count is true and the index names the headers in their order, but where a change was broken off, and there too it leads to every message. `UnreadKept`: a pointer passes no message that was not shown, through renumbering |

The bounds. Two processes and the foreign mailer are three parties for the node lock: one judges, the
second takes over, the third takes over again. With three processes and no foreign system
the same properties hold; the proofs cover any number. Three processes are the least
with which two judge the lock of a third in `ProgLock`. In `Binkp` two files in one direction are needed for
an acknowledgement to cross the next announcement, two blocks for a file to be half sent, two or three frames
on the line for both sides to be in the middle of something, two sessions for a retry, and three batches
for the second and the last to differ. `BatchLimit` is 20 in the code: it matters only when
something is listed again and again.

In `IbcLink` one fault brings a link down and a second disturbs the way back; in `IbcNet` a server in the middle is
what relays and splits. `MailIn` has a mailer the task list knows and one it does not, `Calls` a node that competes for the
line and one for the internet, with a list as short as the number of nodes, so that rotation and the entry behind the end
matter. In `Outbound` two mails and two digits are the least with which a name is exhausted and used again. Its instance
has 925 000 states, that of `jam` 2.4 million, the largest, `binkp_fault`, 2.6 million. In `JamBase` four jobs
are the least in which a message is added, another deleted, the base packed and read; three generations of files are a pack and
a file that somebody made while it renamed.

Deadlock is not checked in the runs of `ProgLock` and `Binkp`, where processes and sessions end, and of `IbcNet` and
`JamBase`, where users and programs stop after their bound.

### Further formulas

These describe behaviour the comments or the documents do not let one expect; TLC refutes all but the two that
are said to hold. They are in the MC modules; to see a trace take the configuration named and change what is listed.

| formula | configuration | what happens |
|---|---|---|
| `LiveLockKept` | `nodelock` with `ZeroLocks`, `CanOverstay` and `CanCrash` FALSE, without the PROPERTY | a name that is released between the read and the stat has no time, `file_time` returns -1 and the difference looks like decades: the unlink removes the lock of a third call. `html/misc/outbound.html:94` speaks of locks without a process only |
| `GrantedLockIsOwn` (MCNodeLock) | the same with `ZeroLocks = TRUE` | the own pid left on the stack makes `nodelock` take an empty lock for its own: line 92 compares before line 103 looks at what fscanf returned |
| `RunsOnce` (MCProgLock) | `proglock` with `CanCrash = FALSE` | two starters judge the same stale lock, the second unlink removes the fresh lock of the first |
| `UnlockOwn` (MCProgLock, PROPERTY) | `proglock` with `Proc <- TwoProcs`, `Kinds <- Program`, `CanCrash = FALSE`, without the invariants | `ftnmon/ftnmon.c:794` says "Another ftnmon is already running, abort" and calls `die`, which calls `ulockprogram` (line 70), and that unlinks the lock whatever pid it read (`proglock.c:122-127`): the lock of the running program is gone and a third start runs beside it. `ftnall`, `ftnaff`, `ftnindex`, `ftnfile` and `ftnsetup` do the same; `ftnfido/ftnfido.c:311-316` has the test that prevents it |
| `GotIsThere` (MCBinkp) | `binkp_mixed` with `Start <- Fresh`, `Size <- ZeroSize` | a file without contents is complete before it is opened: acknowledged, removed by its sender, never moved to the inbound (`binkp.c:1223`) |
| `OneVersion` (MCBinkp) | `binkp_mixed` with `File <- One`, `Start <- Fresh`, `MaxSessions = 2`, `CanCut` and `CanReplace` | `bopenfile` takes any file of that name for the beginning of this one |
| `OkMeansReceived` (MCBinkp) | `binkp_mixed` with `File <- One` | M_GET crosses the first M_EOB; the receiver starts a batch in the middle of the file and ends well without it |
| `KeptUntilReceived` | `binkp_mixed` with `File <- One`, `Start <- Fresh`, `CanFill = TRUE` | M_GOT is sent at line 1377 and the file closed at 1378, whose result is not looked at |
| `RequestAnswered` (MCBinkp) | `binkp_mixed` with `File <- Three`, `Size <- FirstSize2`, `Start <- Fresh`, `Reply <- Third`, `Request = 1` | the list is made while the request is still arriving: `respond_wazoo` cannot open it and forgets it |
| `Ends` (PROPERTY) | `binkp_mixed` with `Size <- FirstSize2`, `Start <- FirstPartial`, `CanStall = TRUE` | M_GET sends the transmitter to the next file while one is half sent; nobody goes on with that one and both sides wait. `binkp_expired` is only called when the line takes no output (`binkp.c:993`), although `binkp.h:40` calls its 300 seconds the global timeout |
| `Heals` (PROPERTY) | `ibclink` with `DialDelays <- LongDial`, `MaxFaults = 1` | `taskibc.c:905-910` resets a half dead link after five PASS; when the caller waits ten minutes between calls the connected side sends PING meanwhile, the other answers PONG, and PONG sets the count to 0. `html/setup/global.html:391` allows such delays |
| `SteadyLink` (PROPERTY) | `ibclink` | holds: a link that is up on both sides falls only by a fault or the way a fault left it |
| `ChannelCount` | `ibcnet` with four servers (`LineOf4`), `User = {"u"}`, `Home <- Far`, `Nicks <- FarNick`, `MaxOps = 2`, `CanCrash = FALSE` | SQUIT names the neighbour that went; two hops away the servers behind it and their users stay, and when they return a JOIN is counted twice |
| `ChannelCount` | `ibcnet` with two servers (`LineOf2`), `Home <- AtBoth`, `Nicks <- SameNick`, `MaxOps = 6`, `MaxStops = 0` | both users take one nick at the same time; the other server refuses it (`taskibc.c:1353`) and finds the wrong user for the JOIN that follows |
| `Agreement`, `NoGhosts` | `ibcnet` with `LineOf2`, `Home <- AtBoth`, `Nicks <- NoNick`, `Hasty = TRUE` | a server that is back before its neighbour noticed is connected on one side and calls on the other, and the lists differ; a SERVER or USER comes over a link that is down |
| `TicsRemembered` | `mailin` | the semaphore is reset a second time after the `.tic` files and before the packets (`ftnfido.c:640`): a `.tic` that came in between waits for the next session |
| `PacketsRemembered` | `mailin` with `MaxTasks = 2`, or with `SPECIFICATION HandSpec` | the task list is full, `launch` returns 0 and the semaphore goes (`ftntask.c:1343`, 1357); or the job finds the lock of somebody's own `ftnfido` and gives up |
| `Tossed` (PROPERTY) | `mailin` with `Endless = TRUE`, `MaxEvents = 0`, `TossWait = 3`, without the invariants | `ftntask.c:1348-1351`: "we wait for 30 minutes and if there are still mailers running, ftnfido is started anyway"; every mailer that ends with files restarts the timer (`taskstat.c:418`), so on a busy system it never ends |
| `NodeListed` | `calls` | holds: a node that may be called is listed, unless the list is full, a scan is due or a caller was stopped |
| `ListedOnce` (Outbound) | `outbound` | `attach.c:50` says "Check if we attach a file with the same name"; `un_attach` returns at once for archives, so one whose file scanout removed is listed a second time when its name is used again |
| `NotRobbed` | `outbound` | scanout looks at an archive's age and then unlinks the name, without the node lock; `flush_dir` packed new mail into it meanwhile |
| `NoOrphan` | `outbound` | a kill (SIGTERM when ftntask shuts down is enough) between the archiver and attach, or between the mark and the truncation: the archive is not listed |
| `NoHang` | `outbound` | an archive that is listed twice (`ListedOnce`) is on the list of a session twice; M_GOT makes the first entry Got and stops (`binkp.c:2563`), the second is pending for ever and the session stays in TxWLA |
| `Delivered` (PROPERTY) | `outbound` with `Closes = FALSE`, `CHECK_DEADLOCK FALSE` | the same session, when the other side does not end it either: the node stays locked |
| `NoneStrayed` (MCJamBase) | `jam` | a tosser waits for the lock of a file that `ftnmsg` packs; the close before the renames (`jammsg.c:878`) gives it the lock, and the message goes to a file that is then unlinked. `html/programs/ftnmsg.html` says that a pack "removes the messages who have the deleted flag set" |
| `NumberedOnce` (MCJamBase) | `jam` | `JAM_Highest` asks the count that was read at the open; a base a base that was empty then gives the number 1 again. It takes no concurrency: delete everything, add, and the pointers of the users are above the new message |
| `PanicSkips` (MCJamBase) | `jam` with `Already = 1` | "PANIC, problem cannot be solved, skipping this area" (`jammsg.c:686`); only the copy stops there, and the base is replaced by what was copied: everything behind is lost |
| `DeletesWhatWasShown` (MCJamBase, PROPERTY) | `jam` with `Already = 3`, `MaxKills = 0`, without the invariants | the user reads message 2, `ftnmsg` removes message 1, and the key D deletes what is number 2 now (`mail.c:1553`); `html/misc/jam.html:519-522` forbids to use data from before the lock |

## Fairness

* `NodeLock`: a process that runs goes on; it calls for the node again and again (the scheduler
  repeats a call until the mail is gone), and `link` does not fail for other reasons for ever.
  Without the last two nobody need ever look at a dead process's lock.
* `ProgLock`: a process inside the lock function goes on. It need not start, and a running one
  need not end.
* `Binkp`: `file_transfer` polls the line in every pass, so a frame that is there is read however often
  the transmitter has something to do in between (strong fairness of `Receive`), and the
  transmitter goes on when it can. A process that sees the end of the connection, or a line that takes nothing,
  gives up. The connection need not break, nobody need be killed.
* `IbcLink`: `ftntask` polls every second and is started again by its parent, time passes, an outage ends. Nothing is
  assumed of the random delays but that ties are bounded.
* `IbcNet`: the same of the receivers; a link that is down is called again and again, and of two callers one is answered,
  which is what `IbcLink` shows.
* `MailIn`: the scheduler turns, seconds and minutes pass, programs end, and the BBS is opened again.
* `Calls`: the scheduler turns (the loop looks for ended tasks every second, strong fairness of `FastRun`), sessions end, retry times come,
  the internet comes back, a stopped process is continued.
* `Outbound`: a process that runs goes on; the flusher and the calls come again, and find the node unlocked some
  time (strong fairness). Neither connection nor archiver need fail. That the other side ends a session in which nothing comes any more (`HangUp`, with
  `Closes`) is an assumption about the other side, as no timer of this one does; without it a doubled line holds the session and the node for ever.

## What is proved

For every set of processes and all values of the switches:

* `CallsProofs!BsyTypeCorrect`, `OneHolder` (`SoleHolder`), `LossNeedsWindow` (`UnlinkJudged`), of `NodeLock`.
  `SoleHolder` alone is not inductive: `ReadOwner` gives the lock to whoever finds the own pid, so the
  proof carries the types, and uses that every change of the name either goes
  through `Grant`, which needs the name to be free, or robs its owner. `UnlinkJudged` needs what each label
  knows of the file that was read as long as `moved` is false: the strengthened invariant says so for
  each label between the read and the unlink.
* `JobProofs!LockTypeCorrect`, `OneRunner` (`SoleRunner`) for all three lock functions, and
  `DirLockNamesOwner` (`LockNamesOwner`): with a temporary file per process the inode a process has open is its own, and it
  holds its pid from the moment it is linked (`OwnFiles`).
* `BinkpProofs!TypeCorrect`, for any files, sizes, partial files, versions, faults and number of sessions. `TypeOK`
  is not inductive: `SendBlock` names the frame after `cursend`, and `Answer` after `rname`, which are
  `NoFile` most of the time. `IInv` adds `Named`: in `TxTryR` there is a current file and in
  `RxReceD` a name, so neither `SendBlock` nor `WriteData` ever works on `NoFile`. The proof has a lemma for
  every change that a step makes of struct bp and one for every action.
* `BinkpProofs!WholeFiles` (`DeliveredIsWhole`), with every fault the module has: cuts, kills, stalls, full disks, refusals,
  replaced files, retries. That a file is whole when it moves depends on all that led to the last block, so the invariant
  `WInv` follows the talk of the two processes. `Owned`: a process lists its own files and receives the other's.
  `Streams`: the frames on a wire have places, (file, offset), that begin where the receiver is and end where the sender
  is; an M_FILE may jump, a data frame goes one block on. Only so does the block that arrives continue the file.
  `Singles`: a file is under way in one form: announced, awaited, answered on the wire, or answered in its owner's queue;
  else an M_GET could arrive for a file that has grown since. `Contents` is what follows for the files:
  an offset under way is the length of what the receiver has, what is awaited continues it, what is delivered is
  whole. `Contents` is claimed while nothing was mixed, the other three always. TLC checked `WInv` in the
  instances of `binkp_fault`, `binkp_retry` and `binkp_mixed` first.
* `BinkpProofs!KeptTillReceived` (`KeptUntilReceived`, the first part of `RetrySound`), through cuts, stalls, refusals, replaced files and
  retries. The invariant `Acknowledged`: a file that an M_GOT names, on the wire or in the queue of its owner, or that has
  left the outbound, is whole in `tmp/` or in the inbound. It is assumed that no disk fills up and no process is killed: the M_GOT
  is sent before the file is closed and moved, so that with either fault TLC refutes the formula (*Further formulas*).
* `BinkpProofs!ImplementsExchange` (`ExchangesFiles`): under the same assumption, for behaviours in which nothing is mixed,
  `Binkp` implements the safety of `FileExchange`, step by step: the last block of a file is `Deliver`, following an M_GOT is `Release`, every other
  step changes neither. `Deliver` needs `Kept`, that what is announced or awaited is in the outbound of its owner; it
  holds because by `Singles` an M_GOT in the queue is the only form its file is under way in. `Release` needs `Acknowledged`
  and `Short`: what is whole is not in `tmp/`. The last excludes by assumption a file that was complete in `tmp/`
  before the first session, or has no blocks: it is acknowledged and never moved (*Further formulas*, `GotIsThere`).
* `BinkpProofs!NothingIsMixed` (`NeverMixed`), through cuts, kills, stalls and refusals. Three things can go wrong: two
  files of one direction that can both be open half way (`OneLong` excludes them: of the files one side sends at most one
  has more than a block), a file that is replaced, and a disk that loses a block of an open file. The invariant `Apart`: every
  partial file in `tmp/` is the beginning of its own version, an announcement or an M_GET names a place within the file, and the
  offset a receiver compares with the announced one is less than the length of the file it has open or, if that is closed,
  nothing of the file is left in `tmp/`. So an M_FILE whose offset fits the last file is an M_FILE for that file. Without `OneLong` TLC refutes it (`binkp_mixed`).
* `BinkpProofs!SentOnce`, with every fault: while nothing is mixed, a file that a request does not bring is delivered at most as often
  as there were sessions (the part `NotTwice` of `RetrySound`). The invariant `Once` counts, and says of a file that arrived in *this* session that
  nothing can bring it again (`NoMore`): it is not announced or awaited, nobody asks for it with M_GET or M_SKIP, and its
  owner has it as sent or has taken it off the outbound, so that no later list has it. `Singles` gives `NoMore` when the last
  block arrives: a file that was awaited was in no other form.
* `BinkpProofs!RetryIsSound` (`RetrySound`) joins `KeptTillReceived`, `NothingIsMixed` and `SentOnce`; its assumptions are those of the first two, and
  that no file is the answer to a request: the request may be sent again, and then the answer is too. They are what the instance of
  `binkp_retry` satisfies. `BinkpProofs!ExchangeOfApart` (`ExchangesFiles`) is `ImplementsExchange` without its condition on what
  was mixed, under the assumptions of `NothingIsMixed`.
* `BinkpEndProofs!EndsTogether` (`EndsAgree`), for sessions without a fault (`NoFault`) in which no earlier session left a part of a file (`NoPartial`),
  what the instance of `binkp_clean` satisfies; any files, sizes (also none), requests, both versions, any window. Neither process tells the other whether another batch
  follows: each ends when both M_EOB were seen and it counted fewer than three messages, or with the M_EOB of 1.0. The invariant
  `EInv` has three parts that need each other. `Balance`: either both are in the same batch (`Even`), and then what one counted beyond the two M_EOB the
  other counted or will read (`Level`), or one is a batch `Ahead`; then the wire splits into the rest of the last batch, which the other has
  yet to read, and the beginning of the next (`Splits`). Nobody can be two ahead. `Way`: a file that is sent or being sent is announced, awaited, answered or in the queue of
  answers (`Moving`), answered only when all of it was sent (`Answered`), and its blocks come without a gap
  (`Chained`, which `Streams` of `BinkpProofs` does not say: there a file may be broken off). `Side`: what is left of a session then: no state but those of an undisturbed transfer,
  in which all that may wait in the queue is an M_GOT (`Tidy`), and who waits after both M_EOB waits for one (`Waits`). From
  the last follows that nobody sees the end of the connection (`NoHangUp`), from `Chained` that no block and no M_EOB comes where it is not expected
  (`NothingUnexpected`). TLC checked `EInv` in the instance of `binkp_clean`, for both versions, before it was proved. With a partial file it is false, and so is `EndsAgree`: an M_GET that crosses the first M_EOB
  (*Further formulas*, `OkMeansReceived`).
* `CallsProofs!TypeCorrect`, `CallsKnown` (`CallKnown`), `OneEntry` (`ListedOnce`), for any nodes, lines, tasks and events.
  `CallKnown` is inductive only with what a launch relies on: a process number that is off is in no task list and in no entry, and
  a task has a process. `OneEntry` needs that `check_calllist` gives different free places to different
  nodes, which the positions of the scan order provide.
* `JobProofs!TypeCorrect`, `OneAtATime` (`OneFtnfido`), for any mailers, timers and any length of the task list.
  `OneFtnfido` speaks of programs; what is inductive is `OneTask`, that the *list* never holds two tasks of type
  FTNFIDO nor two idle jobs. It yields the formula because a program runs only while its task is listed (`TypeOK`).
* `JobProofs!PacketsKept` (`PacketsRemembered`), from the assumption `Roomy`: `MaxTasks` is at least the number of mailers that
  ftntask starts plus two. Then `launch` does not fail for the toss when its conditions hold: no task of type FTNFIDO
  is listed, so the list holds mailers and at most one idle job (`OneTask`, lemma `RoomLeft`). The invariant adds
  `Unattended`: nobody holds ftnfido's lock by hand. A toss may break off anywhere: what it leaves when none is due is in `left`, the
  formula's last disjunct, and `EndSession` and every other `sem_set` of `mailin` empties it (lemma `BreakKeeps`). Without either TLC refutes the formula (*Further formulas*). ftntask
  has ten places (`MAXTASKS`), so that `Roomy` holds while it calls at most eight nodes at a time.
* `IbcLinkProofs!TypeCorrect`, `OnlyAuthorized` (`Authorized`), `NotTwoCallers` (`OneCaller`), for any delays, passwords, faults and ties.
  Both are about two states and what is under way between them. For the first the invariant adds that a PASS carries the
  password of its sender (`Signed`), and that with different passwords nobody has taken a password for good and no SERVER
  returns the token of a call (`Strangers`). For the second it counts as answered a call whose answer is still on the
  line: never are the calls of both sides answered (`OneAnswers`). A server gives up its own call when it answers the other's.
* `IbcNetProofs!TypeCorrect`, `GhostsNever` (`NoGhosts`), for any servers, users, nicknames and channels, any number of acts, shutdowns and crashes. The
  proof needs to know of every datagram what it may be about. When the link of two neighbours is cut the other servers fall on two sides (`Splits`),
  and the invariant says that a neighbour speaks only of its own side (`Later`, `MailOk`), that a server on a list is reached
  through the neighbour on whose side it is and that this neighbour is up (`Routes`), and that a CALL and an ANSWER come first on
  a quiet link (`CallOk`, `AnswerOk`); the ends of a link disagree only while an answer is on its way or one of them is not running (`PairOk`). Two
  assumptions are not about types: `NoLoops`, that the configured links have such sides, and `~Hasty`, that a server is not
  back before its neighbours noticed that it was gone. Nothing in the code checks the first: in a network with loops what is known of
  a server depends on which neighbour spoke first, and its formula is left to TLC. Without the second TLC refutes `NoGhosts`.
* `IbcNetProofs!KnownToAll`: under the same assumptions and `OneTree`, that every server is on the side of some neighbour, all servers know all servers whenever
  every link is up and nothing is on its way (`AllKnown`, the first part of `Agreement`). The invariant `KeenAll` speaks of all that
  is under way: what a server knows, but for what lies behind its neighbour, is known to the neighbour or will be when it has
  read its datagrams (`WillKnow`), where the last word on a server counts (`Says`, `Denies`). A step keeps it if it sends what is
  new to it (`Spreads`) and keeps what its neighbours said (`Retains`). At rest a server that somebody does not know
  would be unknown to his neighbour on its side as well; the sides shrink, and the last of them is the server itself. What a new neighbour
  is told is a fold over a finite set (`AboutServers`, `AboutUsers`), for which the proofs have lemmas of their own (`FoldExists`, `FoldsAgree`). The sides
  of the instance of `ibcnet` are an assumption of `MCIbcNet`, which TLC evaluates.
* `OutboundProofs!TypeCorrect`, `MailKept` (`NothingLost`), `WaitingIsListed` (`Attached`), for any mail, files, archive names,
  kills and weeks. `NothingLost` needs what each process is about to remove: what ftnfido takes from the queue is packed, or spoilt on a full disk
  (`FlushSafe`), and what the other side acknowledged has arrived *as the archive is now* (`Sent`), which holds because the node lock keeps the flusher
  out for the length of a session (`Locked`). `Attached` needs that the line a session marks is one of the name it has sent
  (`Lines`, `Turn`), and names, for every archive that is not listed, who is about to list or to truncate it (`Held`); files that `attach` could not
  list are left out (`orphan`). A session that never ends keeps the node locked, about which neither says anything.
* `JamBaseProofs!LocksHeld` (`LockHeld`) and `OneWriter`, for any programs, messages, files and kills: whoever is between
  `JAM_Lock` and the unlock or close holds the lock of the file it has open, so that no two change the count of one file at a time.
* `JamBaseProofs!TypeCorrect`, `BaseStaysWhole` (`BaseSound`), `UnreadStays` (`UnreadKept`), in three layers, of which each uses the one before.
  `First`: the types, what every program knows at its place (`Places`), that files without a name yet are blank, and that the
  identities in a file increase (`Ordered`). `Second`: the count of a file is right while nobody changes it, one
  behind while a message is added and one ahead while one is deleted (`Counted`); the index leads to every header and to none but
  the next one, names them in their order where no change was broken off, and is one ahead while a message is added, between its index and
  its header (`IndexFits`); what is wanted is in the named files and, while a pack renames, in those it has made (`Kept`). `Third`: every message has the number
  of its place and a pointer has passed only what was shown (`Seen`), through the pack that renumbers both. `Seen` is about
  files in which nothing was mistaken: after a kill between the index and the header the next message has a second record, and the
  next but one an index that is not its place.

`First` in `Outbound` and the walk of the pointers in `JamBase` are recursions over numbers. The induction theorems of the library
take an operator as parameter, which the provers cannot instantiate; the proofs use that the finite subsets of a
set are well-founded (`FS_StrictSubsetOrderingWellFounded`, `WFMin`): a set of numbers has a least one (`LeastNatural`), and the least
number at which a claim fails gives the contradiction.

The assumptions are the named ones of the modules: pids, the special values and the switches are
what they should be. Only model-checked: everything under fairness (`DeadOwnerGivesWay`,
`CallReturns`, `Ends`, `ExchangesAllFiles`, ...), which the prover cannot treat; and of `IbcNet` `ChannelCount` and what `Agreement` says of users and
channels, which do not hold in every network (*Further formulas*), so that a theorem would need bounds like those of the run.

## Not modelled

* *Hydra, Zmodem, Xmodem, EMSI, Yoohoo and FTS-1*: state tables over a byte stream with timeouts. They would be further
  implementations of `FileExchange`; the handshakes would give `Binkp` one version per side (`binkp.c:320` sends the
  banner before it knows the node).
* *Tosser, scanner, TIC, dupe databases*: sequential programs on files; their order among each other is `MailIn`. Kills
  between store, forward and the dupe record (`ftnfido.c:247`) are not modelled.
* *Directory sessions*: `islocked` and `setlock` (`queue.c:146`) are two steps, and foreign programs take part by rules
  that are configured.
* *IBC*: TOPIC and PRIVMSG, clients that die without a word (their user stays on all lists, `taskregs.c:138`).
* *Scheduler*: the hand-over of the lock to the daemon (`ftntask.c:1713`), UPS, shutdown, disk space.
* *Outbound*: nodes routed through others, T-Mail boxes, pattern requests.
* *BBS, news server, setup, utilities, login, conversions*: screens, records and text of one user at a time.

## What would come next

1. A version per side in `Binkp`, from a module of the handshake.
2. `Hydra` as a second implementation of `FileExchange`.
3. `Toss` with kills, between the message base, the dupe record and the forwarding; a second packer and the text file in `JamBase`.
4. The networks in which `ChannelCount` holds.
