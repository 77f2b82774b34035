# TLA+ models of async-sctp

async-sctp wraps the SCTP sockets of the Linux kernel in tokio. The kernel does
the protocol; the crate decides when to wait, what to make of a record it read,
when an association is over, and who closes a descriptor. Those decisions are
taken by tasks that share a socket, against a kernel and a reactor that change
it in between, and they are what this directory models, checks and proves.

## The system

| Component | Source | State | Operations | Hard part |
|---|---|---|---|---|
| One-to-one association | `association.rs` | registration, `recv_state`, `ended` | `recv`, `recv_msg`, `send`, `send_with`, `abort`, `shutdown`, drop of a waiting call | several tasks on one socket; the socket error goes to one of them; nothing wakes a receive after the end |
| Connect | `association.rs` | descriptor, `both` | `connect*`, `established`, `probe` | an outcome reported in two ways; failures half way; drop at the await |
| Reassembly | `recv.rs` | accumulator `buf` | `recv_step`, `push_chunk` | outlives calls, messages and, on a server, associations |
| Notifications | `notification.rs`, `sys.rs` | none | `parse_notification`, `ends` | which ones end an association |
| One-to-many server | `server.rs` | registration, one `recv_state` | `recv`, `send_with`, `peeloff` | associations share queue, accumulator and readiness |
| Listener | `listener.rs` | registration | `bind*`, `accept`, `from_raw_fd` of what is accepted | several acceptors share one readiness; the window between `accept()` and the subscription |
| Set-up of a socket | `association.rs`, `listener.rs`, `server.rs` | descriptor, socket options | `connect_bound`, `bind_impl`, `setup`, `bind_local` | a dozen system calls, each with its error path |
| Configuration | `config.rs` | the chosen options | builders, `apply` | `None` against zero; casts to `c_int` |
| Addresses | `addr.rs` | none | `to_raw`, `from_raw`, `pack`, `parse_array` | IPv4 and IPv6 in one packed list, byte order |
| Registration | `reactor.rs` | none | `register` | a failure drops the socket |
| Python bindings | `python.rs` | the Rust objects | one call of the crate per method; `SctpServer.recv` loops | a loop over `recv` that drops notifications |
| PPIDs, errors, message information | `ppid.rs`, `error.rs`, `types.rs` | none | constants, plain data | none |

How they interact: all calls go through tokio's `AsyncFd`. An edge of the socket
is harvested by the reactor, cached as readiness and wakes the tasks that wait
for it; a task that meets `EWOULDBLOCK` clears the cache. `recv_msg` reads one
record under the lock of `recv_state`, folds it into the accumulator, and closes
`ended` after the lock is released when the record was a notification that ends
the association; a waiting send selects between readiness and `ended`; a receive
looks at `ended` only when it found nothing. `accept` and `peeloff` hand a raw
descriptor to `from_raw_fd`.

What makes each component correct:

- association: no wakeup lost; nothing lost, duplicated, reordered or divided;
  `ended` only at the end; every call ends when the association does;
- connect: success means established, the descriptor closed exactly once
  otherwise, the notification left for `recv`, and every connect ends;
- set-up of every kind: the kernel ends up with the addresses and the options
  that were asked for, through the bytes and the casts on the way;
- listener: no waiting association is overlooked, an acceptor that lost a race
  waits on and does not spin, and what is handed out will announce its loss;
- server: as the association, per association, over losses and peeloffs;
- descriptors: an owner finds its descriptor open and its own until it drops it.

## Modules

`AsyncFd` (external: tokio and epoll). `edge` is an epoll edge not yet
harvested, `event` what was harvested and not dispatched, `ready` the cached
readiness, `waiting[t]` the interest a parked task waits for, `fresh[t]` that the
guard a task holds is of the current tick. `ClearReady` does nothing in a later
tick and never removes the closed bits, as in tokio; `FromEpoll` is tokio's
translation of the events (an error is `ERROR` and not `WRITABLE`).

`ReadyLoop` is the shape that `recv_msg`, `send_with` and `accept` share: wait for
readiness, make one attempt, clear the readiness if it would have blocked, and
again. Association, server and listener supply the attempt.

`Notification` is `parse_notification` on the fields and the length of a record,
and `ends`. `Reassembly` is `push_chunk` on records whose payload is a *piece*:
association, message, place in the message, and whether it is the last. With
that, what a receive returns can be compared with what was sent. `DataOf` is the
pieces in a queue of records; it and the server's properties select with `Only` of
`Subsequences`, a recursive function over a set (`SelectSeq` takes an operator, which
the provers cannot follow; an assumption of `MCSctpServer` has TLC compare the two).

`KernelSocket` (external) is the one-to-one socket with the peer behind it: the
receive queue, the socket error (handed to one caller), the two shutdown flags,
room in the send buffer; and the peer that sends pieces, acknowledges, restarts,
shuts down or is lost. A message may be cut by a loss or a restart (`cut`).

`SctpAssociation` composes these with the tasks. A step is a stretch of code
between two accesses to what tasks share:

| Code | Action |
|---|---|
| `readable().await`, `ready(..).await` | `Ready`, or `Wait` and `Woken` |
| the lock, `recv_step`, `push_chunk` | `RecvChunk`, `RecvSocketError`, `RecvEof`, `RecvWouldBlock` |
| `ended.is_closed()` after `EWOULDBLOCK` | `RecvBlocked` |
| `ended.close()` | `RecvEnding` |
| `guard.clear_ready(); continue` | `Clear` |
| `ended.acquire()` of the select | `SendEnded` |
| `sctp_sendmsg` and its outcomes | `SendTaken`, `SendWouldBlock`, `SendAbort`, `SendEof`, `SendFails` |
| drop of a waiting future | `Cancel` |
| `shutdown()` | `Shutdown` |

`MessageChannel` is the abstract specification: the pieces the peer sent, the
messages that were returned, and whether the channel is closed. `Channel` in
`SctpAssociation` instantiates it with `returned <- delivered` and
`closed <- ended`; `ImplementsChannel` says that every step of the tasks, the
reactor, the kernel and the peer is a step of the channel or leaves it alone.

`SctpListener` is `accept` by any number of tasks, and `from_raw_fd` on what it
accepted. `conn` says where each association is, `report` how its socket learns
of its loss: as the end of file when it was lost in the backlog, by the socket
error alone before the subscription, by a notification after it.

`SctpSetup` is the making of a socket. `args` is the call: a `connect`, or the
bind of a `listener` or a `server`; `Steps` is the order of the system calls of
each kind and `Try` one of them, which succeeds or fails. An error of `connect`
drops the socket, which closes the descriptor (`HasWrapper`: `connect_bound` wraps it
right after `socket()`, a bind with the call of `register`); an error of a bind's
`setup()` goes to `bind_impl`, which closes the descriptor whatever `setup()` has
done (`bind_error`, `BindFails`). `connect` then goes on to `established()`, whose two select arms are the `Tasks` of its `AsyncFd`. A round is `CheckSoError`
(which may find the error, find none, or fail itself), `Decide` on the answer of
`probe()` and, in the writable arm when nothing is decided, `Clear`: three looks at a
socket that the kernel and the reactor may change in between. The readable arm gives
its guard back first (`Retain`). `SetV6Only` ignores a failure, as the code does, and the
socket then keeps what the host gave it.
`ReactorErrs` reports readiness without cause, which tokio documents as
possible, and `hints` remembers it. `sock` is what the kernel knows of the socket
by then. The module rests on

- `Addresses`: a `sockaddr` as its bytes, `to_raw` and `from_raw` between that and
  an address, `pack` and `parse_array` for lists of mixed families;
- `SctpConfig`: the builders as the calls made, the Python constructor, `apply` as
  the list of options it sets, with `CInt` the cast at `IntBits` bits;
- `KernelSetup` (external): what the kernel makes of options and addresses, the
  family checks of `bind`, `sctp_bindx` and `sctp_connectx` included.

`SctpServer` is the one-to-many socket: one queue, one accumulator, associations
that come up, are lost, close, or are peeled off to a queue and accumulator of
their own (`peeled`). `Open(a)` says that the last message of an association
will go on; only one is in partial delivery at a time. Such a socket has no
socket error and no end of file, so the `Step::Err` arm of its receive does not
occur. The receive of the Python class is there too: it stays in its loop over
notifications. `bind_impl` is in `SctpSetup`.

`Descriptors` is the table of descriptors, shared by threads that construct and
drop sockets of every kind. `table` remembers who opened a number, so that a
close by somebody else shows; `Faults` says which steps may fail. Its `SetUp`
stands for the options, `bind`, `sctp_bindx`, `listen` and the subscription,
whose failures all leave the same way. It is the abstract specification of a
set-up as well: `Ownership` in `SctpSetup` instantiates it with the call as the one
thread and its descriptor as the one number, and `ImplementsOwnership` says that
every step of the set-up is one of `Descriptors` or leaves it alone. So the steps
that `Descriptors` sums up are shown to be those of the code on every error path,
and what it says of many threads is about them.

`SctpAssociationProofs`, `SctpServerProofs`, `SctpListenerProofs`,
`SctpSetupProofs`, `KernelSetupProofs` and `DescriptorsProofs` hold the theorems,
`SequenceProofs` and `ReassemblyProofs` the lemmas about sequences, which all share,
and about `push_chunk`, which association and server share. The `MC*`
modules name the tasks of the instances. Operators whose comment begins with
"Mutant" are wrong variants of a definition; each shows that a property notices
that mistake. `PROJECT.json` lists them, maps every definition to source lines,
and lists the hazards the properties are for.

## Runs

| Run | Shows |
|---|---|
| `assoc_messages` | two receivers, messages in pieces with notifications between them, restarts by the peer, either side ending it: `Conservation`, `DeliveredIntact`, `EndedMeansOver`, `NoDataLeftBehind`, and `ImplementsChannel` |
| `assoc_ends` | a receiver and a sender, full buffer, loss, abort, shutdown by the peer or with `SCTP_EOF`: `TypeOK`, `NoLostWakeup`; `ReceiveEnds` and `SendEnds` once the association is over; `SendProceeds` while there is room |
| `assoc_two_receivers`, `assoc_senders_alone`, `accept_window` | violations, see below |
| `setup` | all three kinds of socket, every failure, that of `IPV6_V6ONLY` ignored, connect also with its drop, a loss right after the handshake and false readiness: `OkMeansEstablished`, `RefusalIsExplained`, `OneOwner`, `ReadinessIsLeft`, `ConnectReturns`, and `ImplementsOwnership`; mixed address lists and configurations: `AddressesFit`, `AddressesAsAsked`, `OptionsAsAsked` |
| `listener` | two acceptors, two associations lost at any point, every failure: `NoLostWakeup`, `NoEmptyReturn`, `LossIsAnnounced`, `AcceptSettles`, `AcceptProceeds` |
| `server_wakeups` | two receivers and a sender on one registration, with aborts, shutdowns and peeloffs: `NoLostWakeup`, `RecvProgress` |
| `server_messages` | two associations on one accumulator, with losses, peeloffs and both forms of receive: `Conservation`, `EndsInWholeMessage` |
| `server_lost` | violation, see below |
| `fd_owner` | three threads, four descriptors: `DescriptorIsOwn`, `OnlyFromRawFdLeaks` |
| `fd_bind_register` | violation, see below |

Bounds, and why they are enough. `SndBuf = 1`: one message fills the buffer, so
that waiting for room happens at once. `MaxQueue` 1 or 2: the flow control of the
peer; the notifications of a shutdown or of the end are queued beyond it, as in
the kernel, so that records queue up behind each other in either case.
`MaxMsgs = 2`, `MaxParts = 2`: a message in pieces with another behind it, which is
what a stale prefix needs (on the server the other message is that of the other
association, so one each is enough). Two tasks of a kind are what a race of tasks
of that kind needs; the theorems do without the bound. `assoc_messages` has no
sender, since a send touches nothing of what it checks but the socket error, and
`assoc_ends` has one. `Calls` names the calls a run makes. `assoc_ends` leaves out
`shutdown()`, with which it would take too long: the handshake that follows is the one
of `SCTP_EOF`; `assoc_messages` has it, and the theorems hold with every call.
`server_wakeups` has two receivers, of which one can take the record both were woken
for, or clear while another arrives, and one sender; it leaves out losses other than by
an abort (`Losses`), which queue the same notification, and the receive of Python, which
goes round the same loop more often. Liveness runs have at most one message, as what must end is
not the data. Two acceptors and two associations: one can take the association
the other was woken for while a second arrives. `LostEarly` allows a loss before
the subscription; `assoc_ends` is without it because of what `accept_window` shows.

`setup` has a list of calls, chosen so that each branch of the conversions is
taken: no, one and two local addresses, both families and both mixed, ports that
agree, differ or are zero, bytes that are all different so that a wrong order
shows; configurations that set each option, one twice, the parts of the INIT
parameters in either order, and values at and beyond the width of a `c_int`.
`IntBits = 4` makes that width reachable; `BufLimit = 6`, `BufFloor = 2` and
`AutocloseLimit = 12` lie on the sides of `2^3` on which the kernel's limits lie of
`2^31`. `LittleEndian` is the host.

`fd_owner` has one descriptor more than threads, so that a leak can happen and
the table can still run full.

Fairness. Tokio polls a woken task and turns its driver again and again, hence
weak fairness of the two reactor steps and of the steps of each task inside a
call; the listener and the server have the same. In `SctpSetup` the harvest is strongly
fair: there a report without cause is a step of its own that uses up the driver's
turn, while the real driver collects what epoll has in every turn, so that such
reports cannot keep it from the true one for ever. Nothing is assumed of the peer,
of the calls a program makes, or of drops. In `SctpSetup` the kernel decides every
connect: it sends the INIT a bounded number of times.

### What the violations show

- `assoc_two_receivers`: one receive takes the notification of the loss under
  the lock; a second reads `EWOULDBLOCK` and finds `ended` open; the first then
  closes it, which wakes senders only; the second parks for good.
  `tests/lost.rs` promises an end to "every receive". The same happens to a
  receive parked when a `send` took the error and the other receive the
  notification.
- `assoc_senders_alone`: the error of a lost association is handed to one
  sendmsg before the reactor has looked; a second sender stays parked, and
  nobody receives to close `ended`.
- `accept_window`: an accepted socket subscribes to events in `from_raw_fd`. A loss
  between `accept()` and that subscription queues no notification: the socket
  error is all there is, epoll reports it as `ERR`, which is no readiness for
  reading, and `recv_msg` looks at nothing before it is readable. The receive
  waits for good, also when a send has taken the error. An association that is
  lost while it is still in the backlog is accepted at its end of file, and its
  receive returns. `LossIsAnnounced` says that the window closes with
  `from_raw_fd`.
- `server_lost`: the accumulator of the server is not per association. A loss in
  the middle of a message leaves its pieces in front of the next message.
  `EndsInWholeMessage` states what holds nevertheless, and `DeliveredIntact` the
  same for a restart of a one-to-one association.
- `fd_bind_register`: a failed registration drops the socket, which closes the
  descriptor, and `bind_impl` of listener and server closes the number again. The
  change log reports the same as fixed for connect.

Further observations, which no run states:

- For the same reason a `peeloff` in the middle of a message leaves its head with
  the server, and the new association returns the tail as a message
  (`Conservation` says that the two together are what was sent).
- `abort()` ("immediately") takes the path of a send and waits for room first.
  `SendProceeds` says that it gets the room there is, and `SendEnds` that it does
  not outlive the association; on a peer that acknowledges nothing it waits until
  the kernel gives that peer up.
- After a readable report that decided nothing, `established` stops waiting for
  readability (`both`), and a refusal that comes after it wakes no arm: that connect
  waits for ever. `ConnectReturns` names exactly this as the one connect that does not
  return. It takes readiness reported without cause, as nothing else makes the socket
  readable before the outcome.
- `RefusalIsExplained` excepts false readiness: a refusal between the two looks of
  `outcome` becomes the error-less `NotConnected`.
- The result of setting `IPV6_V6ONLY` is ignored. If it fails on a host with bindv6only,
  the IPv4 addresses of a mixed list are refused later, by `bind` or `sctp_connectx`;
  `AddressesFit` names that case beside ports that differ (`Unfit`).
- A restart of the peer in the middle of a message leaves the pieces read so far in
  front of the next message, although `recv` promises whole messages; `DeliveredIntact`
  says what may stand there.
- A buffer size from 2^31 to 2^32 - 1 is negative after its cast, and the kernel,
  which reads it unsigned, takes it as it was meant. From 2^32 on it wraps: a
  `recv_buf` of 2^32 asks for none. `OptionsAsAsked` leaves those sizes out.
- `autoclose` on a one-to-one socket is refused by the kernel, so a connect or a
  listener configured with it fails.
- On an IPv6 socket the kernel reports IPv4 addresses v4-mapped, and
  `local_addrs()` returns them so.
- A bind does not check that its ports agree, as connect does; the kernel refuses.
- `sys.rs` numbers `SCTP_REMOTE_ERROR` and `SCTP_SEND_FAILED` 3 and 4 above the
  base. The kernel's header has them the other way round; the model takes the
  numbers of the source on both sides, and no property depends on them.

## Proofs

`SctpAssociationProofs`, for any tasks, any buffer sizes, any bounds and calls:

- `TypeCorrect`: `Spec => []TypeOK`.
- `WakeupsAreKept`: `Spec => []NoLostWakeup`. `NoLostWakeup` speaks of parked
  tasks only and is not inductive. `WakeupInv` adds `Signalled` (what a task
  waits for is cached, harvested or signalled), `ParkedUnready` (nothing a parked
  task waits for is cached), `ClearIsSafe` (what came after a task found nothing
  is signalled or harvested, so that its clear cannot hide it), and
  `ErrorMeansOver` (a socket error belongs to an association that is over, so a
  send that would block has not overlooked one). The heart is
  `ClearKeepsWakeup`: the tick decides. `Interests` says that tasks of
  different kinds clear different readiness.
- `EndIsTheEnd`: `Spec => []EndedMeansOver`, by `EndInv`: an ending notification
  in the queue has no data behind it (`EndingIsLast`), and a task that has taken
  one and not closed `ended` yet is as good as `ended` (`EndingMeansOver`).
- `ErrorsComeLast`: `Spec => NoDataLeftBehind`, an action property, from `EndInv`.

And of messages, in the same module, for any number and length of them:

- `NothingIsLost`: `Spec => []Conservation`; `MessagesAreIntact`:
  `Spec => []DeliveredIntact`. Neither is inductive. `MessageInv` adds what makes a
  read cut at the right place: the peer sends its messages in order, each followed to
  its end or cut (`SentInOrder`, with `Chained`: a piece either continues the one
  before or starts a message, and then the one before was a last one or is of a
  message that was cut), the kernel flags the last piece and no other
  (`QueueFlagged`), and the accumulator starts behind a last piece and holds none
  (`CutAtEnds`). `ReadIsIntact` then says that what is completed is a whole message
  behind pieces of cut ones.
- `ChannelIsImplemented`: `Spec => ImplementsChannel`. `Init` maps to the channel's
  `Init`, and each step to a step of the channel or to none: `PeerData` to a send, the
  read of a last piece to a return, a close of `ended` to the channel's close
  (`EndInv` gives its guard), all others to a stutter.

`SctpServerProofs`, for any associations, receivers and senders, with losses, shutdowns
and peeloffs:

- `ServerTyped`, and `ServerWakeupsAreKept` (`NoLostWakeup`) along the same three
  parts as the association. A peeloff takes records away under a task that was
  woken for them, which can only make readiness false, never lose one.
- `ServerLosesNothing` (`Conservation`): per association, what went through the
  server's socket followed by what went through its own is what was sent. The
  inductive form adds `PeeledIsNew` (who did not leave has nothing on a socket of its
  own), so that a peeloff starts from empty.
- `ReceivesEndInWholeMessages` (`EndsInWholeMessage`). The invariant looks at the
  `Stream`: all that was returned, accumulated and queued, of all associations. It is
  `Chained` with respect to `Gone`, the pieces of messages that were cut or whose
  association left; if its last piece is of a message that goes on, then that is the
  one association in partial delivery (`TipIsOpen`, `OpenIsAtTip`). A peeloff takes
  the pieces of one association out of the queue and keeps that (`ThinnedOut`): what
  it leaves dangling in front is gone by the same step.

`SequenceProofs` has what these rest on. The induction theorems of the library take an
operator and cannot be used here, so induction is over sets, from the fact that a set
of numbers has a least element (`NatInd`, `SeqInd`); `RecursionExists` gives functions
defined by recursion, and from it `Only` and `FlattenSeq` get their equations on
`Append` and on concatenation. `FoldExists` does the same for `FoldLeft`: it cannot be
stated for every operator, but it can for every sequence of functions, the steps that
the operator takes on the list at hand, and so each fold of the model gets its steps
from one lemma.

`SctpListenerProofs`, for any number of acceptors and associations and every fault:

- `ListenerTyped`; `LossesAreAnnounced`: `Spec => LossIsAnnounced`, and
  `NoReturnIsEmpty`: `Spec => NoEmptyReturn`, from `HoldInv`: a task inside
  `from_raw_fd` holds an association (`Holding`), and what is about to be
  registered or was handed out has subscribed (`Subscribed`).
- `AcceptsAreWoken`: `Spec => []NoLostWakeup`, by the same three parts as
  `WakeupInv`; all tasks of a listener have one interest, which makes each simpler.

`SctpSetupProofs`, for any addresses, configurations, kernel limits and byte order:

- `ConnectOwnsOnce` (`OneOwner`, of every kind) and `OkIsEstablished`
  (`OkMeansEstablished`), by `OwnerInv`: before an error nothing was closed, there is
  a descriptor from `socket()` on, and when `bind_impl` gets an error the descriptor
  is open, or was closed once, by the wrapper.
- `OwnershipIsImplemented`: `Spec => ImplementsOwnership`. `MakeSocket` maps to `Open`,
  the last step before the registration to `SetUp`, the registration to `Register`,
  errors to `ConnectSetUpFails`, `BindSetUpFails` or `RegisterFails`, the close in
  `bind_impl` to `BindFails`, an error after the registration to `Drop`, all others to
  a stutter (`FailIsOwned`, `TryIsOwned`, `StepIsOwned`). `OwnerInv` gives the guards.
- `RefusalsAreExplained` (`RefusalIsExplained`), by `RefusalInv`. The heart is
  `NothingHappened`: an undecided connect without false readiness has no readiness
  anywhere, so its task is not between its two looks when the kernel decides.
- `WhatIsQueuedStays` (`ReadinessIsLeft`), by `LeftInv`, which says the same of every
  step and not only of the return, and that an association that came up after a probe
  answered `Pending` is not cached yet when the clear is going to take effect. Here too
  the tick decides: the dispatch that caches it makes the guard stale
  (`EstablishedKeepsReadiness`).
- `AddressesAreAccepted` (`AddressesFit`) and `AddressesArrive` (`AddressesAsAsked`),
  by `SetupInv`. `SocketSoFar` says what is known of the socket at each step: its
  domain is the one the addresses call for, nothing is bound before `bind_local` and the addresses asked for are
  bound after it (`BoundTo`), and the peer is the one asked for after
  `sctp_connectx`. `StepsInOrder` is what the three orders of calls have in common.
  Whether `IPV6_V6ONLY` could be reset is left open; unless the addresses are `Unfit` for
  what the socket then is, they fit it (`FitForSocket`).
- `OptionsArrive` (`OptionsAsAsked`), for any sequence of calls of the builder, by
  `OptionsInv`: `SetupInv` and `OptionsSoFar`. The options are the defaults until
  `config.apply`, those of the configuration from then on (`Configured`), and no step
  but that one touches them; an `autoclose` got through on a server only, since a
  socket of the other type refuses it.
- `SetupTyped` (`TypeOK`), which needs `SetupInv` for the socket.

`KernelSetupProofs` has what these need of addresses, configurations and options, for
all addresses, either byte order and any calls of the builder:

- `PackParses`: `parse_array` gives back what `pack` laid out, for lists of mixed
  families. Ports and families keep their value through their bytes (`StoredTwo`,
  `StoredFour`), `from_raw` undoes `to_raw` (`RawRead`), and the walk over the buffer
  meets the entries where `pack` put them (`PackLays`, `OffsetsAdd`).
- `BindIs` and its companions: what `bind` and `sctp_bindx` do to a socket in terms
  of addresses and no more of bytes.
- `BuildIs`: after any calls each part of the configuration is what the last call that
  sets it said, and is unset if there was none. `Chain` runs through the
  configurations between the calls; each part is `Overwritten` by the calls of its own
  methods and kept by the others, which for the two halves of the INIT parameters is
  what `get_or_insert` is for.
- `OptionsInForce`: what the options of a socket are once the list `apply` makes of a
  configuration is set. `ApplyIs` divides that list into its parts of at most one option
  each (`Part`), `SettingAppend` sets them one after the other, and `CIntIs` undoes the
  cast of a value below 2^`IntBits` where the kernel reads it unsigned.

`DescriptorsProofs`, for any threads and descriptors:

- `DescriptorsAreOwned`, under the assumption that the registration of a bind does
  not fail (`fd_bind_register` shows that it is needed). `AtHand` strengthens the
  property to the threads that hold a bare number: whoever closes on an error path
  closes its own.
- `DescriptorsTyped` and `LeaksOnlyFromRawFd` (`OnlyFromRawFdLeaks`), under every
  fault. `Reachable` adds that the call that has the descriptor at hand is of its
  kind, so that `from_raw_fd` never lets go of one that counts.

Assumptions are those on the constants (`KernelAssumption`, `TasksAssumption`,
`ServerAssumption`, `ListenerAssumption`, `ArmsAssumption`, `EndianAssumption`,
`LimitsAssumption`, `IntBitsAssumption`, `DescriptorsAssumption`); the proofs take the external modules as
they are. `ArmsAssumption` says of a call that its lists consist of addresses that
`SocketAddr` can hold, that a bind has no peer, and that the calls of the builder have
arguments of the types of their signatures (`Calls`: `u16`, `bool`, `usize`, `u32`).
`IntBitsAssumption` says that a `c_int` has bits, and that 2^`IntBits` is a positive
number, which follows but which the provers know of literals only.

Every invariant, action property and refinement of a passing run is proved. Only
model-checked is liveness under fairness (`ReceiveEnds`, `SendEnds`, `SendProceeds`,
`ConnectReturns`, `AcceptSettles`, `AcceptProceeds`, `RecvProgress`), which is out of the
prover's reach.

## Not modelled

- The bytes of payloads, stream numbers and PPIDs: the crate passes them on and
  decides nothing by them. `ppid.rs` is constants and their names.
- Display of values and the text of errors.
- What the kernel does below the socket: paths, heartbeats, retransmission. Its
  outcome (a loss, a restart, a notification of a change) is in `KernelSocket`.
- The Python methods other than the constructor of `SctpConfig` and
  `SctpServer.recv`: each makes one call of the crate on a shared runtime, and a
  cancelled coroutine is a dropped future, which the models have.
- The error of a server receive for a message without the address of its peer: the code
  calls the check defensive, and the kernel names the peer of every message.
- `local_addr`, `as_raw_fd` and the like, which change nothing.
- Tests, examples and the declarations of `sys.rs` that no conversion uses.

## Plan

Done: association, connect, server, descriptors; then the listener, the abstract
channel and its refinement, the set-up with addresses and configuration, the
Python loop, and the proofs for listener, set-up and leaks; then the proofs about
messages, the refinement and the server; then those about the types and addresses of
the set-up; then the bind half of it, its refinement of `Descriptors`, and the options.
Of what the runs check only liveness has no proof.
