# TLA+ models of LinuxProgramming

LinuxProgramming is a collection of programs and kernel modules that try out the
concurrency and communication facilities of Linux: queues between threads and
processes, servers over poll and epoll with the clients that load them, hash
maps and files of `/proc` inside the kernel, and many short experiments. This
directory models the parts that have a protocol to get wrong. Paths below are
relative to `src/`.

## 1. The system

| Component | State it keeps | Operations | What is hard | What makes it correct |
|---|---|---|---|---|
| Bounded queue of processes, `process/process_communication/..._unnamed1` | three semaphores, counters `f`, `p`, a ring of nodes, in shared memory | `bbq_init`, `bbq_put`, `bbq_take`, `bbq_destroy`; `main` forks and waits | accesses interleave word by word, forks fail, processes end by stop objects | slots never overwritten or read early, FIFO, destroyed last, ends |
| First version of it, `..._unnamed0` | the same, in a mapped file | the loops inline | each process stops by itself on a shared counter | everything taken, in order, ends |
| Blocking queues of threads, `pthread/blocking_queue` (copied in `pthread/bounded_blocking_queue`) | `std::queue`, a mutex, a condition variable or a semaphore | `put`, `take`; producers, consumers, `main` | signal after unlock, spurious wakeups, `pop` without a test | FIFO, never pops an empty queue, ends |
| Echo server with EPOLLOUT, `network/tcp_echo/server_epollout_handle.cpp` | per connection a ring buffer and the registered events; the batch of `epoll_wait` | `Acceptor::handle`, `Connection::handle`, `EventLoop::run` | short sends, events stale when handled, handlers deleted during a batch, ring arithmetic | the stream comes back unaltered, EPOLLOUT armed exactly when needed, no dangling handler |
| Response server, `server_epollout_response.cpp` | the ring's counters, `response_cnt`, `response_pos` | recv, count requests, send responses | requests counted while a response is half sent | one whole response per request |
| One-shot servers, `server_epollout.cpp`, `server_epollout_simple.cpp`, `server_epoll_et.cpp` | per connection `send_len`, `enable_epollout` | constructor, `send_buf`, `handle_recv`, `close_conn` | a response longer than the socket; level- and edge-triggered events | exact response, delivered, then close |
| Naive echo servers, `server_epoll.cpp`, `server_epoll_handle.cpp` and `.c`, `server_epoll_reuseport.cpp` | nothing but the connection | accept, one recv, one send, close | short sends drop bytes, errors close | in order and nothing twice until a send is short; ended connections are closed |
| Poll server, `server_poll_handle.cpp` | the table of descriptors and the handlers | `add_fd`, `remove_fd`, `loop` | the table is walked while it changes, descriptors are reused, out of range; slots are not used again, and nothing stops `add_fd` at their end | until then, a slot and a handler for each open connection |
| Benchmark server and clients, `server_epoll_bench.cpp`, `client_epoll_verify.cpp`, `client_epoll_bench.cpp` | queues of new connections; sequence numbers, `running` | `add_conn`, `dump_conn`, `handle`; `send`, `recv`, timer | hand-over between threads; packets cut by TCP or by the server; a loop that waits without a timeout | each connection with one loop; no false alarm while packets come whole; the client ends |
| Blocking clients and threaded servers, `client.cpp`, `server.cpp`, `util.cpp`, `ipv6_tcp_echo` | a slot for each accepted socket, the loops of `send_full`, `recv_full` | connect, send, receive, close on both sides | a slot read by address after the next accept; both sides blocked in send; one process killed | every request answered if requests fit |
| UDP echo, `udp_echo`, `ipv6_udp_echo` | nothing | sendto, recvfrom | lost, repeated, reordered and empty datagrams | a client that no fault hits gets its answers |
| RCU hash map, `module/proc_entry_hashmap2` | buckets (hlist, spinlock, counter), a slab cache, the `/proc` entry | `pe_map_insert`, `_remove`, `_get`, `_flush`, loading and unloading | readers without locks, reclamation, unloading with callbacks pending | no use after free, linearizable get, intact lists, empty cache |
| Hash map with locks, `module/proc_entry_hashmap1` | the same without RCU callbacks | the same | entries allocated outside the lock and freed at once | an atomic map; no entry lost |
| Callback modules: `timer_example`, `tasklet`, `workqueue0`, `workqueue1`, `sched_display`, `tracepoint_example`, `kprobe_example`, `irq_request_example`, `irq_test`, `proc_entry_normal_file`, `proc_entry_seq_file`, `proc_entry0` | what is registered with the kernel, per-cpu counters, a text | init with its failures, callbacks, exit | callbacks on other processors while `exit` runs; unlocked reads and writes of the text | nothing left when the module is gone; a read stays within the text |
| Not modelled: see section 7 | | | | |

The queues interact through shared memory or threads alone; clients and servers
through sockets, which the models bound in both directions; the kernel modules
with tasks that call them through `/proc` and with the kernel that calls them
back. `PROJECT.json` lists every component with its files and status, and every
hazard at its line with the properties that watch it.

## 2. Modules

    BlockingChannel               what a blocking queue promises (abstract)
    QueueProcesses                the processes and semaphores of both process queues
      BoundedBlockingQueue        unnamed1                        (with BlockingChannel)
      SharedQueue0                unnamed0
    QueueThreads                  the threads of pthread/blocking_queue
      BlockingQueueCondvar            put and take with a condition variable
      BlockingQueueSemaphore          put and take with a semaphore
        ThreadQueues                  the program with either class (with BlockingChannel)
    TcpPeers                      clients, sockets and epoll as a server sees them
      EpolloutEcho                server_epollout_handle.cpp      (with RingBuffer)
      EpollServer                 the loop of the servers below
        ResponseServer                server_epollout_response.cpp  (with RingBuffer)
        OneShotServer                 server_epollout.cpp, _simple.cpp, server_epoll_et.cpp
      StatelessEcho               naive servers and the poll server
    RingBuffer                    class RingBuffer: pure operators
    TcpPipe                       connections between blocking clients and their servers
      EchoBench                   client_epoll_verify/bench.cpp, server_epoll_bench.cpp
      BlockingEcho                client.cpp, server.cpp and their IPv6 copies
      UdpEcho                     udp_echo, ipv6_udp_echo
        EchoClients                   EchoBench, with the other two as instances
    AtomicMap                     what a hash map promises (abstract)
      HashmapLock                 proc_entry_hashmap1
    HashmapRcu                    proc_entry_hashmap2
      HashmapRcuHistory               with a history variable
    ProcEntry                     the text of a /proc file
      KernelCallbacks             the other kernel modules
    MC*                           instances for TLC
    *_proofs                      theorems and proofs

Where a module has no MC module its `.cfg` needs only numbers and model values.
Operators that begin with "Mutant" in their comment are slips that could have
been made in the code; no specification uses them, and `PROJECT.json` names the
property that each one breaks.

`QueueProcesses`, `EpollServer` and `TcpPipe` hold the variables and helpers that the
modules below them share.

**BoundedBlockingQueue.** `mutex`, `empty`, `full`, `f`, `p`, `que` are the words of
`struct BoundedBlockingQueue`; `parent` and `pc` say where `main` and each child are.
One action is one access to shared memory: `p++` is a load and a store, a node is
copied one word at a time, because the program's correctness rests on the semaphores
and not on the size of an access. `Fork` may fail (at most `ForkFailures` times); the
code ignores that, so the model goes on with fewer children. `WaitReturns` and
`WaitFails` are the calls of `wait()`, one by one: `reaped` is the children that it
has returned, and it fails, which ends the loop, when no other child was forked. Only
then does `bbq_destroy` run. `ImplementsChannel` is the refinement of
`BlockingChannel`: a put takes effect when the last word of the node is in its slot, a
take when the last word is copied out; the mapping rebuilds the channel's contents
from the counters and the calls in progress.

**SharedQueue0.** Producers and consumers are forked one by one and stop when the
counter of their kind has passed `TOTAL_LEN`. The counters are tested, under the
mutex, after the semaphores let a process through, so that each process overshoots
by one; the queue starts with whatever an earlier run left in the mapped file.

**QueueThreads, BlockingQueueCondvar, BlockingQueueSemaphore, ThreadQueues.**
`QueueThreads` holds what the two classes and `main.cpp` share. The condition
variable adds the sets of waiting and woken threads; `put` unlocks before it
signals, as the code does; a woken thread waits for the mutex and tests
`queue.empty()` again; spurious wakeups happen at most `SpuriousWakeups` times.
`ThreadQueues` has one more variable, `class`, which never changes and says with
which of the two `#include` lines the program was built.

**TcpPeers.** Not code of the repository, but what its servers face. Byte n of a
client's stream is the number n. A client connects, sends one byte at a time,
reads, shuts its side down or resets the connection at any moment. `Events(c)` is
what a level-triggered `epoll_wait` reports. `RxCap` and `TxCap[c]` bound the
socket buffers, so that a send can be cut short anywhere.

**EpolloutEcho, ResponseServer, RingBuffer.** `RingBuffer` has the arithmetic of
the class as operators. Each server has, for each connection, its ring, the
registered events and `enable_epollout`, and for its one thread the rest of its
batch (`batch`), the handler under way (`cur`) and the locals of its loops. One
action is one system call with the computation up to the next: clients act in
between, so that events are stale by the time they are handled. `delete handler`
on the Acceptor, which is on the stack of `main`, is modelled as the abort that the
C library ends it with. The response server never looks at the bytes of a request,
so that of its ring the counters are enough.

**OneShotServer.** One module for three programs; `program`, which never changes,
says which one runs: whether `send_buf` calls `send` in a loop or once, what
`handle_accept` registers, and whether epoll reports levels or edges. An edge is
modelled as the kernel makes it: each thing that happens to a socket puts it on
the ready list once, and room that appears counts only if the socket was found
full. `close_conn` drops bytes in flight when the client's bytes were not all
read, as TCP then resets the connection.

**StatelessEcho.** The servers that give what one recv took to one send.
`program` chooses the loop: `epoll` (`server_epoll.cpp`, which does not close when a
call fails), `handle` (the three programs that do), or `poll`, with the table `pfds`,
`handlers` and the numbers of descriptors, which are reused, smallest first. The
table has `max_fds` slots for the life of the server: `remove_fd` leaves a hole that
`add_fd` never uses again, and `add_fd` does not compare `num` with `max_fds`, so
that the accept after the last slot writes into `handlers`. That accept is the
action `AcceptOverruns`, after which the server takes no step and its properties
promise nothing. `short` remembers, for the property, on which connections a send
took less than it was given.

**TcpPipe, EchoBench, BlockingEcho, UdpEcho, EchoClients.** `TcpPipe` is a pair of
bounded queues of words for each connection; a recv returns any non-empty part of what
is there. `EchoBench` runs one event loop of a client against the acceptor thread and
the loops of the benchmark server; `BlockingEcho` a thread for each connection on both
sides, of which either process may be killed. After the server is killed, `connect` is
refused (`ConnectFails`) and the thread runs on a socket on which every call fails;
connections that were not yet accepted are reset. An `accept` that fails uses up a
slot and a thread on the descriptor -1; a failed `accept4` of the benchmark server
puts a connection into a loop's queue of which epoll never tells (`AcceptFails` in
both modules). `UdpEcho` has clients and a server over a network that loses, repeats
and reorders. `EchoClients` extends the first with instances of the other two over the
same connections; a member of `Programs` names a client, its connections, the size of
its packets, the server's loops and how many calls of `accept` may fail.

**HashmapRcu, HashmapRcuHistory.** `next` and `pprev` are the list pointers, and the
ones of a detached list remain as the code leaves them; `slab` is the life of an
address in the slab cache (free, private, linked, unlinked, retired) and addresses
are reused. A writer holds the bucket's spinlock from `Lock` to `Unlock`; a reader
does one pointer load per step, under `rcu_read_lock` only. `call_rcu` records the
readers its callback must wait for. `mod` follows loading, with its failures, and
unloading: `remove_proc_entry` waits for the calls in progress, then
`pe_map_flush` allocates, detaches the lists under their locks, waits for RCU and
frees. `HashmapRcuHistory` adds `seen`, the values a reader's key has had since
its call began, which makes linearizability of `pe_map_get` an invariant.

**HashmapLock, AtomicMap.** In the first version every operation walks its bucket
under the bucket's spinlock, so an hlist is the sequence of its entries. The new
entry is allocated before the lock and freed when the key is already there. The
refinement mapping takes a call's effect to be its step under the lock.

**ProcEntry, KernelCallbacks.** `ProcEntry` is the unlocked text of two of the
`/proc` modules, copied character by character by any number of tasks.
`KernelCallbacks` has the modules' lives: `hooked` is what the kernel may call,
a callback runs on any processor, `exit` unregisters step by step and waits where
the module's code waits. `program` is the module at hand. The timer's handler goes on
after `mod_timer` (`call[k] = "rearmed"`), so that the timer can be armed, and fetched
from the kernel's list by `del_timer`, while its handler still runs.

## 3. Runs

| Run | Instance | Distinct states | What it shows |
|---|---|---|---|
| `bounded_queue` | 2 producers, 2 consumers, queue of 2, 2 items each, 2 failed forks | 213 887 | slots are safe, `bbq_destroy` finds nobody left, the mutex free and every credit back, everything delivered, termination, refinement of the channel |
| `shared_queue0` | 3 + 3 processes, ring of 2, `TOTAL_LEN` 2 | 122 061 | nodes taken in order, all taken, termination with as many consumers as producers |
| `thread_queues` | both classes, 2 + 2 threads, 2 items each, 2 spurious wakeups | 199 710 | no pop of an empty queue, termination, refinement of the channel |
| `epollout_echo` | 2 clients (6 bytes and 1), ring of 4, buffers of 3 and 2, batches of 3 | 171 452 | order of the echo, arming of EPOLLOUT, no overwriting, no dangling handler, everything comes back |
| `response_server` | 2 clients (5 bytes and 2), requests of 2, responses of 3, ring of 4, batches of 2 | 391 589 | one whole response per request, arming of EPOLLOUT, every request answered |
| `stateless_echo` | the epoll programs with 2 clients (4 bytes and 1), server buffer of 2; the poll server with 3 (1, 2 and 0 bytes), three slots, descriptors below 3 | 717 906 | order until a send is short, the table of the poll server until it is overrun, ended connections are closed |
| `oneshot` | 3 programs, 2 clients, response of 3, buffers of 2 and 3, a failing accept | 261 393 | exact response, delivered, closed by the two programs that do close |
| `oneshot_close` | `server_epollout.cpp`, 1 client | 749 | the finding of section 5 |
| `hashmap_rcu` | 3 threads, 5 calls, 3 keys in 2 buckets, 3 addresses, 2 values | 1 398 665 | no use after free, intact lists, linearizable get, empty cache at the end |
| `hashmap_lock` | 2 threads, 4 calls, 3 keys in 2 buckets, 3 addresses, 2 values | 290 682 | no entry lost or shared, refinement of the atomic map |
| `kernel_callbacks` | 12 modules, 2 processors, texts below 3 characters, timer until 10 | 115 079 | nothing left behind, counters there, reads within the text, the timer stops |
| `echo_clients` | 7 clients on 1 or 2 connections of 2 words, packets of up to 5 (the verifying client: 1, 2 and 3), a failing accept for most | 296 923 | no false alarm, hand-over of connections, clients end, threads and connections of the blocking programs end and requests are answered |

Every property of a passing run has a mutant in `PROJECT.json`, a plausible slip
in a modelled function under which TLC finds that property violated.

**Why the bounds are enough.** The queue of 2 with 2 + 2 processes is full, empty and
wrapped, with two processes waiting on each semaphore; in `unnamed0` three of a kind
are needed for one to pass the others at the end. The echo ring of 4 holds 3 bytes, so
that 6 bytes wrap it at every offset and give all cases of the iovec functions. A send
buffer smaller than a response makes EAGAIN happen, one of its size makes the one-call
response happen; five bytes are two requests and a half. The poll server's three slots
are the listener's and two more: its third connection gets a descriptor out of range
while the first two are open, and one in range but no slot when one of them was closed
before. In the hash maps, two keys share a bucket, so that an entry has a neighbour to
be unlinked while a reader is on it; three addresses make reuse of a freed entry
happen. For blocking clients 5 words is the most that two directions of 2 and the
server's hand can hold: one more and both sides wait for each other, which is what
`AllAnswered` excludes by its assumption. With two connections a kill meets one that
is served, waits to be accepted or is refused while the other is anywhere else, and a
failed `accept` shifts the slots of those after it. Sequence numbers wrap at 4,
between two packets of 2 and within a packet of 3; the timer expires 10 times as in
its source. Symmetry is used in `hashmap_rcu` alone, on threads, addresses and values,
which the specification treats alike, and that run has no temporal property. Every
invariant of the passing runs, and every refinement, is proved for all bounds (section
6; `AllTaken` for balanced numbers of processes, as in the source), so that the bounds
limit what is known of the temporal properties alone. `max_fds` is not a bound of the
model but the length of an array of the code (4096 there): the properties of the poll
server end where the code writes beyond it.

**Fairness.** Weak fairness of each process, thread or kernel task that the
scheduler runs, of the server's one thread, and of a client's reading what has
arrived. Clients are never obliged to connect, send or stay; nor is the network to
deliver a datagram; nor is `rmmod` ever called. A semaphore's or mutex's waiters
need more than weak fairness only if one can be overtaken for ever; the programs
that wait on them are finite. A timer that is armed expires (`Fire` of the
modules in `OneShot`); callbacks of probes and interrupts need not come.

**Deadlock** is not checked: the queue programs and the clients end, clients of the
servers may stop for good, and calls on the maps are bounded. That nothing stops
too early is what the liveness properties say.

## 4. Hazards

`PROJECT.json` lists forty places where this code can go wrong in a way that a
test would hardly reach. All but one are watched by a property; some of them do
go wrong, and the properties say how far:

* `server_epollout_handle.cpp:343`: a send to a connection that the peer reset
  raises `SIGPIPE`, which ends the server. Signals are not modelled: the send
  fails like any other.
* `server_epollout_handle.cpp:267`: when the second `recv` of a `handle_read`
  meets the end of the stream, the connection goes and the bytes of the first one
  with it. `EchoInOrder` allows that, as nothing is echoed wrongly; liveness is
  promised only to clients that stay until everything is back.
* `proc_entry_hashmap2.c:259`: unloading uses the result of `vmalloc` unchecked.
  The model takes the fault, after which the task is gone and the module stays.
* `server_epollout_handle.cpp`: `accept4` is given an `addr_len` that nothing
  sets. The model lets the call fail, and the server ends as it does in the code.
* `..._unnamed1`: with more consumers than producers after a failed `fork`, the
  parent waits for children that wait for ever. `Termination` is stated for
  balanced numbers of children.
* `server_poll_handle.cpp:63`: after `max_fds` descriptors in its life, the listener's
  included, the poll server writes beyond its table, also if hardly any is open. What
  it does then is undefined: `PollTable`, `EchoUntilShort` and `EndCloses` hold until
  then.
* `ipv6_tcp_echo/util.cpp:12`: after a `send` that fails, `send_full` adds a byte to
  what remains and tries again, for ever. `AllAnswered` says of such a thread only
  that it is one whose connection was reset or refused.
* `client.cpp` with `server.cpp`: a request that both directions of the socket and
  the server's buffer cannot hold blocks both sides in `send`. `AllAnswered` is
  stated under `Fits`.

## 5. Findings

`oneshot_close`: the comment at `network/tcp_echo/server_epollout.cpp:30` says
"send a reponse upon connection establish, and then close". The constructor of
`Connection` ignores the result of `send_buf` (line 47), and the code that closes
after a complete response is in `handle_send`, which runs on EPOLLOUT only;
`handle_accept` registers without it (line 171), and `send_buf` asks for it only
when a send was refused. A response that the constructor sends whole therefore
leaves the connection open until the client closes it. The run finds that
behaviour under the fairness of the server's loop. The other two one-shot programs
do close: `ClosesAfterResponse` in the run `oneshot`.

## 6. Theorems

All proofs are checked by TLAPS for every value of the constants. They rest on the
named assumptions of the modules and, but for `NothingLeft0`, on no other hypothesis:
sizes are positive numbers, and a request is shorter than the ring (`SizeAssumption`,
`QueueAssumption`, `RingAssumption`, `LoopAssumption`, `ResponseAssumption`,
`OneShotAssumption`), different kinds of things are different (`PeersAssumption`,
`AcceptorAssumption`, `EchoAssumption`, `EntryAssumption`), the hash takes keys to
buckets (`HashAssumption`, `LockAssumption`), processors, slab objects, the loops of
the benchmark server and the processes and threads that a program starts are finitely
many (`CallbackAssumption`, `FiniteAssumption`, `BenchAssumption`,
`ProcessAssumption`, `ThreadsAssumption`), and a client uses some connection and
fills no more of a packet than it has (`PipeAssumption`, `ClientsAssumption`). One
conjunct of `BenchAssumption` is about the model and not the code: the benchmark
client puts a time stamp where the verifying one puts a number, which the model takes
to be a number divisible by the size, so that for this client `SeqRange` is a multiple
of the size. TLC evaluates each assumption on a passing run. Where a proof module is
about two components, each theorem uses the assumptions of its own.

* `QueueProcesses_proofs`, on `BoundedBlockingQueue`: `TypeCorrect`, `Exclusion`,
  `Credits`, `Slots_Safe`, `DestroyedLast`, `Implements` and `Delivered`, for any
  number of producers, consumers, slots and items. `SlotSafety` is not inductive:
  that a put does not overwrite an untaken item depends on how many processes are at
  each point of both functions. `IInv` adds the count of the mutex and its holder
  (`MutexCount`), the meaning of `p - f` (`StoredCount`: announced, about to be
  announced, or claimed), and what the loaded counter is worth (`IndexInv`).
  `StepCount` says how a step changes the cardinality of the set of processes at
  some points; each action preserves `IInv` by it. From `CreditsConserved` and
  `StoredCount`, `p - f` is at most `queue_size`, and `ModWindow` gives distinct
  slots. `DestroyedLast` (`DestroyedUnused`) has in `IInv` that the loop over `wait()`
  ends only when every child that was forked has exited; then nobody is between two
  semaphore calls, so that by the same counts the mutex is free, `empty` and `full`
  make up the ring again, and `full` is `p - f`. `Implements` (`Spec =>
  ImplementsChannel`) needs of each child what it has put and taken so far
  (`ChildInv`); `Effects` then says that a step leaves the
  contents alone, puts the next node at their end or takes the one at their head,
  and these are the steps of `BlockingChannel`. `Delivered` (`Spec =>
  []NothingLeftBehind`) rests on `AccountInv`: a node that was put is in the queue
  or with the one consumer that took it, never both, a stop object is behind every
  node of its producer, and the stop objects in the queue and the consumers that one
  has ended are together the producers that have ended. On `SharedQueue0`:
  `Inductive0`, `NodesInOrder` (`TakesInOrder`) and `NothingLeft0` (`AllTaken`), for
  any number of processes, ring and `TOTAL_LEN`. `Inv0` counts the processes between
  the two semaphore calls of an iteration (`Counted0`): they, `empty` and `full`
  make up the ring; `p - f` is what `full` counts, what is stored and not yet
  posted, and what consumers have claimed; and a counter exceeds `TOTAL_LEN` by
  exactly the number of processes of its kind that are about to end or have ended.
  So a node stays in its slot from its store until `f` passes it (`Stored0`).
  `NothingLeft0` has the hypothesis that consumers are as many as producers, and not
  none, as in the source, where `CONSUMER_NUM` is `PRODUCER_NUM`: each process of a
  kind adds one to the overshoot, and with fewer consumers than producers nodes
  remain.
* `EpolloutEcho_proofs`: `Echoes` (`EchoInOrder`), `Arming` (`ArmedIffPending`),
  `Receives` (`RecvIntoFree`) and `LiveHandlers` (`NoDangling`), for any number of
  clients, ring, socket buffers and batch. The first part is about the class
  RingBuffer alone: `BlankIovec`, `ExistIovec` and `BlankHoldsNothing` say that for
  every ring size and counters the blocks are in bounds, not empty when there is
  something to describe, and cover exactly the free or the held slots in order.
  The four properties follow from one invariant, `Inv`, with three parts beside
  the types. `DataInv`: the ring holds exactly the bytes received and not yet sent,
  each in the slot of its number, and what the client has read followed by what is
  in its receive buffer is the part sent, in order. `RegInv`: open connections are
  registered, with the events that `enable_epollout` says; a connection not yet
  accepted holds nothing. `Control`: the batch holds handlers that are alive, each
  once, and the one under way not again, so that deleting it leaves none that
  dangles; EPOLLOUT agrees with the ring for every connection but the one under way,
  whose handler is at a known block of a `recv` or `send` loop and is about to mend
  it. The theorems on the iovec functions give what a `recv` or `send` of k bytes
  does to the slots (`RecvBlock`, `SendBlock`), and there is one lemma for each
  action.
* `EpollServer_proofs`, on `ResponseServer`: `Responses` (`OneResponsePerRequest`)
  and `Arming` (`ArmedIffOwed`), for any number of clients and any sizes of
  requests, responses, ring, socket buffers and batch. The heart of the invariant is
  `Owing`: of the bytes received, those taken from the ring are k whole requests,
  the rest is less than one, and the bytes sent are those of k responses but for the
  ones not begun and what is missing of the one under way. The computations between
  two system calls, which count requests, begin a response and finish it, keep
  `Owing`, each by a lemma on integers; that the stream is whole responses, each
  from its first byte (`Whole`), then follows from `response_pos`. `Control` says,
  as for the echo server, that EPOLLOUT agrees with what is owed for every
  connection but the one under way, and what that one may still have to arm. On
  `OneShotServer`: `InductiveOnce` and `WholeResponse` (`ResponseExact`), for the
  three programs at once, any number of clients, any response and socket buffers,
  and any number of failed accepts. `PhaseInv` says in which states a connection can
  be, from the client's `connect` to the server's `close`. `ServedInv` says that
  what a client has read and can still read is the first part of the response, and,
  until the server closes, as much of it as `send_len` says; and that the server
  closes on a client that is still there only when the response is complete. That a
  reset connection is closed before its end needs `BatchOnce`: an error in the batch
  is of a client that is still reset when the event is handled, and each live
  handler has one event, so that none is handled after its connection is gone
  (`LoopOnce`).
* `StatelessEcho_proofs`: `EchoesUntilShort` (`EchoUntilShort`) and `TableKept`
  (`PollTable`), for any number of clients, server buffer, socket buffers, range of
  descriptors and `max_fds`; for the poll server both say nothing once `add_fd` has
  written beyond the table. `StreamInv` says that a stream rises and stays below what
  was received and is not held, and is all of that while no send was short. `SlotInv`
  says that the slots in use are at most `max_fds`, that each is a hole, the
  listener's or an open connection's, that no two are of one descriptor, that a
  connection's handler is at its descriptor, and that the slot of the connection under
  way has no event left, so that closing it leaves no event in a hole. It rests on
  descriptors that differ (`SocketInv`): `Descriptor`, a lemma by the pigeonhole
  principle, says that the smallest free one exists whenever a connection waits.
* `HashmapRcu_proofs`: `Inductive`, `TypeCorrect`, `Reclamation`
  (`NoUseAfterFree`), `Intact` (`BucketsIntact`), `Emptied` (`CacheEmptyAtDestroy`)
  and `Linearizable` (`GetLinearizable`), for any number of threads, keys, buckets
  and addresses. The invariant `IInv` says that published nodes lead to published
  nodes of the same bucket and back (`NextInv`, `PprevInv`), that a writer is alone
  in its bucket with a new or old entry of its own (`CallInv`, `MineInv`,
  `WalkInv`), and that for each reader there is a set of entries that contains its
  cursor and all published entries, is closed under `next` and is kept allocated by
  RCU (`ReadInv`). The existential replaces a history of what each reader could
  have met. `Inv` adds `Ranked`: published entries have an order that follows
  `next`, so that no entry is its own neighbour when it is unlinked. For the
  shape of the lists, `ListInv` has each bucket's list as a sequence `s[0 .. n-1]`
  of its entries, with different keys, and says where its head is at each point of
  flushing and how far a writer has searched it without finding its key; `OwnInv`
  says that an entry in use is on a list, with a caller or with RCU. `Chain`, the
  walk that `BucketsIntact` compares with the entries, is a recursive function over
  numbers; that it agrees with the sequence is shown at a least number where it
  would not (`LeastNat`). `SeenInv` is the invariant for linearizability. Each entry
  with the key that a get could reach has a value that the key had during the call
  (`Finds`), and unless the key was absent at some moment of the call, there is a set
  of nodes closed under what the get will read that cannot be left without meeting
  the key (`Leads`): an insert, replace or remove at any place of the list leaves
  such a set, or the absence was seen.
* `ProcEntry_proofs`: `TextRead` (`Spec => []ReadsText`), for any number of tasks
  and any `ENTRY_LEN`: readers and writers copy without a lock, and a reader still
  never passes the end of `value`, because no writer ever touches the last
  character. That a text is read as it was stored when no write interferes needs
  the invariant to say which writer has put down how much of what it copied, and
  since when it has been alone. The module also has the other kernel modules, those
  of `KernelCallbacks`: `UnloadsClean` (`NothingLeft`) and `ProbesCount`
  (`CountersThere`), for any number of processors and whichever registrations fail,
  by `PhaseInv`, which says at each step of a module's loading and unloading what may
  be hooked or running and that the counters are allocated; and `TimerLimit`, the
  safety part of `TimerStops`: by `ExpiryInv` the timer never expires more often than
  its source says. Its handler may still run when the timer is armed again, which
  then does not expire before the handler has returned.
* `HashmapLock_proofs`: `Accounted` (`Spec => []EntriesAccounted`) and `Implements`
  (`Spec => ImplementsMap`), for any number of threads, keys, values, buckets and
  addresses. The invariant says that the entries of a bucket are allocated, belong
  there and have different keys (`ListInv`), that a new entry is its caller's alone
  (`HeldInv`), and what a caller knows who has the lock (`WalkInv`): where its
  cursor is, and that the key it looks for is on no entry before. So the step that
  ends the walk tells truly whether the key is there, and that step is the effect
  of the call in `AtomicMap`; all others leave the abstract map as it is. Lemmas on
  sequences (`Prepend`, `Removal`, `Search`) say what `hlist_add_head_rcu` and
  `hlist_del_rcu` do to the members of a list and to a lookup.
* `Threads_proofs`, on `ThreadQueues`: `PopsFind` (`FairSpec => []PopNonEmpty`) and
  `Implements` (`FairSpec => ImplementsChannel`), for any number of threads and
  items and any number of spurious wakeups. With the semaphore, the consumers let
  through, the semaphore's value and the items put but not announced add up to the
  length of the queue (`CreditInv`), so that `front()` and `pop()` need no test.
  That a queue is never longer than what has been put (`LengthInv`) bounds the
  channel. `Effects` reduces the actions of both classes to five kinds of step. The
  proof makes no use of the mutex: an access to the queue is one step of the model,
  and that accesses do not overlap is what the mutex is for. On `EchoClients`:
  `InductiveBench`, `Handover` (`HandedOver`) and `PacketsInStep` (`InStep`), for
  any connections, loops, sizes of packets and room in the sockets. `ServerInv`
  follows a connection from the backlog to the acceptor, to the queue of one loop
  and to its table: it is in one of these places at a time, and its socket is open
  as long (`LinesInv`, `SocketInv`); an index that a loop has still to handle is
  that of a connection it has not removed, nor of a failed `accept4` (`IndexInv`).
  `PacketInv` is what keeps client and server in
  step while packets come whole: the words of a connection that are on their way, in
  either socket or with the server, and those that the client has still to send are
  one packet at most, and if they are a packet they have the numbers of the one
  filled last and, for the verifying client, are the next it expects. So the packet
  that `recv` completes has the numbers it is compared with, also when they start
  over within it. `ClientInv` says at which points of its loop the client owes
  words, and that it has sent nothing before its first packet. The proof showed that
  an earlier form of `PipeAssumption` let a client have no connection at all, where
  the client's first step finds none to send on, and that the verifying client needs
  no relation between its packets and `SeqRange`; both were corrected, and the run
  has packets across the end of the numbers since.

**Only model-checked.** Liveness: `Termination`, `ProgramEnds`, `EventuallyEchoed`,
`EventuallyAnswered`, `ResponseDelivered`, `EndCloses`, `AllAnswered`, `EachAnswered`,
`TimerStops` and the like. It needs fairness and `ENABLED`, which are out of the
prover's reach; so the instances of `BlockingEcho` and `UdpEcho`, whose properties are
liveness and what is said along with it, are checked by TLC alone. Of the safety
properties and the refinements that the passing runs check, none is without a theorem.

## 7. Not modelled

In every module: printing, timing (`sleep`), parsing of arguments, `SIGPIPE`, the
layout of parameter blocks, and the failure of set-up calls whose result the code
only prints, where the component's note in `PROJECT.json` says so
(`pthread_create`, `create_workqueue`, `alloc_percpu`, `fork` in `unnamed0`). The
threaded servers are taken to stop before the end of their arrays of `max_conns` = 4096
slots. The poll server's limit on descriptors is taken to be at least `max_fds`, below
which `poll` would refuse the array. What the IPv6 client sends is not modelled: it
stores one byte of its buffer for each request, and beyond the buffer once there were
more requests than bytes (`ipv6_tcp_echo/client.cpp:41`).
Plain aligned words are read and written in one piece. RCU, spinlocks, the slab
cache, `/proc`, epoll and TCP are modelled by what they guarantee. The counters of
the process queues are unbounded integers: the programs increment them a few
hundred times.

Of the clients with event loops, one loop is modelled: loops share nothing but
`running`. The tracers, which count and print latencies, are left out, and
`err_cnt`, which is never initialised, appears as the set of connections that
raised an alarm.

Whole components, each with nothing between two calls that could go wrong:

| Component | Why it is left out |
|---|---|
| `client_test_epollout.cpp` | one request and one answer; the server models let their peers do that in any portions |
| `server_epoll_et_ref.cpp`, `server_epollout_ref.cpp` | listings of other authors that nothing uses |
| UNIX sockets, descriptor passing | straight-line calls on one connection at a time |
| netlink and layer-4 protocol modules | each message is printed or answered by itself |
| `hello`, `printk_test`, `module_get`, `mutex_use`, `atomic_use`, `preempt_count_display` | load, print, unload; the last one prints its stack with interrupts off, and the rest of it is comments or called by nobody |
| user programs of the hash maps | sequences of calls, which the tasks of the map models make in any order |
| `fork`, `execve`, `wait`, `exit` experiments | a parent and its children, with no state but the kernel's |
| `file/` | experiments with one kernel call each, sequential reads and writes |
| `c_lang/` | sequential programs of a few lines; the interposition library has every function but `getpid` commented out |

What could still be added over these modules: several event loops of one client,
and signals.
