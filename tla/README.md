# Formal models of portable-tls-ra

TLA+ models of portable-tls-ra: the Attester Daemon and its clients, the
measurement of processes, the verifiers of PICA, their configuration file, TLS with
remote attestation and its programs. They are model-checked with TLC on small
instances; theorems about them are checked by TLAPS for all values of the constants.
Paths below are relative to the repository; `.../f.c:12` is line 12.

To check: `tlc -config X.cfg M` for the runs listed in `PROJECT.json`, and
`tlapm M.tla` for the modules whose names end in `Proofs`.

## 1. The system

A process that wants to prove what it is asks the Attester Daemon over a
UNIX-domain socket for *evidence*: a TPM quote over PCR values and over a nonce
extended with a measurement of the process. The evidence goes into an X.509
certificate (TLS-RA) or is compared with a configuration and a policy (PICA).

```
 TLS server/client                       PICA client (pica_poc, pica_sgx)
   libtlsra, libcert, libtpm2              pica_request_measure
        | ocall_make_tpm2_quote_via_daemon      |            pica_verify_tpm2all
        +-------- libsock: sock_send/recv ------+               |     |
                         |                                  policy  configuration
                 tpmdaemon: tpmddaemon                              (conftool, -r)
            apphash | procchain |   | quote
       libmeasure: sha256_pid   |   libquote: make_tpm2_quote
              libcbor, libprocchain: mycbor_pack_procchain
```

| Component | State it keeps | Operations | Interacts with | Correct when |
|---|---|---|---|---|
| Attester Daemon (`tpm2/tpmdaemon.c`) | listening socket and its name; the connection being served; `pid`, `apphash`, `buf`, `unsealed` and `t_quote` on the stack; descriptors never closed | listen, accept, measure the peer, read packet, quote, reply, leave | clients by packets; libmeasure, libcbor, libquote by calls; the kernel | a reply is about the peer and its nonce unless a measurement or an unsealing failed, or the table of digests is outdated; nobody is left waiting |
| Daemon clients (`src/libpica_clnt.c`, `tls_sgx/Host/tpm2.c`, `tpm2/test_tpmd.c`) | a connection, a header, a buffer | connect, send, receive header, receive payload | the daemon | header and payload stay in step; success only with an answer (pica_request_measure does not keep to that) |
| Socket library (`tpm2/libsock.c`, `src/libsock.c`, `test/libtest.c`, `tlssample/libsock.c`) | `totsz`, the buffer | sock_send, sock_recv, sock_listen, sock_connect, sock_accept | the kernel | what is returned is the message sent; no byte outside the buffer |
| Process measurement (`src/libmeasure.c`, `tpm2/libmeasurement.c`) | `filepath_htable`, for the life of the daemon | sha256_file, sha256_libs, sha256_pid | /proc, the file system | the digests are those of what the process runs |
| Process chain (`tpm2/libcbor.c`, `tpm2/libprocchain.c`) | the list being built | one record per ancestor | /proc, libmeasure | a line of ancestors that existed; the walk ends |
| TPM quotes (`tpm2/libquote.c`) | ESYS contexts, `t_quote` | make, verify | the TPM | success only with a new quote |
| PICA verifier (`src/libpica_clnt.c`, `pica_poc/Enclave/main.c`) | `pica_htable`, policy, configuration, bits | read, request, verify each part, combine bits, register | the files, the daemon | success only for what was registered and is listed |
| Enclave verifier (`pica_sgx/Enclave/picatest.c`, `libpica.c`) | as above | an older form of the same | the same | the same |
| Configuration file (`src/conftool.c`, `pica_tools`, `pica_sgx/conftool.c`, reg_config) | one file, plain or sealed | append, register, list | verifiers | what is read is what was written; what is half written is not read |
| TLS remote attestation (`src/libtlsra.c`, `src/libcert.c`, `src/libtpm2.c`, `src/libintel.c`) | `rflag`, `atflag`, `dpath` globals; per handshake nonce and key pair | callbacks of OpenSSL on either side | OpenSSL, SGX, daemon | a peer is accepted only with evidence for this handshake |
| TLS-RA programs (`tls_sgx/Enclave`, `test`, `tlssample`) | options, connection, messages read, errors counted | set up, listen, accept, handshake, read, write, shut down | each other | success only for whole messages; both come to an end |
| Sealing helpers (`src/libio.c`, `pica_sgx/App`, `tpm2/sealtest.c`) | a sealed file | seal and write, read and unseal | SGX, the file system | what is read is one sealing, whole |
| Trials and examples (`certtest*`, `openssh`, `web`, signing trials) | | | | left out |

What is hard here is not concurrency inside a program (each is one thread) but
everything around it: several clients and a daemon that serves one connection to
its end; programs that exit, are killed or are restarted at any step; a stream socket
that cuts messages; error results kept in unsigned variables; buffers that keep the
value of an earlier request when a call fails; /proc read piece by piece while
processes come and go; a cache that outlives what it describes; files that several
programs rewrite in parts; results that are bits of several checks; callbacks that
OpenSSL calls for several sessions with global state; two programs that wait for each
other's last message. `PROJECT.json` lists these hazards at their lines, with the
properties that cover them.

## 2. Modules

| Module | What it is |
|---|---|
| `TpmDaemon` | the daemon, its clients, their sockets and the processes, at the grain of one packet part |
| `EvidenceService` | the abstract promise: a call is answered at most once, about its caller, and the answer is never taken back |
| `SockStream` | sock_send and sock_recv, byte by byte, with size_t arithmetic modulo `SizeMax + 1` |
| `MeasureCache` | the measurement of one process, step by step, with the table of digests, beside processes and files that change |
| `ProcChain` | the walk over the ancestors of a process, beside processes that fork, exec, end and are reparented |
| `PicaPolicy` | policy texts, the hash table and the comparisons with chains and users, as operators |
| `PicaVerify` | runs of both PICA programs, from the options to the report; uses `PicaPolicy` |
| `ConfFile` | the plain configuration file, write by write, with its three writers |
| `SealedConf` | the sealed configuration file with its writers and readers |
| `RaEvidence` | making and judging certificates with evidence, as operators with sets of outcomes |
| `TlsRa` | handshakes with attestation, several per process, with the daemons of the machines; uses `RaEvidence` |
| `TlsProgram` | the three pairs of programs with their options, messages, shutdown and end |
| `TransferProofs` | theorems about `SockStream` and `TlsProgram`: what a reader is given of what a writer sent |
| `...Proofs` | theorems about the module they are named after |
| `MC...` | constants of the small instances |

Operators whose comment begins with "Mutant", or says "a mutant", are wrong
variants of the definition after them. Nothing uses them: they are there to be
put in its place, to see that a property notices.

### TpmDaemon

*Processes and calls.* A call is one use of a client function. Its nonce is
fresh, so that the call is its own nonce; `Junk` is a nonce nobody sent. A process
makes its calls one after the other and, as in the code, closes no connection
before it exits.

*Channel.* `rxd[c]` and `rxc[c]` are the packets in flight on the connection of
call `c`. A request is one element (one sock_send), a reply two, header and
payload. When a process ends the kernel closes its ends (`Terminate`, `Stop`); an
end that still had data to read, or was never accepted, leaves an ECONNRESET at
the other (`resetD`, `resetC`), otherwise there is an end of stream once the
queue is empty. A write to a closed end is SIGPIPE, which no program handles.

*Daemon.* `dpc[d]` is the place in `tpmddaemon`: `accept`, `read` (in
readpacket), `head` and `body` (about to send either part), `hung` (in the walk of
mycbor_pack_procchain), `ended` or `killed`. `apphash[d]`, `lastq[d]` and `slot[d]` keep
what the stack slots of the measurement, the quote and the unsealed nonce hold between
connections and requests, since all three are read when the call that should fill them
fails. `table[d]` is `filepath_htable`, whose key for an executable is `/proc/<pid>/exe`:
it outlives the process, and `Pid` gives several processes one number. `path` is the
file name: `Start` binds it; `StartFails` is the error path, where sock is -1, `if (sock)`
is true, and the name of the *running* daemon is unlinked.

*Measuring.* `Measured` is the call of sha256_pid at accept, whose result is not looked at:
the digest is that of the table's entry if there is one, else that of the process that
has the number, else what the peer before left in the buffer. An entry whose file could
not be read is there too, and empty. With as many connections as descriptors nothing under
`/proc` opens, and neither does the TPM (`NoneLeft`).

*Unsealing.* `SGXENV` is always defined (`tpm2/tpmdaemon.c:5`): an attest request carries
a sealed nonce. `Unsealed` has the nonces that may be quoted: the caller's; zeros, when the
data was not sealed by this enclave, as test_tpmd sends it; or, when the enclave does not
answer, what the slot holds, which may be the nonce of an earlier request. The records of
replies say which (`unsealed`, `measured`); these two fields are not in the bytes.

*Steps.* What the daemon does between two system calls on sockets is one step:
`ReadRequest` includes the quote and the assembly of the reply. Where the code
uses memory it did not initialise the step chooses any outcome: `RecvHeadReset`
and `ReadReset` follow a sock_recv that returned 0 after
ECONNRESET; `QuoteOutcomes` a quote that failed.

*Faults* are switched on by the constant `Faults`: `client` (killed at any step),
`daemon` (killed), `tpm` (a TPM command fails), `alloc` (no reply can be
serialised: TPMD_AUX_ERR), `measure` (an executable cannot be read), `unseal` (the
enclave does not answer), `walk` (the walk over the parents of a client meets a process
that has ended, or the parent 0, and does not end, also while the client waits).

Abstracted: the bytes of nonces, quotes and CBOR maps. Only the two reply sizes "fits" and "does not" matter. `test_tpmd`
continues after a failed receive, only to print; here its call has failed, and it
exits once it has been given its line of input.

### SockStream

All bytes of all messages are numbered; message `i` consists of the bytes
`Start[i] .. Start[i+1]-1`, and the reader asks for the same sizes, as header and
payload do. `Add` is `totsz += sz`; the -1 of an error is `SizeMax`. `write` and
`recv` take any number of bytes. `erred` only records that a call has failed.

### MeasureCache

The content of a file is its digest. A process is the executable it was started
from, the content of it that it runs, and the contents it has mapped; `Upgrade`
replaces a file on the disk and leaves the running processes what they have.
`job` is the call of mycbor_sha256_binaries under way, with one action per access
to /proc: `MeasureExe`, `ReadPath`, `OpenMaps`, `MeasureLib` once per library,
`Finish`. `table` is `filepath_htable`: an entry is made before the file is
opened, and remains `Zero` when that fails. `clean` and `fresh` in a job record,
for the properties, that the process stayed and was read without failure, and
that no digest came from the table. The list of maps is read at once.

### ProcChain

A process has a parent, a program, a user, and `line`, its creators up to the first
child of init. `Exit` gives the children to init, as the kernel does. The walk has one
action per access to /proc: the executable, the opening of the status file, its
fields; a record is then put at the front of the list. What a failed call leaves
unset is any value, or what the call for the process before left in the same place
(`Left`). `ppid` is not set when the first process is gone: the walk may then go to
any pid, or for ever. `Measure` looks the executable up in the table of digests first, whose
entries are made by earlier walks and by the connections of the daemon (`Accept`) and
stay when the pid comes to name another process or program; `stale` records the pids whose
entry is so outdated, or empty. `touched` records the pids that name another process or
program than at the beginning of the walk. A process may have its parent outside the
daemon's pid namespace, which is the number 0 (`Outside`). `Exit` gives children to init
only: subreapers are not modelled, under which a walk would go on to another ancestor.

### PicaPolicy and PicaVerify

A policy text is a list of members in the order of the text, with values of any JSON
type, since the parsers go through it in that order and look at the types one by one.
`pica_htable` is a function from buckets to lists; `Hash` is a constant, so that paths
share buckets. What json-c returns for a wrong type, and what the code does with it
(abort, a statement without chains, a read through NULL), are in `ParsePolicy`,
`LengthAborts` and `PolicyCrashes`. `CheckIchain` and `CheckUids` have a set of
results, since they read past the end of a list, or memory that was never set, in some cases.

A run of `PicaVerify` is one execution of either program (`variant`), from `Start` to
its result: the configuration, the policy, the measurement, the quote, then either the
registration or the comparisons. Two runs share the configuration file, the daemon
and the programs they are about, which `Change` exchanges. `Answer` is the daemon seen
from here: a quote for this call, the quote of the call before, an empty one, a reply
that does not fit, or none. After one that does not fit pica_poc goes on with the zeros of
its buffer, and picatest's host part aborts (`Aborts`).

### ConfFile and SealedConf

The file is a sequence of units: one for the header, two for a process, one for the
digest of a library, one for a name. Each of the three writers computes the positions
it stores in its own arithmetic, and each of the readers computes with them:
`build_conf` of the library checks the size of the file first, the others do not.
conftool writes through the buffer of a stream, so that the file grows by pieces of
any length in `BufLens`; picatest writes four parts over the file without truncating
it; the library writes once. `intact` says that the last writer was alone and came to its
end, `version` what it meant. Without a file, or with one that read_conf refuses,
append_conf of conftool uses a number of processes and a pointer that were never set: it
makes a new list, ends, or writes what is no process (`Unset`).

In `SealedConf` the units of a file belong to a sealing. A write may be short; the
readers take the size of the file and then its content in two steps, with writers in
between. `Data` are registrations, of different lengths; `sealtest` has room for some of them
only (`Outd`).

### RaEvidence and TlsRa

A key pair belongs to a process and a handshake; a nonce is one of the two randoms of
a handshake. Claims bind the two, a quote covers claims, a certificate has a key and
evidence as its extension. Each function of `libintel`, `libtpm2` and `libcert`
on the way is an operator whose value is the set of its outcomes: what is left unset by
a failure, what its caller does with that, and whether the process dies. The host
build's evidence is "Not yet implemented"; evidence of an SGX build without a TPM has
no nonce, so that no server accepts it. A certificate has its evidence and the older
quote as extensions at certain indices: verify_contents goes through `verify_tab`, in which an
extension at index 0 counts as not found (`Found`); it verifies evidence, accepts any quote
where there is no evidence (`verify_SGX_quote`), and where there is neither returns the length of a key,
which has the bit of verified evidence. libcert puts the two behind three other
extensions (`AfterRest`); `Plain` has certificates from elsewhere, with any indices.
Judging goes through `verify_cert` and OpenSSL's callback: `verify_cert` returns -1,
which has every bit, for a certificate whose dates do not verify, and it is
OpenSSL's second call that refuses it. The signature of a self-signed certificate is not checked
by either. The nonce in the claims is compared after it was copied into a buffer that is not
initialised: claims without one may compare as anything (`OutNonces`).

In `TlsRa` each callback is an action: `OnClientHello`, `ClientVerify`,
`OnClientCert`, `ServerVerify`. With -D the process waits in one of them for the
daemon of its machine (`asks`, `FromDaemon`). The daemon serves a connection until its
peer ends, and the ocall never closes one: a process started with -D that
makes a second handshake, or a server and a client with -D on one machine, wait for
ever (`holder`). `UseKnownCert` is a client that has been given a certificate: its own
of an earlier handshake, possibly out of date, or one from elsewhere. The client does
not verify the evidence in the server's certificate (`src/libcert.c:611-613`, a
FIXME), and goes round its error path, freeing twice, when the connection fails
(`ConnectFails`).

### TlsProgram

What the library's callbacks decide is here a set of verdicts; the question is the
programs. They are built from one set of actions with parameters, since they are
three versions of one text: `EnclaveServer`, `HostServer`, `SampleServer` and their clients
say in which order and with which outcome of a failed bind, connect or file. They
read and write by TLS, on the bare socket after the handshake (-t 1), or with a
cipher of their own (-t 2). A message on the wire is two units, three as a TLS record,
and `read` may cut it. `Shutdown` and `AwaitPeer` are myssl_shutdown, which sends
close_notify and waits for the peer's. A write to a dead connection may be SIGPIPE.
Since one module has the theorems of `SockStream` too, the definitions of `TlsProgram` that
both would have bear a name of their own: `ProgramInit`, `ProgramNext`, `ProgramTypeOK`,
`ClientWrite`.

With -t 2 main drops the count of errors (`MyRead`). The three socket libraries differ: that of `src` returns a descriptor after a
failed bind or connect, so that accept or SSL_connect fails later; those of `test` and
`tlssample` return -1.

## 3. Runs

| Run | Instance | Shows |
|---|---|---|
| `TpmDaemonFaults` | 3 processes with one call each (pica, attest, test), 2 daemons, 2 descriptors, backlog 2, replies of 2 sizes, faults `client`, `daemon`, `alloc` (1.5 million states) | `TypeOK`; `InStep`: a payload is never read as a header; `NoneAbandoned`; `DeadNameWasKilled` |
| `TpmDaemonEvidence` | 4 calls of 3 processes, one of which makes a pica and an attest call, one with the number of the first; 1 daemon, 3 descriptors, replies of 2 sizes, faults `tpm`, `measure`, `unseal`, `walk`, `daemon` (180,000 states) | `AnswersMatch`: in which ways evidence can be about another process or request; `ServiceSpec`: refinement of `EvidenceService`; `EveryCallReturns`, or its daemon is stuck |
| `SockStreamFaults` | messages of 2, 3 and 2 bytes, size_t of 3 bits, every fault | `TypeOK` (no transfer outside the buffer), `Delivered`, `DamageIsLast`, `AllDelivered` |
| `MeasureWorld` | 2 pids, 2 programs that share a library, 2 starts or execve, 1 upgrade, every fault | `TypeOK`; `ExeTrue`: what sha256_pid reads is the running image, whatever happens to the file; `FreshIsTrue`: what is wrong in a report came from the table |
| `ProcChainWorld` | 3 pids, 3 forks, 1 execve, 2 programs, memory for 3 records, walks and connections before a walk, ends and reuse, failing reads, parents outside the namespace (3.8 million states) | `TypeOK`; `Lineage`: a walk that met no reuse gives ancestors of its process, in order; `RecordsTrue`: records of processes that are still there are true, but for an outdated or empty entry of the table; `VisitedOnce`: the walk comes to no pid twice unless it stands still |
| `PicaVerifyRuns` | 2 runs of either program, 6 chains, 15 policy texts, 4 key files, every reply, 1 exchange (3.5 million states) | `TypeOK`; `TableIsMap`; `SuccessIsRegistered`, `SuccessIsListed`, `SuccessHasUsers`: what a success means, in terms of what was registered and of the text of the policy; `QuoteIsVerified`; `FreshIsFresh`; `RefusedWithReason` |
| `PicaFresh` | the same, pica_poc only | violated: `SuccessIsFresh` |
| `ConfFileFaults` | 3 writers of any kind, killed and overlapping, up to 3 processes in the file (1.1 million states) | `TypeOK`; `WholeIsVersion`; `HalfIsRefused` |
| `SealedConfFaults` | 3 writers and a reader, registrations of 2 lengths, kills, short writes, overlaps (2.8 million states) | `QuietRead`: a file at rest is read as it was sealed |
| `TlsRaFaults` | a server in every mode, with -D, a client with its TPM and 2 handshakes, one without and 1, certificates from elsewhere, every fault but `qve` (2.2 million states) | `TypeOK`; `AcceptedIsOwn`: evidence that was found was made for this handshake; `AcceptedInDate`; `OwnNotRefused` |
| `TlsRaLive` | 3 clients of different builds, 2 of which share a daemon, whose calls fail, end the program or send what is too long | `Settles`: a handshake that has begun is judged or broken off |
| `TlsProgramRuns` | one pair of programs with every option and fault, or a plain pair beside another server or client | `ProgramTypeOK`: a connection is in the queue of its server or accepted by it, and no more is read than was told; `SuccessIsWhole`: what a server that says Success has read is what was sent, between programs that both use TLS or both the bare socket; `ExchangeEnds` |

`PicaFresh` is a disagreement between the code and what it says. There are more, stated as formulas
of the modules that TLC refutes on the instances of these runs: see section 6.

*Bounds, and why they are enough.* Three clients of the daemon are one that is served,
one that waits in the backlog and one more that meets a full descriptor table; the
three kinds cover the client functions. Two daemons give a restart and a second instance
started beside the first. With `MaxFd = 2` the third accept fails. What the daemon keeps
from one connection to the next does not depend on restarts, so `TpmDaemonEvidence` has one
daemon, and four calls: two of one process, since the second waits for the first connection, one
with its own number, and one with the number of the first; with `MaxFd = 3` the third connection
finds no descriptor for a measurement, and the fourth ends the daemon. Sizes 1 and 2
with a buffer of 1 are a reply that fits and one that does not. In `SockStream`
every split of every message occurs, `SizeMax` is just above the largest message so that
every wrap-around occurs, and `MaxStream = 8` lets a failed write repeat a byte.
In `MeasureCache` two processes with one shared library are the least in which an
entry made for one serves the other. In `ProcChain` three generations give an ancestor
in the middle that ends, and `MaxChain = 3` a walk that runs out of memory; one walk or
connection before it fills the table, and a pid that is used again or an execve outdates it. A
walk of three records can stand still in the middle and go round two processes. In
`PicaVerify` the chains differ from the registered one in one respect each (executable,
library, a library of another name, user, length), the texts of the policy in one
respect each; two paths share a bucket and one does not; two runs are a registration
before or during a verification, or two verifications with each other's quote.
In `ConfFile` three writers are one that is killed, one that writes over what it left
and one in between. In `TlsRa` two handshakes of one client are what a left-over pointer
or a kept certificate needs, the third is that of another process. In `TlsProgram`
counts of 1 and 2 messages give too few, enough and too many; `Alone` and
`Together` of `MCTlsProgram` keep every option from being combined with a second pair.

*Symmetry.* The writers of the runs of `ConfFile` and `SealedConf`, the clients of `PicaVerify` and the
pids of `ProcChainWorld` are alike, and the properties of these runs are invariants.

*Fairness.* `FairSpec` of `TpmDaemon` has weak fairness of each daemon's steps, of
each client's steps once it is connected, of the next call of a program that has made one,
and of the exit of a program whose calls have returned: each is one thread that the
kernel schedules. Nobody has to start or kill a daemon, run a program, or inject a fault. `SockStream` has weak fairness of
the writer's and of the reader's calls, and none of closing or failing; `TlsRa` of the callbacks of a handshake that has begun, of
the daemon and of the end of programs, and none of beginning a handshake;
`TlsProgram` of each program as a whole.
`EveryCallReturns` is checked without `alloc` and killed clients: with an empty payload a client may
wait in a recv of 0 bytes. `Stuck` is what a call may wait for nevertheless: a daemon in an endless walk, or one that
serves a process that waits in another call to it. `Settles` is checked with the server outside the group of processes started
with -D, and one handshake for each client in it, for the reason given under `TlsRa`: the waiting
there is the code's, and excluded by the instance. The waiting in myssl_shutdown is in `TlsProgram`. `ExchangeEnds` asks nothing of a server
that was told to read two or more messages without TLS than its client sends (`Enough`):
it waits for a message and its client in SSL_shutdown for the server.

Deadlock is not checked: programs end, and some runs end by the bounds on what the
world around them does.

*What the properties leave open.* `DamageIsLast` lets the last buffer be damaged after any failed
call, also one that wrote everything. `RefusedWithReason` asks for the first chain of a statement,
since a later one cannot succeed. `FreshIsFresh` is about a bit that picatest computes and its
report does not ask for. `SuccessHasUsers` is about statements with a list of users: without one,
memory that was never set is compared. `AcceptedIsOwn` is about evidence that verify_contents finds.
`ExeTrue` and `FreshIsTrue` speak of reports without an outdated entry of the table; that
such entries are used is `LibsTrue` and `DigestOfPath`, which are false.

## 4. Proofs

`TpmDaemonProofs`, for any number of processes, calls and daemons, any limits and
any reply sizes:

* `TypeCorrect`: `Spec => []TypeOK`. The invariant `TypeInv` adds to the types that
  a daemon past its first accept has a connection (`ServesOne`), without which
  `Owner[con[d]]` has no meaning.
* `AnswersCorrect`: `Spec => []AnswersMatch`, with every fault. `AnswersMatch` speaks of
  replies in flight and returned; it is not inductive, as a reply comes from the daemon's
  variables, and these survive from one connection to the next. `AnswersInv` adds: no two
  processes run with one number (`OneRunning`); a request carries the nonce of its
  connection (`OwnNonce`), is sent once and is the last packet of it (`RequestLast`); the quotes and nonces
  that a daemon kept are not of a call whose request is still to be read
  (`UsedNonces`), so that what an old slot holds cannot pass for the caller's; `apphash` is the
  peer's if it was read for this connection and the peer still runs (`PeerMeasured`); a reply being written is an
  answer for the connection if its client is still there (`WritesAnswer`); a call has a
  reply only if it succeeded (`GotNothing`). The steps are proved one action at a time.
* `ServiceCorrect`: `Spec => Service!Spec`, with the refinement mapping `Stage`. Connect
  maps to Ask, RecvBody to Answer, a return of 0 without a reply to Empty, every other
  failing return to Fail, and all other steps to stuttering; that an answer fits
  its call is `AnswersInv`.
* `NotAbandonedCorrect`: `Spec => []NoneAbandoned`. `Queued` adds that a connection in
  the backlog of a daemon leads to it and has been made, and that an accepted one leads
  to a daemon that was started; it is why a new call cannot be on a connection that a
  daemon already has behind it.
* `DeadNameCorrect`: `Spec => []DeadNameWasKilled`, inductive with the types.
* `InStepCorrect`: `Spec => []InStep`. What `InStep` says of the frames on their way to
  a client depends on what the daemon is about to write. `Tracked` follows a request: while
  its client waits it is the last packet on the way to the daemon, or one daemon is
  writing the reply, and what that daemon writes next fits what the client has read so
  far. That it is one daemon is `Serves`: a daemon writes to a connection that leads to it.

`TransferProofs`, about `SockStream`, for any list of message sizes, any `SizeMax` above
them, and all faults:

* `TypeCorrect`: `totsz` never passes the size of its message. The case that needs
  an argument is an error: `t + SizeMax` modulo `SizeMax + 1` is `t - 1`, or
  `SizeMax` when `t` is 0, which ends the loop (`AddError`).
* `DeliveredCorrect`: `Spec => []Delivered`. The strengthening `InOrder` says, as
  long as no call has failed, that the stream is the bytes 0, 1, 2, ... up to the
  sender's place, that the reader stands where its count says, and that the bytes
  below `totsz` are in the buffer.
* `DamageCorrect`: `Spec => []DamageIsLast`. Either the count of the reader agrees with
  its place in the stream (`Aligned`), or its recv has failed and nothing more will come
  (`Drained`): `Aligned` alone is what a failed call breaks.

`TransferProofs`, about `TlsProgram`, for any number of servers and clients, whatever they
are told (`ProgramAssumption`: a number of messages is a natural number; one below 0 does what
0 does), and all faults; no proof here uses `StreamAssumption`. `ProgramInv` holds on the instance of `TlsProgramRuns` (570,000
states), and has

* of each server (`ServerOK`, `QueueOK`): a server that has not begun to read has read nothing,
  one that serves has accepted a client, and the connections in its queue and the accepted
  one are its own and different, which the accept from a queue needs;
* of each client (`ClientOK`): what is on its connection is in the order in which a program
  writes it (`WireOK`: the hello, the answer of the handshake, the messages from the first
  on with their units in order, close_notify), and as long as the connection is not dead, its end is
  what the client has written last;
* of a server and the client it has accepted (`PeersOK`): while no error is counted and both use
  TLS or both the bare socket, what was read is the first messages, what comes next on the
  wire is the next one or close_notify, and if nothing is on the wire, the client has written as
  many messages as were read. The last two are what makes a read that was cut, a
  reset that lost what was sent and a client that sent fewer messages count as errors; the wire that
  is empty is what the next write of the client needs.

A step of a server leaves the other servers alone since a connection leads to one of
them (`ServerFrame`), a step of a client the other connections (`ClientFrame`); with these there
is one lemma for each action.

* `ProgramTypeCorrect`: `ProgramSpec => []ProgramTypeOK`.
* `SuccessCorrect`: `ProgramSpec => []SuccessIsWhole`.

`MeasureCacheProofs`, for any processes, programs, libraries and contents, all faults
and any interleaving with a measurement:

* `TypeCorrect`: `Spec => []TypeOK`. The libraries of a job are known only from
  `OpenMaps` on (`NoLibsYet`).
* `FreshCorrect`: `Spec => []FreshIsTrue`. `FollowsSubject` says that, while a job is
  clean, its process is still the one the call is about, and that the digest and the path
  read so far are those of that process unless they came from the table;
  `FollowsLibs` says it of the libraries on the list and in the report.
* `ExeCorrect`: `Spec => []ExeTrue`. The entries of the table outlive the processes.
  `PidsCounted` relates the programs started to the pids used, so that, as long as they
  are equally many, a pid has had one program only; `EntriesTrue` says that the entry of a pid
  is then the image of the process that has it, or zeros; `DigestTrue` says it of the
  job. That counting is what needs the theorems about finite sets.

`TlsRaProofs`, for any processes, builds, options, files, handshakes and faults that
satisfy `PlatformAssumption` and `PlainAssumption`:

* `TypeCorrect`: `Spec => []TypeOK`. The types are inductive only together with the
  state of the daemons: the daemon of a machine is held by a process of it that is running
  (`Held`), a process waits in one callback at a time (`OneAtATime`), and the
  handshake it waits in is one it takes part in (`Waits`).
* `OwnEvidenceCorrect`: `Spec => []AcceptedIsOwn`. A client may send a certificate, or
  evidence left in an uninitialised pointer, from another handshake, and nothing in the
  certificate says which. The invariant `Certs` says that before the client sends a
  certificate there is none (`NoneYet`), that each has the parts of one (`Shaped`), and
  that evidence with a TPM quote and the nonce of a handshake was made in it, for the key made in it,
  wherever it turns up (`NonceIsBound`). The other half is the judging, from lemmas
  about the operators of `RaEvidence`: where the server finds evidence with a TPM quote it accepts
  none without its nonce. Certificates from elsewhere have no evidence of ours, and any indices
  (`PlainAssumption`).
* `InDateCorrect`: `Spec => []AcceptedInDate`, a part of the same invariant.

`ProcChainProofs`, for any processes, users and programs, any memory and all faults:

* `TypeCorrect`: `Spec => []TypeOK`. The domain of the record `walk` is part of the
  invariant (`TypeInv`).
* `RecordsCorrect`: `Spec => []RecordsTrue`. `TableInv` says that an entry of a pid that is there is
  that of its program unless the pid is in `stale`; `RecordsInv` says the same as the property of
  every record made so far, and of what has been read of the process the walk is at: a process
  that is there without a mark was there at each of the reads.
* `LineageCorrect`: `Spec => []Lineage`. The creators of a process are its `line`;
  `Family` says that a parent other than init is there and has the rest of the
  line, and `Known` that, as long as no pid is used twice, every pid of a line has the rest as its
  line or nobody. `TrackInv` follows the walk: it is on the line (`OnTrack`: the list is
  the end of the line backwards, and the parent just read is next on it, init,
  or gone), or it stands at a pid under which nothing is found, takes that for its own
  parent, and cannot end (`Lost`). That pids are not used twice is a count, the
  number of births against that of pids (`Counted`).
* `OnceCorrect`: `Spec => []VisitedOnce`. `WayInv` says that every process that the walk has left
  is behind the one it stands at (`Behind`): it is another, and it has ended or is no creator of
  that one, or nothing is found there any more. The parent that is read is the first of the line, whose
  rest is the line of the parent (`ParentAhead`).

`SealedConfProofs`, for any writers, readers and registrations of any length, and all
faults:

* `QuietReadCorrect`: `Spec => []QuietRead`. Between two readers the file is described by
  `Calm`: if its last writer left it whole, nobody writes, and it begins with what that writer
  sealed. That a writer can leave it so is `Written`, the file has what a writer that is
  alone has written so far, with `Exclusive`, nobody else writes then. `Follows` says that
  a reader that was not disturbed has read the beginning of that file.

`PicaVerifyProofs`, for any number of runs, any chains, policy texts, hash function
and exchanges of programs, under `VerifyAssumption` and `PolicyAssumption` (which say
that chains and the arrays of a text are finite lists, that a chain is not empty, and
what the other constants may be). `Inv` says of each run, in terms of the program,
the files and what has been registered so far:

* `TableInv`: the statements are what the parsers make of the policy, and the table has
  the processes of the configuration and these statements only, one entry for a type
  and a path and that in the bucket of its path (`Tables`). A registration keeps
  this wherever the hash sends a path (`Registers`), and so does registering a list of any
  length (`RegistersAll`); what was registered is found (`Finds`). `TableCorrect`: `Spec => []TableIsMap`.
* `ReplyInv`: a run has processes only from a reply that has a quote, in pica_poc one that
  was verified, and the bit for freshness only for its own. `QuoteCorrect`,
  `FreshCorrect`: `Spec => []QuoteIsVerified`, `Spec => []FreshIsFresh`. That no
  early return leads past the check is seen only with the place of the run in the
  invariant: `body` is unset up to the quote.
* `JudgeInv`: the bits of the comparisons are not there before the comparisons, the
  statement is one of the policy and is about the client, and a result is what the
  comparisons say. Since the table outlives the check, `SuccessIsRegistered` needs
  that everything registered stays registered (`RunInvGrows`), and
  `SuccessIsListed` and `SuccessHasUsers` need lemmas that lead from what is compared back
  to the text of the policy, member by member (`StatementIs` and those after it).
  `RegisteredCorrect`, `UsersCorrect`, `ListedCorrect`, and `RefusalCorrect`, the other
  direction: what was loaded, with the users and the first chain of its statement, passes
  every comparison.
* `TypeCorrect`: `Spec => []TypeOK`, with `ModeInv`, that registering and verifying
  are not mixed.

`ConfFileProofs`, for any processes with any number of libraries, any files, buffer
sizes, writers and faults, under `ConfAssumption`:

* What is written is read back. The writers place digests by running counts of the
  libraries before them, and the readers find them by counts of their own. `Before` is
  a recursive function; `BeforeIs` says that it is the sum of the counts, `OwnerIs` that every
  place among the digests belongs to one library of one process, `UnitsAre` what is at each
  place of a file, and `ReadBack` that `ReadUnchecked` of the units of a list is that list.
  `ShortIsRefused`: a file that is shorter than its header says is refused by `build_conf`.
  Facts about all lengths are proved from the least counterexample (`LeastOf`, from the
  well-foundedness of `<`): the induction theorems themselves cannot be applied.
* `Inv`: of each writer, what it has still to write is the end of the units it
  means, and picatest is in front of one of its four calls (`ShapeInv`); as long as it is alone, what
  it has written is in the file, and conftool's file has no more (`WrittenInv`); conftool
  means to add one process to a whole file (`AddsInv`); a file is whole only while conftool does
  not write (`QuietInv`). Of the file, that it agrees with the last version when it is whole
  (`FileInv`). A writer that is alone is the only one under way (`AloneInv`). Before it was
  proved, TLC found `Inv` to hold on the instance of `ConfFileFaults`. There is one lemma for each action.
* `TypeCorrect`: `Spec => []TypeOK`. `WholeCorrect`: `Spec => []WholeIsVersion`, by
  `FileInv` and `ReadBack`. `HalfCorrect`: `Spec => []HalfIsRefused`; it is inductive only with
  `WrittenInv`, since a writer over the file that another left makes a mixture, and
  that the mixture is refused or one of the lists depends on how far it has come.
`TlsRaProofs` has also `NotRefusedCorrect`: `Spec => []OwnNotRefused`, the other direction of
`AcceptedIsOwn`, from `GoodEvidence` and `GoodAccepted`, which go through every check of
the verifier; it assumes `MachineAssumption`, that no machine has the name that stands
for a missing ak_pub.pem.

Only model-checked: the liveness properties (`EveryCallReturns`, `AllDelivered`, `Settles`,
`ExchangeEnds`), which need fairness, out of the prover's reach. `SuccessIsFresh` is
false of the code, and so are the formulas of section 6. `SuccessCorrect` leaves out what `SuccessIsWhole` does: -t 2, and
programs told different modes, which say Success over anything.

## 5. What could be done next

* Evidence in `TlsRa` is that of the daemon by its outcomes; a composition with
  `EvidenceService` would replace them by its calls.
* `MeasureCache` and `ProcChain` have the same processes; a composition would let the
  digests of a chain come from one table while the chain is walked.

## 6. Where the code and its documentation differ

With a run, `PicaFresh`:

* pica_verify_tpm2all says "freshness has been verified" (`src/libpica_clnt.c:1403`) when the
  signature of the quote is, and check_apphash, which compares the hash over the nonce,
  returns 0 whether they are equal or not (1361-1368); a verification succeeds with the quote
  of an earlier call. In picatest the corresponding bit is right (`FreshIsFresh`), but
  its report does not ask for it.

Stated in a module, as what the repository says, and refuted by TLC when the formula takes the place of
the properties of the run that is named:

* `SuccessHasLibraries`, `PicaVerifyRuns`: pica_verify_binaries is to verify "all binaries, including
  shared libraries" (`src/libpica_clnt.c:657`); a library that is not registered is accepted when the
  counts agree (633-650).
* `SuccessHasReply`, `TpmDaemonEvidence`: pica_request_measure returns 0 without a reply when it is longer
  than the buffer, after "ABORT !!!" (`src/libpica_clnt.c:929-940`); ocall_pica_measure aborts
  there. `*sz` is then not that of the caller's buffer either.
* `OkHasQuote`, `TpmDaemonEvidence`: TPMD_AUX_OK without a quote, where `tpm2/tpmdaemon.h:4-6` has one: `err`
  is 0 from make_sig_scheme on (`tpm2/libquote.c:305`), and the result of make_tpm2_quote_with_pid is
  not looked at (`tpm2/tpmdaemon.c:434`).
* `WholeIsAccepted`, `ConfFileFaults`: a chain that the library registers over a longer one is refused
  as a file whose "size is short" (`src/libpica_clnt.c:108`, `:73`).
* `AppendCreates`, `ConfFileFaults`: conftool -a where there is no file: "create file"
  (`src/conftool.c:237`) is an empty branch.
* `DoneIsStored`, `SealedConfFaults`: file_seal_write returns 0 after a short write (`src/libio.c:326`), and
  reg_config says "Cannot write a file" for a negative result only (`src/libpica_clnt.c:200`).
* `AcceptedHasEvidence`, `TlsRaFaults`: "Server verifies the attestation evidence contained in client
  certifate" (`src/libcert.c:616`); without evidence verify_contents returns the length of a key,
  which has the bit of verified evidence.
* `TpmQuoteVerified`, `TlsRaFaults` with `VerifierFiles <- OtherFiles`: "TPM2 Quote is verified using"
  ak_pub.pem (`tls_sgx/Host/tpm2.c:319`), but `rc = 0` (433) replaces the result of the signature.
* `MyEncIsWhole`, `TlsProgramRuns`: main drops the errors that myread counts
  (`tlssample/tlsserver.c:336`), and says Success over a message that was cut.
* `LibsTrue` and `DigestOfPath`, `MeasureWorld`: the digests that outlive their files.

Seen in the models and the source:

* When unsealing a configuration fails the length is returned without a buffer, and
  pica_read_config goes on; the tool ignores the result of ecall_unseal and shows no processes,
  and without a file shows variables it has not set. sealtest -u copies what it unsealed into
  1024 bytes, whatever its length. conftool -a on the sealed file is "not yet implemented".
* Programs: -t is read and not used by the enclave's server; a host server with -t 1
  and a client by TLS report success over ciphertext (`SuccessIsWhole` compares equal
  modes only); with -C the callback that judges evidence is replaced, and no client with a
  self-signed certificate is accepted; a sample client with -a sends no certificate,
  where the text says a registered key pair (`tlssample/tlsclient.c:248`); the
  sample server with `-r -C` has no CA to verify a client with.

## 7. Not modelled

SGX itself, OpenSSL, tpm2-tss, libcbor and json-c are external: the models have
their outcomes as the code uses them. Hash functions are taken as injective, the
bucket structure of `filepath_htable` as a map. The key of a library is cut at the length
of its map_files name (`src/libmeasure.c:202`), which depends on bytes beyond a string
and is left out. The wrappers that let an enclave call the C library, the dumps, the
measurements of time, the byte layout of DER, PEM and CBOR and the ESYS calls before a quote
are left out. `TLSRA_X509_write` and its like are called only by the test in
`src/libcert.c`, which does not compile any more. `certtest*`, `openssh`, `web` and the
signing trials are examples and measurements, not part of the system.
