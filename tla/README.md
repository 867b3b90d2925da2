# A TLA+ model of the License Manager C++ SDK

The SDK activates a product license online, verifies it, keeps it on disk, and
renews it by heartbeats. This directory holds TLA+ modules for the parts of it
that are hard to test, TLC configurations that check them on small instances,
and TLAPS proofs that hold for every value of the constants. Paths below are
relative to the repository; line numbers are those of the code the modules were
translated from.

## The system

| Part | State it keeps | Operations | Talks to |
|---|---|---|---|
| `Client` (`src/client.cpp`) | `config_`, `current_license_`, `valid_`, `fingerprint_`, `mutex_`, the parts below | `create`, destructor, `validate`, `current_license`, `license_key`, `activate`, `send_heartbeat`, `pause_/resume_heartbeat`, `close`, `is_valid` | everything below; calls the application's callbacks |
| `HeartbeatManager` (`src/heartbeat.cpp`) | `running_`, `paused_`, `stop_requested_`, `thread_`, the interval | `start`, `stop`, `pause`, `resume`, the loop of its thread | `HeartbeatService`; calls back into `Client` on its own thread |
| `HeartbeatService`, `ActivationService` | a CURL handle | `send`, `activate` | the server |
| `Validator` (`src/validator.cpp`) | the public key | `verify_license`, `set_public_key` | nobody |
| `FileStorage` (`src/storage.cpp`) | the license file, its `.tmp` file | `save`, `load`, `remove` | the file system |
| `Client`'s key cache (`client.cpp` 314-375) | the `.pubkey` file | `read_stored_pub_key`, `save_pub_key` | the file system |
| `Config` (`include/config.hpp`) | the settings, a resolved key and code | `validate`, `resolve_*`, paths and intervals | files |
| `DefaultHardwareProvider` | the fields | `fingerprint` | the operating system |

The application's thread and the heartbeat thread both run
`apply_license_file_impl`: decode the file, perhaps install and save a new key
(activation only), verify, save the license, then take `mutex_`, assign
`current_license_` and call `on_license_updated_` under the lock. Everything
before the lock is unprotected: the validator's key, the license file with its
`.tmp` name, and the order in which saves and commits happen.

An application (`examples/basic.cpp`) creates a client at every launch, asks for
an activation code when that fails, and creates a second one with the code.

What makes it hard: two threads in that path; a key that is replaced while it is
in use; a join that waits for a callback that waits for a lock; callbacks that
call back into the client; files written by steps between which the process, or
the power, may go; configurations, pinned and unpinned, that share files; text
that is decoded by one of three decoders, stored, and decoded again; a machine
that changes between two launches; and a cache that must be readable with the
key that is on disk at the next start. `PROJECT.json` lists these hazards line by line, with the
properties that would catch each of them.

What makes each part correct, in a sentence:

- Client: only a license that verified for this machine and, when pinned, under
  the configured key, becomes current or reaches the disk; a callback sees the
  current license; calls return; no thread outlives its client; and a restart
  starts from what the last run had.
- HeartbeatManager: one thread at most; the interval is what configuration,
  server and backoff make it; no request leaves a paused or stopped manager but
  the one that had passed the checks; `stop()` returns.
- FileStorage: a file that is the old data or the new, and says which.
- Decoders: what one of them accepts means the same to the others, and what is
  accepted once is accepted at every restart.
- Fingerprint and paths: a license works on the machine it was issued for, on no
  other, and nobody is asked for a code again without a cause.

## The modules

| Module | Models |
|---|---|
| `LicenseVerifier` | license documents, `normalize_license_bytes`, the checks of `verify_license` in their order, `Client::validate`. Operators only. |
| `StorageCodec` | `maybe_encrypt`, `maybe_decrypt`: AES-GCM by its contract, given the arguments the code gives it. Operators only. |
| `LicenseClient` | the client on its two threads, the two files, the server's answers, the clock, crashes. |
| `ClientContract` | what a client promises the application: which answer goes with which license. |
| `LicenseClientRecovery` | the client with a history variable, and what its files are good for at the next start. |
| `HeartbeatContract` | what a manager promises: when a request may leave. |
| `HeartbeatManager` | the loop and its controls, shown to implement the contract. |
| `ClientSession` | the loop of `HeartbeatManager` composed with the client's calls, locks, joins and callbacks that call back. |
| `AtomicFile` | what `FileStorage` is meant to be: an atomic register of one license. |
| `FileStorage` | `write_atomic`, `load`, `remove` on inodes, shown to implement `AtomicFile` until a named damage. |
| `HardwareFingerprint` | which readings of a Linux machine the fingerprint is made of, and the text they are written into. Operators only. |
| `Application` | programs that launch, prompt and activate on a machine that changes; where their files lie. |
| `Base64` | the decoders and the trimming, character by character, in an int of fixed width. Operators only. |
| `LicenseBytes` | the text of a license from the server or a package to the file and back. |
| `*Proofs` | inductive invariants and theorems of the module they are named after. |
| `MC*` | small instances for TLC. |

`LicenseClient` extends the first two; `LicenseClientRecovery` extends it.
`ClientSession` extends `HeartbeatManager`: its thread takes the very steps that
are checked against the contract. `Application` judges licenses with the
operators of `LicenseVerifier`, and `LicenseBytes` compares them with the
characters they stand for. The operators marked `mutant` are bugs the code does
not have; the properties are checked to notice them.

### How LicenseClient corresponds to the code

`pc[t]` is where thread `t` is and `frame[t]` holds the locals of its call: which
call it is, the document being applied, the key that came with it. One step is
one access to what the threads share, or one call that leaves the process; what
lies between two such points is in the step before it.

| Step | Code |
|---|---|
| `Create(c)` | `initialize` up to line 95: `validate`, hardware, pinned check, key |
| `LoadKey`, `LoadLicense` | `load_existing_license`: key file, license file |
| `Bootstrap` | `initialize` 97-131: go live, refuse offline, or activate |
| `Activate`, `ReceiveActivation` | `perform_activation`, before and after the request; decoding |
| `InstallNewKey`, `SavePubKey` | `apply_license_file_impl` 268-292 |
| `SendHeartbeat`, `HbSend`, `ReceiveHeartbeat` | `send_heartbeat` and the loop's request |
| `Verify`, `Store` | `validate_and_store`, for loaded, activated and heartbeat licenses alike |
| `Commit`, `Notify` | the lock and the assignment; the callback and the unlock |
| `BeginClose`, `HbExit`, `Join` | `close`, the destructor, `HeartbeatManager::stop` |
| `Crash`, `Tick` | the end of the process; the clock |

Data is abstracted to what decides something. A document says how far it can be
read (`form`), how many base64 layers it has, who signed it, for which machine,
with which license key, until when. RSA is its contract: a signature verifies
under the key that made it, for either padding. The error classes of unreadable
bytes are one. A file that a failing write leaves behind is the old one, the new
one, or bytes nobody can read.

Races are choices. While the application replaces a key, a heartbeat that
verifies with it may fail, succeed, or end the process (`KeyInUseFreed`,
`Crash`). While both threads save, either may leave a mixed file (`Collides`).

`valid_` is set for good by the first `GoLive`. `Discard` is what happens to the
members when the object goes, including an object `create` never handed out.

`KeepsContract` hides all of this behind `ClientContract`: an answer of `create`
or `activate` is "ok" only when a license was put in place by that very call, and
an error leaves the license as it was, up to what the heartbeat thread renews
meanwhile. The mapping needs no history: what a call has installed follows from
where its thread is.

### HeartbeatManager

Every test of the loop is a step (`LoopTop`, `WakeUp`, `CheckStop`,
`CheckPaused`), since the controls may change between any two. `from` and
`failures` are history: they let `ExponentialBackoff` say what the interval is
without following the code's arithmetic. `start` and `stop` are called by one
thread at a time, which is how `Client` calls them; `pause` and `resume` by any.
`HeartbeatContract` is met by hiding the intervals: `armed` is the moment after
the stop check, `inFlight` the request.

### ClientSession

`stack[t]` is the call stack of a thread: the SDK's functions at the points they
have reached (`activate`, `apply`, `lock`, `unlock`, `join`, ...) and the
callbacks the application was entered through. A callback may make any call,
again and again. Licenses are applied or refused, and nothing else is said of
them. `Unwise` names the calls that cannot work with this code:

- any call but `pause_heartbeat` and `resume_heartbeat` out of
  `on_license_updated`, which runs under a lock that is not recursive;
- `close()` on the heartbeat thread, which joins itself: `std::thread::join`
  throws, through the loop into `std::terminate`, unless the callback was
  `on_public_key_updated`, around which there is a handler;
- `activate()` out of `on_activation_required` or `on_public_key_updated`, which
  comes back to the same callback for as long as the server does the same.

One of them may happen in a behaviour (`misused`); the properties say that all
other calls are safe, and how the lock comes out of the unwise ones.

### FileStorage

A save is a directory, an open that truncates whatever carries the `.tmp` name,
blocks that reach the file one at a time, a close and a rename. Reading keeps the
inode it opened. Every operation of the file system may fail, and the code looks
at some of the results: `remove` and a failing `load` report theirs, the removal
of a `.tmp` file that was not renamed does not (`Discard`), and `fclose` is not
asked. `Crash` ends any of the processes while the others go on. The kernel writes
blocks back in its own time, because nothing is synced; a power failure loses any
of those it had not written and ends every process. Names are taken to survive it:
a file system that loses a rename, too, would bring the old license back after
`save` had reported the new one. The refinement mapping reads the inode the path
names: `ImplementsAtomicFile` says that a save takes effect at the rename and at
no other instant, whatever fails and wherever a process is killed, until one of
three events the code does not make up for (`damage`): two saves overlap, fclose
fails, or the power goes before the write-back. Several of them may happen in one
behaviour. `NeverMixed` says what is left after the last two, in any number: parts
of one license, never of two.

### HardwareFingerprint and Application

A machine is what the system calls and `/proc` show: a host name, interfaces in
the kernel's order, the lines of `cpuinfo`, the memory in kB. `Fingerprint` is the
text the code computes a SHA-256 over, the fields in the order of their names,
`key=value;` each; only the hash is taken as injective. Names are texts, and
nothing is escaped: a host name with `;mac=...` in it reads like a machine with
that address. `Unambiguous` is what keeps machines apart (no separator in the host
name or the processor's name), and a condition of `NotTransferable`.

`Application` has `create_client` of the example as its steps: `Launch`,
`EnterCode`, `ReceiveLicense` (the key is installed and saved), `ApplyLicense`,
`Validate`. The first `create` has no code, so with a valid configuration every
failure ends as `config_auth_code_required` or, offline, as `no_license_loaded`:
the two errors the example prompts on. Paths are sequences of names, names
sequences of parts between dots, because `PubKeyPath` cuts at the last dot of the
whole path. License and key files belong to their paths: the example's path is
fixed (`basic.cpp` 100), so two programs may write over each other's license as
well as over each other's key. `issued` remembers for which machine the license in
a file was issued, `held` for which the one in use was; they part when another
program writes to the file. Around the programs the machine is altered or
replaced, versions come with other fields, files are deleted, and the clock moves.

The document says the key file lies "in the same directory" as the license
(`src/README.md` 161). That holds for a file name with an extension; for
`app.v1/license` it is `app.pubkey`, next to the directory, and two versions of a
program share it. `Cause` counts this, and a license file that is shared, among
the reasons to be asked again.

### Base64 and LicenseBytes

`StrictStep` is the loop of `apply_license_file_impl`, which the validator's
`base64_decode` repeats; `LenientStep` that of `normalize_license_bytes`, which
skips what it does not know. `StrictRun` and `LenientRun` are the states of the
loop after each character code of a text. `strchr` also finds the terminating zero of the table, so `IsDigit` and `Digit`
have it as a 65th digit. `Collect` is `(val << 6) | digit` modulo `IntValues`.
`LicenseBytes` sends a license that was encoded up to four times, lets it be
edited on the way, and takes it through the decoders to the file and back.
`Parses` is what `nlohmann::json::parse` (fetched by the build, not vendored)
makes of a text: it skips a byte order mark at the very start and ends at a NUL. A
license may come with such a mark, and here the code contradicts itself: under an
encoding that is stored, the mark is skipped the first time, and at the next start
`normalize_license_bytes` has taken the encoding off and `verify_license` finds a
text that does not begin with a brace. No document promises otherwise, so this is
no run of its own: it is the one exception in `ReloadsAsAccepted`.
`LayersDecide` ties it to `LicenseVerifier`, whose documents only count layers.

## The runs

| Run | Question | Result |
|---|---|---|
| `client_shared` | Types, trust, locking, threads and the client's contract with both threads, two keys, pinned and unpinned clients sharing files, a server that may serve an unparsable key | holds, 108 513 states |
| `client_setup` | What reaches the disk under every refusal of `create`, failing files and odd documents; do all calls and heartbeats end? | holds, 46 486 states |
| `recovery` | Does a client at rest restart from its files, and do they hold its license? | holds, 704 888 states |
| `heartbeat` | Thread, backoff, contract, `stop()` returns, heartbeats go on | holds, 1 508 states |
| `session` | Which calls out of callbacks deadlock, recurse or terminate, and do all others come back? | holds, 11 407 states |
| `storage` | Is the license file atomic, and until when? | holds, 919 019 states within the bound `OverlapAlone` |
| `startup` | For which machines does a license work, and when is a user asked again? | holds, 1 103 402 states |
| `base64` | Do three decoders, trimming and storing agree on a text? | holds, 422 447 states |
| `client_expiry` | Does `is_valid()` mean a valid license? | no |
| `recovery_sealed` | Can a cache written with `storage_secret` be read? | no |
| `recovery_first_activation` | Is the key of the first activation cached? | no |
| `heartbeat_reactivation` | Is a demand for reactivation reported? | no |

The last four are disagreements between the code and what it or its documentation
says; `PROJECT.json` quotes both sides. In short: `valid_` is never cleared, and
`validate()` lacks the verifier's exemption of licenses without end date; the
cipher is given no output buffer, so a sealed license is lost; `save_pub_key`
needs a directory that only the later `save` creates; and responses without a
license file skip the status check.

More the model shows without a run of its own, as the conditions of properties
that hold otherwise. Of `SurvivesRestart` and `CacheMatchesMemory` (`harm = {}`):
an unparsable key overwrites the cached one ("badKey"), a refused activation
leaves its key behind, which no longer fits the cached license until the next one
is accepted ("unmatched"), and licenses are saved before the lock is taken, so
that two threads may save in one order and commit in the other ("overlap"). Of `ImplementsAtomicFile` (`damage`): all writers share one `.tmp`
name ("overlap"), an ignored `fclose` failure publishes a partial file ("flush"),
and nothing is synced ("power"). Of `OnlyMisuseDeadlocks`: the unwise calls above.
Of `AskedForCause`: key or license files that coincide. Of `NotTransferable`: names
with a separator in them. Of `ReloadsAsAccepted`: the byte order mark. An interval above thirty minutes is
shortened by an error; the cap in `ExponentialBackoff` is the code's.

The history variable of `LicenseClientRecovery` names the five events the code
does not make up for (a failed read or write, a missing directory, an unparsable
key, a replaced key without a license for it, an overlap of both threads) and is
reset with each client. "unmatched" is put on record when the key in use changes
and taken off when the next license is accepted (`Settled`): a rotation that
succeeds, a key that is sent again, one a pinned client ignores, and a refused
activation that a later answer makes good are all within the properties.
Everything else, including rotations, heartbeats of either thread,
restarts under other configurations and crashes at any point of earlier runs, is
allowed.

### Bounds

- Two keys, two machines, one secret: enough for a key to be right or wrong, for
  a rotation and its way back, and for a license of another machine. Three keys
  would not add a relation the code can tell.
- Documents: one per outcome of the verifier and per number of base64 layers that
  decides differently (0, 1, 2, more). `client_setup` takes the malformed ones,
  `client_shared` those that get through.
- `MaxTime` 2: before and after the shortest license ends. Runs where expiry is
  not the question have a clock that stands.
- One heartbeat thread and one application thread: what the class allows.
- `HeartbeatManager`: ticks of half the minimum backoff; `MaxBackoff` is three
  times the minimum, so that doubling meets the floor, an exact power and the
  cap; four failures reach the cap from every interval. Server intervals are
  negative, zero, positive and above the cap.
- `FileStorage`: two blocks make a file that can be partial or mixed; two
  processes that write, one of which reads; two pieces of data, permuted by
  symmetry. As many inodes as can be open or named at once. After two saves have
  overlapped, other damage is not followed (`OverlapAlone`, a CONSTRAINT): both
  properties promise nothing any more then. Damage of other kinds adds up. The
  theorems know no such bound.
- `ClientSession`: every callback may make every call. `MaxDepth` 6 bounds the
  call stack, where without misuse five frames are reached: three callbacks lie
  within each other at most (`NestingIsBounded`). One unwise call in a behaviour.
  Intervals and backoff are 1 and failures are not counted: they belong to
  `heartbeat`.
- `Application`: two programs with different keys; four layouts, in which all
  files are apart, the key files coincide, or the license files do, and in the last
  of these also with one program that pins its key, as the example does
  (`basic.cpp` 105); four machines, which under one configuration or another differ
  in one reading, in several, in what counts for nothing, in what can be read at
  all, and in a host name that poses as an address; three configurations, one of
  them the default. Two changes: one and
  its undoing, or two of different kinds. Terms and clock allow a license to be
  valid and to be over. The theorems hold for any.
- `LicenseBytes`: the license is `{}`, with or without a byte order mark; four encodings are one more than any path
  accepts. Two edits, anywhere, of eight characters: a zero, a tab, a line break,
  a space, padding, a digit, a brace and a byte that is none of these. `IntValues`
  is `2^24` instead of `2^32`: the longest text has enough digits to overflow
  either. The theorems hold for any multiple of `2^14`: no bit above the 14th is
  ever read again.

`session` and `base64` switch deadlock checking off: a deadlocked or terminated
process, and a refused license, are where these systems stop. All other runs
check for deadlock.

### Fairness

`FairSpec` of the client: weak fairness of the application's and the heartbeat
thread's own steps, the receipt of an answer among them, because every request
has a `CURLOPT_TIMEOUT` (`heartbeat.cpp` 90, `activation.cpp` 97); strong
fairness of taking `mutex_`, which a thread holds for one callback and takes
again only after another round trip to the server. Nothing else is fair: the
application need not call, the heartbeat need not be due, the clock need not
move. `FairSpec` of the manager: weak fairness of the loop and of the join.
`SFairSpec` of the session: the same for the SDK's steps, the loop and the join,
strong fairness for the lock, and of callbacks only that each returns in the end,
however many calls it makes before. This is a strong fairness per depth of
nesting, so that callbacks within others do not stand in for the outer ones.

## The proofs

Eight modules hold proofs. The theorems hold for all constants that satisfy the
named assumptions: the absent value is none of the others, an unparsable text is
no key, configurations and documents have their types (`NoneAssumption`,
`CodecAssumption`, `ClientAssumption`); intervals are positive and the backoff's
limits are in order (`HeartbeatAssumption`); machines, paths and configurations
have their types, and a server is sent no text but one that is a fingerprint
(`ApplicationAssumption`); the values of an int are a multiple
of `2^14` (`IntAssumption`), the characters that get into a text are bytes
(`BytesAssumption`); there are finitely many processes,
a file has a block, and the absent value is no inode (`StorageAssumption`); the
calls of callbacks are calls, and the bound on the stack is a number
(`SessionAssumption`). Two counters of the instances are bounds in the theorems
as well, but for any value: the clock and the depth to which callbacks call.

| Module | Theorem | Property |
|---|---|---|
| `LicenseVerifierProofs` | `AcceptedExactly` | what `verify_license` accepts, exactly |
| `LicenseClientProofs` | `Invariance` | `IInv`, the inductive invariant |
| | `TypeCorrect` | `TypeOK` |
| | `PinnedKeyIsTheAnchor` | `PinnedTrust` |
| | `LiveClientIsLicensed` | `LiveHasLicense` |
| | `CallbackSeesCurrent` | `ReportedIsCurrent` |
| | `ThreadEndsWithClient` | `NoOrphanThread` |
| | `PinnedClientFiles` | `PinnedFiles` |
| | `OnlyVerifiedReachesDisk` | `OnlyVerifiedIsStored` |
| | `ImplementsContract` | `KeepsContract`, the refinement of `ClientContract` |
| `LicenseClientRecoveryProofs` | `RecoveryTypeCorrect` | `RTypeOK` |
| | `RecoveryInvariance` | `RInv`, without secrets |
| | `RestartsFromCache` | `SurvivesRestart`, without secrets |
| | `CacheIsCurrent` | `CacheMatchesMemory`, without secrets |
| `HeartbeatManagerProofs` | `Invariance` | `IInv` |
| | `TypeCorrect` | `TypeOK` |
| | `ThreadIsJoined` | `OneThread` |
| | `BackoffStaysWithin` | `BackoffIsBounded` |
| | `WaitsDouble` | `ExponentialBackoff` |
| | `ImplementsContract` | `FollowsContract`, the refinement of `HeartbeatContract` |
| `ClientSessionProofs` | `SessionInvariance` | `SInv` |
| | `SessionTypeCorrect` | `STypeOK` |
| | `LockStaysScoped` | `LockIsScoped` |
| | `MisuseAloneDeadlocks` | `OnlyMisuseDeadlocks` |
| | `NestingStaysBounded` | `NestingIsBounded` |
| | `StaysQuietAfterClose` | `QuietAfterClose` |
| `FileStorageProofs` | `Invariance` | `IInv` |
| | `TypeCorrect` | `TypeOK` |
| | `FileIsNeverMixed` | `NeverMixed` |
| | `ImplementsAtomic` | `ImplementsAtomicFile`, the refinement of `AtomicFile` |
| `ApplicationProofs` | `FingerprintsAgree` | machines whose names have no separator: the same text is hashed exactly when the same fields can be read, and read the same |
| | `Invariance` | `IInv` |
| | `TypeCorrect` | `ATypeOK` |
| | `LicensesAreBound` | `NotTransferable` |
| | `KeysAreKept` | `Recoverable` |
| | `AskedOnlyForCause` | `AskedForCause` |
| `LicenseBytesProofs` | `BytesAreTyped` | `BTypeOK` |
| | `EncodingIsUndone` | `DecodesWhatWasEncoded` |
| | `DecodersAlwaysAgree` | `DecodersAgree` |
| | `AcceptedIsReloaded` | `ReloadsAsAccepted` |
| | `LayersMayBeCounted` | `LayersDecide` |

Every inductive invariant was checked by TLC on the instance of its runs before it
was proved.

### The client

None of the properties is inductive. `PinnedTrust` says nothing of a document
that has been verified and not yet committed; `LiveHasLicense` nothing of the
steps before `valid_`; `ReportedIsCurrent` nothing of who may assign
`current_license_` without the lock. `IInv` adds what they miss:

- `Control`: which steps go with which call, that the heartbeat thread exists only
  for a client that is live, that only the join raises `stop_requested_`. The
  unlocked assignment in `load_existing_license` is harmless because there is no
  second thread yet: that is this part.
- `Locking`: a thread is in its callback exactly when it holds `mutex_`.
- `Trust`: what a thread carries past the verifier was well-formed, signed and fits
  machine and anchor, and still is when it is stored and committed; a pinned
  client never reaches the steps that replace a key.

The proof of `Inductive` has a step per action. The calls that end do so in one of
three ways (`Resume`, `GoLive`, `NoClient`), which `ReturnKeepsInvariant` treats
once. `AcceptedExactly` and `SetupSound` turn "the first failing check" into
"every check holds" (`FirstFailureSound`). The two action properties follow from
`WhoWrites` (two steps change a file) and `WhatIsWritten` (what lies in a file that
was just written).

### The contract of the client

Every step of either thread is a step of `ClientContract` or none
(`StepIsPromised`). What `IInv` does not say and the mapping needs is `Answered`:
there is an answer exactly when no call is under way, and `create` has no license
before it installs one. Heartbeats are silent to the application except for the
license they renew (`HeartbeatIsSilent`); every way out of a call is treated once
(`ReturnIsPromised`); that an error of `create` is an error, and never mistaken
for an answer that is still to come, is `SetupIsAnswered`. The first attempt at
this proof failed at the mapping itself: `Call` was a CASE whose guards overlapped,
which leaves its value open, although TLC takes the first. It is an IF now.

### Recovery

`SurvivesRestart` speaks of a client at rest. A restart may follow a call, so the
invariant must say at every step of every call which key and which license the
next start will find. `RInv` does, as long as no harm was done but "unmatched",
which the next accepted license mends (`Mendable`), and one thread at most is
applying a license (`Alone`):

- `KeyInPlace`: the key in use is the one the next `create` will use, but between
  the replacement of the key and its file.
- `CacheInPlace`: what is verified reloads; the current license is in the file,
  but between the step that writes a new one and the assignment that adopts it,
  or after the key was replaced, while no license was accepted since.
- `Carried`: what the threads have in hand, whether or not harm was done. A new
  key is only ever carried by the application's thread.

`OnRecord` says that only the step that adopts a license takes anything off the
record, and after that step the file, the key and memory agree again. With both
threads applying, neither of the first two holds, and nothing need be
said: the overlap is itself a harm, for the rest of this client's life
(`Harmless`). A step that is no step of applying disturbs nothing (`Undisturbed`).
That a license outlives a restart at all, although `normalize_license_bytes`
takes a layer of base64 off before it is stored, is `ReverifiesAtRestart`: with a
layer less it verifies as well. Its date is left out of account throughout: a
restart is judged at a time at which nothing is over. Three of the theorems are for configurations without
`storage_secret` (`NoSecrets`), as the cache is lost with one: run
`recovery_sealed`.

### The heartbeat manager

The contract speaks of two moments only: a request is armed when the loop has
seen that it was not stopped, and leaves when it has seen that it was not
paused. `StopIsSeen` ties the loop's steps to the flags between them,
`BackoffIsBounded` the interval to the number of failures, `SuccessForgets`
says that history starts afresh after an answer.

`ExponentialBackoff` says where the interval is used that it is the last regular
one, doubled; it is proved of every step of the loop (`WaitIsExponential`). The
code doubles the capped interval and lifts it to the minimum, again and again,
the property caps once: `FirstBackoff` and `NextBackoff` say that this is the
same. How often it has doubled is a recursive function (`Doublings`); that there
is one, and that it doubles, is the induction of `DoublingsDouble`.
`CountsUpToTheCap` is about the model alone: `failures` stops at `MaxFailures`,
which must be no less than it takes to get from the minimum to the cap.

### Calls within calls

The properties of `ClientSession` speak of the top of two stacks, the induction
of all that lies beneath. `SInv` gives every frame a height it cannot exceed
without misuse (`Ceiling`): a heartbeat's callback or its update lies at the
bottom, `activate` right on it or at the bottom itself, the callbacks of an
activation next, one of them at most, and the callback under the lock on top of
everything (`Behaved`). From this follow the depth of the stacks, and that a
thread which waits for the lock does not hold it. `InOrder` keeps the lock and
its one frame together also after misuse, through the unwinding of an exception.
A circle of waiting threads would need the heartbeat thread to wait in a frame
that holds what the joining thread needs: the joining thread holds no lock, as
`join` is never above an `unlock`. `Ownership` carries `QuietAfterClose`.
The manager's `IInv` is part of `SInv`, since the loop's steps are those of
`HeartbeatManager`; a `stop()` called on the loop's own thread is no step of the
manager alone, and is shown to keep it nevertheless.

### The storage

`IInv` says who holds which inode. A process that dies lets go of its inode and
comes back idle (`TheDeadAreIdle`); the others keep theirs. While no two saves
overlap, the `.tmp` file is
of the one writer there is, nobody reads it, and it is not the file the path names
(`Separate`); it holds what its writer has written so far or what failures and
power left of that (`Progress`). `NeverMixed` needs no more. Undamaged, what is
renamed or read is whole (`Intact`), and a rename is the step of the abstract
register while every other step is a stutter, but those that begin and end a call,
a `remove`, and the death of processes, which undoes what they had under way.
That a writer finds a free inode is a pigeonhole (`FreeInodeIsFree`), for which
there must be finitely many processes.

### The applications

The fingerprint is a text, and the first question is what it tells. `Written` says
that a text begins with a field of a certain value; where values have no
separator, that value and the rest of the text are the only ones (`SameEntry`),
and a field that is left out cannot be mistaken for the next, because the keys
come in one order (`StartsIn`, `PartStarts`). `FingerprintsAgree` takes the text
apart field by field; the memory comes last and may be anything.

`IInv` says that every license file and every client carries the fingerprint of
the machine and the fields recorded when its license was issued, whatever became
of machine, fields and files since, and whichever program wrote to the file.
`Undisturbed` is the frame: who does not touch a
program's variables keeps it. `SameReading` turns equal readings into "not
altered", which speaks of the machines themselves: the first interface and the
first processor line (by `FirstPosition`, from well-foundedness of the naturals)
and rounding of the memory, where two sizes read alike when they are whole
multiples of the same unit.

`AskedForCause` is the other direction. A machine that is not altered reads the
same (`UnalteredReading`, `UnalteredFingerprint`), so the license fits; and the
key file still holds the product's key, which is `KeyKept`: another program
writes to it only when the paths coincide. `KeysMeetAtStems` computes this from
`PubKeyPath`: two license files with extensions have one key file only when they
have one directory and one stem. `KeyKept` is an invariant of its own because of the step between the
installation of the key and that of the license.

### The bytes

These theorems are about loops over texts of any length. The library's induction
takes an operator as its parameter, which the provers cannot instantiate, so
`InductionUpTo` is about a set of numbers instead, and follows from the least
element a set of numbers has; `RecursionDefines` shows once that a function which
is defined from one place to the next is what its definition says. `StrictRunIs`,
`LenientRunIs` and `EncodedIs` are instances of it.

- `EncodingIsUndone`: the int overflows after a few digits, but of what has been
  collected only the last two digits are ever read (`CollectKeeps`, which needs
  `IntAssumption`). A byte is then what two digits say (`BytesFromDigits`), three
  bytes come out of each group of four (`GroupIsRead`), and the last group stops
  at its padding.
- `DecodersAlwaysAgree`: the lenient loop does what the strict one does where the
  strict one does not fail (`LenientFollowsStrict`), and the white space that is
  trimmed before it starts is none of its business (`LenientTrims`).
- `AcceptedIsReloaded`: `KeptAsAccepted` says that what lies in the file parses and
  is what the next client is given. It is inductive by `NormalizedParses`: what
  parses, under a layer or not, parses when it has been normalized once more,
  except for the byte order mark under a layer, where it does not.
- `LayersMayBeCounted`: `SameLicense` says that a text whose layout alone was
  changed carries the license still, by what a line break does to the loop
  (`BreakingKeeps`) and what missing padding does (`UnpaddingKeeps`);
  `LayersCounted` follows the layers through `Receive` and `Adopt`
  (`CarriedIsCounted`). It would not be inductive without `KeptAsAccepted`, which
  takes care of the restarts, where one layer less is read than the first time.
  `CountedAlike` compares the number with the verdict of `LicenseVerifier`, by
  `AcceptedExactly`.

The length of a text, the number of layers and of edits, and the bytes that get in
are constants of no particular value here.

### What stays with TLC

- Liveness under fairness, which the prover does not reach: `CallsReturn`,
  `HeartbeatsReturn`, `StopReturns`, `KeepsSending`, `CallsComeBack`.
- `SurvivesRestart` and `CacheMatchesMemory` with a `storage_secret`: there they do
  not hold (run `recovery_sealed`).

## What is not modelled

- The bytes on the shared CURL handle, and torn reads of `current_license_` in
  `send_heartbeat`: undefined behaviour whose outcomes (a request that fails or
  succeeds, the end of the process) are free in the model, and whose other
  consequences are not described by anything.
- JSON and dates: documents are of a class (`form`) or the empty object;
  `mktime` and its time zone are not modelled. RSA and AES are their contracts,
  SHA-256 is injective, and `isspace` that of the C locale.
- The Windows and macOS branches: of the fingerprint, which read other sources
  in the same order of fields, and the `CopyFile` fallback of the storage.
- `any_to_json` and the metadata of requests, the message table of the errors,
  logging, platform shims, what the examples print, `fingerprint_only.cpp` and
  `test_pss.c`: formatting, without state.
- Two threads of an application in the calls of one client: `Client` has no
  lock around `activate`, `close` and `send_heartbeat`, and the class is used
  from one thread and the heartbeat's everywhere in the repository.

## Plan

Written, in the order of what matters: the operator modules, the client with its
threads and its recovery, the manager with its contract, the storage with its
abstraction, sessions with callbacks, the fingerprint and the applications, the
decoders; and the proofs of all state machines. Every safety property of those
that the passing runs check is a theorem, and so are all refinements. What could
follow are lemmas about the abstract specifications alone: what an application may
rely on that knows `ClientContract`, `HeartbeatContract` and `AtomicFile` only.
