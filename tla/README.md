# A verification development for dbx-rs

TLA+ models of dbx-rs: the durable core that carries the rows of a database table through an
encrypted spool to Splunk, and the parts around it that decide what is read, under which
configuration, with which credentials and how a query is run. TLC checks the models on small
instances, TLAPS proves theorems about them for every value of their constants. `PROJECT.json` holds
the machine-readable part: the components, the runs, the lines each definition models, the hazards,
the findings and the theorems.

## 1. The system

dbx-rs is a daemon under Splunk's supervision. It reads database tables on a schedule and sends the
rows to a Splunk HTTP event collector (HEC), at least once. A *rising* input remembers a cursor,
and the whole design turns on one promise: the durable cursor passes a row only after Splunk has
accepted it. The repository is a Rust workspace; `vendor/oracle-rs` is third-party.

| part | state it keeps | operations | talks to |
|---|---|---|---|
| checkpoint coordinator (`dbx-rs-checkpoint`) | a snapshot: committed cursor, generation, active attempt with its collection and delivery facts, last committed attempt | start, collection completed / failed, delivery confirmed / failed / uncertain, commit, recover | called by the store (to classify a change) and by the orchestration (to make one) |
| durable input state (`dbx-rs-state/model.rs`) | revision, coordinator snapshot, active scan: resume and maximum cursor, segment references, receipts, compacted prefix | validation only | stored by the state store |
| state store (`dbx-rs-state/store.rs`, `secure-store/fs.rs`) | per input a current and a previous envelope, a writer lock | load, inventory, create, compare_exchange, activate_configuration, restore_previous | several handles and processes; the file system |
| spool (`dbx-rs-spool`) | `.open`, `.ready`, `.delivered` segments, quarantine, byte accounts | reserve, begin, seal, abort, list, read, mark delivered, compact, quarantine at open | workers, the orchestration |
| rising orchestration (`daemon/rising.rs`) | none of its own: it relates the state and the spool | preflight, ensure_input, start_or_resume_page, record_empty_completion, reconcile | store, spool, HEC |
| worker (`daemon/worker.rs`) | a page in flight | collect a page, seal or abort it, deliver a ready segment, drain batch segments | connector, spool, HEC |
| runtime (`daemon/runtime.rs`, `lifecycle.rs`) | schedule, running workers, loaded configuration | reconcile and drain, launch a wave, finish workers, reload, shut down | everything |
| HEC client (`daemon/hec.rs`) | a request, its acknowledgment | send, poll for the acknowledgment | Splunk |
| cursor contract (`connector-sdk/cursor.rs`) | none | bounds, order, canonical bytes | host, connectors, orchestration |
| native host (`native-connectors`) | one collection: two bounded channels, last row, candidate | validate, prepare, execute, materialize, cancel | connectors, worker, control service |
| connectors (`connectors/{postgres,mysql,mssql,oracle}`) | a session, a row stream, a batch | validate, probe, prepare, execute; the SQL scanners | the databases |
| configuration (`dbx-rs-config`, `daemon/prepared.rs`) | two layered ini files | load, parse, derive limits | daemon (at start and on the reload timer), control service |
| control service (`dbx-rs-control`) | one operation and its log entry | validate, probe, test a query | configuration, secrets, native host |
| secrets and deployment (`dbx-rs-secure-store`) | key files, secrets, receipts, the import lock | seal, set, reconcile, import | daemon, command line, Deployment Server |
| CLI, telemetry, Splunk bootstrap, app builder | files | reports, packaging | – |

What makes it hard. The page protocol is eight durable writes in two stores that share no
transaction, and the process may die between any two. HEC answers may be lost, so a segment may be
sent again. The store and the orchestration each have their own rules of what may follow what, and
they must agree on every reachable state. Callers of the coordinator may be late, repeat themselves
or contradict each other. A page takes a context before a query and uses it afterwards. The
configuration may change while work fenced to the old revision is on disk. Two processes may hold
the same state directory, and three meet at the credentials. A collection is four activities over
two bounded channels, any of which may fail, end or be cancelled first, against a connector and a
server that may answer anything or nothing.

What makes each part correct:

- coordinator: a commit needs both facts and equal counts; the cursor is monotone; spent fences
  are inert; no call builds a snapshot that later calls refuse;
- store: no lost update, a recent backup, a token never comes back, an inventory that agrees with
  a load;
- orchestration: no row is skipped or lost, every crash is recoverable, a receipted page is not
  sent again, every scan ends;
- spool: quotas hold and accounts do not leak; only `.open` files are ever quarantined;
- runtime: an input never runs twice at once, every enabled input becomes due again, a reload is
  applied, a failed worker or drain is tried again (a refused reconcile pass stops every input, so
  nothing an input leaves behind may make it refused for good, see "Other observations");
- collection and delivery: what is sealed is the whole page in cursor order; a repeated row has the
  identity it had; nothing is marked delivered that Splunk has not indexed; all of it ends;
- cursor and connectors: the pages of a scan are the rows wanted, each once, also at the ends of the
  integers; a page obeys the contract; a scanner never takes quoted text for SQL or the reverse;
- configuration and control: what is put in force is consistent across both files, accepted by
  the connectors and keeps the source of every durable cursor; a reload is applied or refused for a
  reason that stands; an operation is answered once, in time and truthfully;
- credentials: a receipt vouches for a secret that is there; revisions never roll back.

## 2. Plan

Done, in this order: `Coordinator` and `Checkpoint` with their proofs; `ScanState`; `RisingScan` and
the promise `GatedCursor` it implements; `StateStore`; `Spool`; `Schedule` and `Runtime`; `Delivery`;
`Collection`; `Cursor`, `CursorPages`, `RecoveryMetadata` and `SqlScan`; the four connectors and
`ConnectorContract`; `Config`, `ConfigLoad`, `HostRequest`, `ConnectorRequests` and `Control`;
`Deployment`.

Proved: every safety invariant and action property that the runs check of `Checkpoint`, `StateStore`,
`Spool`, `Deployment`, `RisingScan` with its refinement of `GatedCursor`, `Runtime`, `Delivery` and
`Collection` (section 5).

Left to model: start-up (instance lock, state-root binding, generations of batch inputs), and the order
of frames in a segment file. Left to prove: that a page of each connector is what `ConnectorContract`
promises, and the limits and answers of `ConfigLoad` and `Control`.

## 3. The modules

`map` in `PROJECT.json` gives the lines of every definition. A definition whose comment begins
with "Mutant" is a wrong variant of the one after it: `mutants` names the property that must fail
when it takes that one's place. It is used by no specification. Each module's header lists its
simplifications.

### The durable core

**Coordinator, Checkpoint** (`dbx-rs-checkpoint/src/lib.rs`). A snapshot is a record: committed
cursor, generation, configuration, active attempt with a collection and a delivery fact, last
committed attempt. Each public operation of the crate is an operator that takes a snapshot and
returns the new one with a reply; a rejection returns the old one. A cursor position is a natural,
0 for "none"; the generation keeps its limit, `MaxGeneration` for `u64::MAX`. `Checkpoint` keeps a
snapshot beside a history of what callers reported and of commits, and lets them call anything with
any fence in any order.

**ScanState** (`dbx-rs-state/src/model.rs`, `store.rs`). Operators only: `ValidState` is
`DurableInputState::validate` with `ActiveScan::validate`, `ValidTransition` and its
parts are the changes `compare_exchange` accepts, `Activated` the one `activate_configuration` makes.

**GatedCursor** is what a rising input promises: rows reach the sink at least once, and the cursor
passes a row only when the sink has it.

**RisingScan** (`daemon/rising.rs`, with the parts of `worker.rs` and `runtime.rs` it is called
from). `state` is the current envelope's value, `files` the input's segments, `daemon` everything a
crash loses. A step is one durable write or one external exchange, so `Crash` falls between any two
of them. `reconcile` is the sequence CompactDelivered, Prune, AdoptOrphan, SendBatch, MarkDelivered,
Receipt, ConfirmDelivery, CommitScan; a page is BeginPage, CollectPage, then SealPage or
AbortEmptyPage and RecordEmpty. `CompareExchange` runs the store's own rules on what the
orchestration proposes and records a refusal. The source and Splunk are external: rows appear in
cursor order and may be deleted; an accepted request may be reported as failed.

**StateStore** (`dbx-rs-state/src/store.rs`, `secure-store/fs.rs`). One input's directory, current
and previous envelope and writer lock, with several handles. Each write is a step; a crash or a
failed write may fall before or after any of them. A value is opaque, an envelope is its revision
and value, and the token names both.

**Spool** (`dbx-rs-spool/src/spool.rs`, limits of `format.rs`). Files, the account behind its mutex,
one writer per worker and a consumer. Reserve, CreateOpen, AppendEvent, SealRename, Publish, and
RemoveOpen and Release for `abort` and `Drop`, are separate steps, since other threads run in
between. Bytes are counted in frames. A crash is the death of the process: a power failure that
undoes a rename whose directory was not yet synced is not modelled.

**Schedule, Runtime** (`daemon/runtime.rs`, with `prepared.rs` for what a revision covers).
`Schedule` is `ScheduleState` as operators: of an instant only its being past and the order of those
that are matter. `Runtime` is `run_inner`: `pc` walks finish, reload, backlog (reconcile passes over
the rising inputs, then the drain of batch segments), launch, spawn, sleep. What `reconcile` does
inside an input is `RisingScan`; here it is one step from phase to phase. `quarantined` remembers of
which inputs a crash has moved an open segment to quarantine, because `ensure_input` refuses another
revision of such an input (`Ensurable`) and with it the whole pass. Workers, the clock, an
administrator, a signal and a crash interleave with the loop.

`RisingScan` takes two facts from the loop: one process at a time, and no reconciliation beside a
worker. `Runtime`'s `LoopConsistent` and `WaveStartsDrained` are the second one; the first is the
instance lock, which is not modelled.

### Collection and delivery

**Collection** (`run_input` of `worker.rs` over `collect_json_rows` of `native-connectors`). The
connector, which is not trusted, sends batches; the host checks and turns them into lines; the worker
writes a segment; a deadline or a cancellation may end it all. Both channels have their capacity, and
every order of failing, finishing and dropping is a behaviour. Collections of the same rows, under one
lineage or two, make the identity of events checkable: an identity carries the domain its hash is taken
in, since rising and batch events are hashed in domains of their own.

**Delivery** (the drain of `worker.rs` over `hec.rs`). Segments of several revisions, batches filled
to their event and byte limits, requests and responses that are lost, acknowledgments polled up to a
deadline, and a Splunk that restarts, forgets what it had not indexed and counts its acknowledgments
from zero again.

### What a page is made of

**Cursor, CursorPages** (`connector-sdk/cursor.rs`). The two-part cursor with its bounds and canonical
bytes at a scaled integer width, so that subtracting an overlap at the smallest timestamp and the
inclusive bound at the smallest identifier happen; and a scan in pages compared with the set of rows
it is meant to return.

**RecoveryMetadata** (`daemon/rising_metadata.rs`). The footer byte by byte: every footer that can be
written, and every array of bytes that differs from it in one place, is read back or refused.

**SqlScan** (the scanners of the four connectors). Each scanner's loop is one action per round, with
its jumps over quoted text and comments; a reference lexer that reads one character at a time says
which words are executable.

**PostgresRead, MySqlRead, MssqlRead, OracleRead** over **ConnectorRead** and **Rows**: one operation of
each connector from the resolution of the host to the last batch, with deadlines in every await,
cancellation, refused credentials, sessions that lose a setting, and servers of another product.
**ConnectorContract** is what the host relies on; each connector implements it. **Connectors** lets the
configured connector run one operation.

### Configuration, control and credentials

**Config** is the parser: every check of both files, in the code's order, with its code. **ConfigLoad**
is the daemon around it: a start, then reloads on the timer, while an administrator edits the files.
`cursors` are the durable states of rising inputs, each with the identity its cursor was made for; an
input the running configuration no longer has keeps its own. A start refuses a configuration that does
not fit them, a reload also what needs a restart (paths, logging, spool limits) or changes HEC and
inputs at once, and what the backlog does not let it apply. The backlog is `Runtime`'s; here its outcome
is a free choice, so that `Refusals` are all the answers a reload may give. **HostRequest** and
**ConnectorRequests** are the limits the host derives and the validators of the connectors, so that what
one accepts can be held against what the next one takes. **Control** is the control service:
validation, probe and query test under the hard timeout and its grace. The log line of an outcome may be
written and synced, written only, or not written, and the caller is told of a failure in the last two.
**MCSettings** puts `ConfigLoad` and `Control` side by side, with `ConfigLoad` three times: all edits
without a daemon's history, the edits around the limits, and a daemon that keeps running.

**Deployment** (`secure-store/deployment.rs`, `store.rs`). Deployment Server replaces sealed envelopes,
the daemon reconciles them at start and on every reload, the command line imports, sets and creates
keys. Creating a key file and writing it are two steps, as are a secret and its receipt; any process
may die between two steps. Cryptography is ideal. **Stores** puts `StateStore` and `Deployment` side by
side: they share no file, and a behaviour is about one of them.

`MCSettings`, `MCQueryParts` and `Stores` compose modules that do not interact: a variable `part` says
which of them a behaviour is about, and the variables of the others keep their initial values. They
add nothing to what the parts do.

## 4. The runs

| run | what it asks | result |
|---|---|---|
| `checkpoint` | any caller, any order: is the snapshot valid for ever, does a commit need both facts, is a spent fence inert, is the cursor monotone | holds |
| `rising_scan` | two scans of up to three rows with two faults and an edit: `NoRowLost`, `AlwaysRecoverable` (one segment in flight, none when no scan is active), `NeverRefused` by the store, no resend after a receipt, implements `GatedCursor` | holds |
| `rising_scan_live` | does every scan commit and every row reach Splunk | holds |
| `reload_progress` | is a reload applied once the active scan completes | **violated** |
| `stores` | two handles on a checkpoint: no lost update, sound files and a recent backup, revisions that grow; three processes around the credentials: `ImportsAreSound` | holds |
| `spool` | quotas, reservations, exact and covering accounts (`AccountingHolds`), no sealed segment lost | holds |
| `runtime` | schedule and tasks agree, no input is lost or runs while disabled (`LoopConsistent`), work is fenced, waves start drained, a reload strands nothing, every input runs again and again unless an edit met leftover work or quarantined bytes | holds |
| `collection` | is what is sealed whole, ordered and attributed to the first cause; do repeated rows keep their identity; does every collection end | holds |
| `delivery` | is what is marked indexed, are requests within limits and in order, is every segment sent under the revision it was collected with and in the end delivered | holds |
| `query_parts` | pages against the rows wanted, scanners against a lexer, footers against their bytes | holds |
| `connectors` | pages within limits and never past a null, sessions checked, the contract implemented, every operation ends | holds |
| `settings` | a consistent configuration that keeps the source of each cursor, limits in force that the connectors accept, answers the log bears out, a running configuration that follows the files or a refusal that stands, an end of every operation | holds |

Some results are worth a word because the code does not make them obvious. Disabled inputs do not run
although `runnable_intervals` also schedules a disabled input whose scan needs a page: `disabled` is
part of the revision fingerprint, so disabling an input waits for its scan. The account covers the
files although a segment may be delivered and compacted between its rename and the moment its bytes
enter the account, because the reservation of a whole segment stays charged until then, and
`remove_stored` refuses bytes the account does not hold. Importers choose their envelopes before they
hold the lock, and still never roll a revision back, because the receipt is read again under it.

`reload_progress` is the one finding: `apply_reload` cancels the running page before it asks whether a
scan still needs one. While a page takes longer than the reload interval, the reload cancels again and
again what it waits for.

### Other observations

Met while modelling; the properties above are stated so that they hold of the code as it is.

- `input_spool_is_nonempty` (`rising.rs:1174`) counts quarantined bytes, which nothing removes: after a
  crash during a page, `ensure_input` (`rising.rs:254-260`) refuses an idle input's new revision as if
  work were left. `apply_reload` activates the new configuration without asking it, so from then on
  every reconcile pass is refused, for all inputs; a start is refused by the same check in
  `preflight_startup`. Undoing the edit does not help the running process, which reconciles under the
  refused configuration before it looks at the files; a restart on the old files does. This and the
  next one are the premise of `EveryInputRuns` (`Settled`).
- After an edit beside leftover work, a restart or every drain is refused until the edit is undone.
- Neither the HEC token nor the CA certificate is covered by a revision (`prepared.rs:425-461`): both are
  read from files (`runtime.rs:895-903`). A segment left over from before a start is sent with the token
  of the day; `SentUnderOwnRevision` speaks of the settings that a revision covers.
- `create` (`state/store.rs:195`) makes the input's directory before its first envelope. Dying in between
  leaves an input that a keyed load calls missing and `input_ids` refuses at every start.
  `FilesAreSound` has that exception.
- `Drop for SegmentWriter` (`spool.rs:640`) gives the reservation back even if the `.open` file could not
  be removed; the spool's README calls quotas hard.
- A reconcile pass that ends in an error drops its summary (`runtime.rs:470`): the inputs it committed
  are due at once instead of after `interval_secs`.
- Validation (`control/service.rs:220`) calls an input valid whose password the MySQL and SQL Server
  connectors refuse (more than 1024 bytes, or not UTF-8) or whose CA bundle PostgreSQL's TLS refuses.
- `parse_input` accepts TLS settings beside `tls_mode = disable`, an empty `tls_server_name` and host
  names that connectors refuse at every collection.
- A base query that ends in a line comment swallows the closing parenthesis that the MySQL, PostgreSQL
  and Oracle connectors put after it; the SQL Server connector puts it on a new line.
- In the SQL Server connector `identify_server` and `CancelHandle::cancel` run under no deadline of the
  connector, so `OperationEnds` leaves it out; the host's deadline still bounds a collection.
- The PostgreSQL scanner reads `U&'...'` with backslash escapes (`connector.rs:919-923`), the server
  without. After a `\'` in such a text the scanner takes SQL for text, so that it can miss a `LIMIT`.
  `ScannerIsSound` leaves out a backslash in a `U&` text.
- `write_event` (`telemetry/lib.rs:312-317`) writes a line and then syncs it. If the sync fails, the log
  says that the operation succeeded and the caller is told that it failed; `LogTellsAnswer` is stated
  accordingly.
- A reload that finds batch segments not drained is given up without a word about the reload
  (`runtime.rs:1012`); only one held up by an active scan says so (RUN-0011).
- An import that stops between secret and receipt is finished by the next reconcile only while the same
  secret is deployed. If another revision arrives first, its secret differs from the stored one, no
  receipt explains it, and the daemon refuses to start until `--replace-existing` is used
  (`deployment.rs:1049`). `ConflictIsReal` names that case.
- `load_or_create` says it creates the identity atomically, but `write_new` (`fs.rs:151`) creates the file
  and then writes it: a crash leaves a file that is refused for ever, and a second process may read it
  half written and fail.
- `set` takes no import lock: an import may overwrite a secret set by hand between its check and its
  write. A secret set by hand for a deployed name makes the daemon exit at its next reload
  (`runtime.rs:149`).

### Bounds

Each bound is a constant named in its module; every one limits how often something happens, none
removes a kind of event.

- `checkpoint`: two attempts and two configurations (a fence of another attempt, of another
  configuration), positions 1..2 (a regressing candidate), counts 0..2, two generations, so that the
  overflow is reached.
- `rising_scan`: three rows in pages of two, one event per request, overlap one: truncated, final
  and empty pages, partial sends and rows read again by the second scan. Two faults allow a failure
  during the recovery from another. `rising_scan_live` has pages of one and two rows and no edit.
- `stores`: two handles, three values, revisions up to 5, two crashes: a stale writer on each side of a
  restore, and the end of the revision counter. Two names and two revisions, five versions of the app
  (both revisions at once, a step back, two contents of one revision, a foreign and a cut envelope, one
  that cannot be sealed), three installations or commands and one death.
- `spool`: segments of three frames (header, event, end), quotas of two segments per input and less
  than three in all, three files, two failures. An input and the spool can both be full, through
  files, reservations or quarantine.
- `runtime`: one rising and one batch input, one or two workers, two events (edits, crashes, faults,
  signals): with one worker an input could starve behind the other; an edit after a crash meets the
  quarantine of an idle input.
- `collection`: batches of one or two rows over channels of one and two; answers that are in order, repeat a
  cursor, cannot be encoded or pass the byte limit; one collection with a fault, or two without; two
  lineages of one input, so that an identity could be shared across a reset.
- `delivery`: two segments of one input under three configurations, one fault and one edit. Two events
  fill a request to the byte limit but for the newline between them, so that the separator is what
  decides an overflow.
- `query_parts`: integers of two bytes of four bits, tables of up to four rows, every text of up to five
  characters after a SELECT over small alphabets per dialect, one of them of `U`, `&`, a quote, a
  backslash and `L`.
- `connectors`: tables of up to five rows, pages of three, batches of two, two addresses.
- `settings`: two edits. In part `load` they are of the packaged configuration and three stanzas, at or
  past a limit of the setting where it has one. In part `limits` segments have 1 GiB and a stanza of each
  connector asks for 100000 rows and the bytes that are then left of a segment; the edits go one row and
  one byte past that and past the other limits, and to the rows at which the largest page comes below the
  2 GiB of the connectors. In part `reload` a daemon runs, and there is an edit for each reason a reload
  may be refused for and for each kind that is taken. In part `control` the files change once during an
  operation, and two rows are sent, which fill the row or the byte limit or pass it by one.

Deadlock is not checked where the system may stop: a spool whose quota is full of quarantined files,
and runs of a single operation, collection or computation that has ended. Symmetry is used for
attempts, in a run without liveness.

### Fairness

`RisingScan`: weak fairness of starting the daemon (Splunk runs it with `interval = 0`, so it comes
back), of each stage of the loop and of the steps of a page (every query has a timeout); strong
fairness of creating a state, beginning an attempt or a page, and reloading, which the loop comes
back to in every round while other steps disable them in between. Faults, edits, inserts and deletes
are not fair, and their bounds mean that they stop.

`Runtime`: weak fairness of the start, of the loop's own steps, of a worker's step (it ends) and of
each due time passing. A failure is fair only where the code fails without a fault: a refused pass
or drain has to return.

`Collection`: the host's tasks and the worker are polled and timers fire; nothing is assumed of the
connector. `Delivery`: the drain runs, Splunk goes on indexing, a cancelled daemon is started again.
`Connectors`: only time passes; server, network and host may be silent for ever. `MCSettings`: the reload
timer and the hard timeout fire, and what involves no one else is done; convergence is claimed unless
the backlog holds back reload after reload, which is the question of `reload_progress` and `Runtime`.

## 5. The proofs

Each proof module extends its component's module. The theorems hold for every value of the constants
that satisfies the named assumptions, so for any number of rows, handles, workers, faults, crashes
and edits: the bounds of section 4 appear in them as parameters. Every invariant below was first
checked by TLC on the instance of its component's run.

| module | theorem | what it says |
|---|---|---|
| `CheckpointProofs` | `SnapshotStaysGood` | no sequence of calls builds a snapshot that `Snapshot::validate` would refuse |
| | `CursorIsMonotone` | cursor and generation never go back; the cursor moves only with the generation |
| | `CommitsHaveBothFacts` | a commit has exactly one completion and one confirmation, of equal counts |
| | `SpentFencesAreInert` | a committed fence changes nothing any more |
| `StoresProofs` | `NoUpdateIsLost` | each envelope was written by a caller that had seen the one it replaces |
| | `FilesStaySound` | the files are loadable after a crash anywhere, the backup one replacement behind at most |
| | `RevisionsGrow` | no revision comes back, also not through a restore |
| `SpoolProofs` | `AccountStaysTrue` | reservations, cover, exactness and quotas of the byte account |
| | `SealedSegmentsSurvive` | a sealed segment leaves only by delivery and compaction |
| `StoresProofs`, from `DeploymentProofs!ImportsStaySound` | `CredentialsStaySound` | receipts vouch, revisions do not roll back, conflicts are real, one key |
| `RisingScanProofs` | `RowsAreNeverLost` | at least once: neither cursor passes a row that could be lost |
| | `InputIsRecoverable` | loadable state, acceptable inventory, one segment and none without a scan, between any two durable effects |
| | `StoreNeverRefuses` | the orchestration's proposals satisfy the store's transition rules |
| | `NoResends` | a receipted page is not sent again by its scan |
| | `KeepsPromise` | `RisingScan` implements `GatedCursor` |
| `RuntimeProofs` | `LoopStaysConsistent` | no input overlaps with itself, exceeds the capacity, is lost or runs while disabled |
| | `RisingStaysFenced` | the work a rising input has left is of the revision the process runs on |
| | `WavesStartDrained` | a worker starts only when all that waits for delivery is of its own wave |
| | `ReloadsStrandNothing` | no step of a running process leaves work under a configuration that refuses it |
| `DeliveryProofs` | `DeliveredStaysIndexed` | with acknowledgment, what is marked delivered can be searched |
| | `SendingStaysSound` | requests within both limits; every event once, in order, all of them at the end |
| | `SegmentsKeepTheirRevision` | a segment is sent and marked only under the revision it was collected with |
| `CollectionProofs` | `PublishedIsSound` | what is published is whole, in order and truthful about its position; causes are the first ones |
| | `EventsKeepTheirIdentity` | one identity exactly for one row of a lineage, or one place of a batch |

### The arguments

**Checkpoint.** The argument goes operator by operator. `Good(s)` says that a snapshot has its type and
passes validation, `Follows(s, t)` that `t` is not behind `s`; one lemma per operation shows that from a
good snapshot it returns a good one that follows. `SnapshotValid` alone is not inductive: whether a
commit keeps the last attempt valid depends on the candidate having been checked against the committed
cursor when it was recorded. `LogInv` adds the history: the facts recorded in the active attempt are the
evidence of its fence, and the fences of the log have strictly growing generations that are all below
the snapshot's. The second half is why a spent fence is inert.

**StateStore.** `StoreInv` says what the writer lock is for. While a handle is between its two writes, the
envelope it verified is still the current one and its caller has seen it, and once the first write is
done the backup is that envelope. `NoLostUpdate` is not inductive without it: the last write could
follow another handle's.

**Spool.** `SpoolInv` relates the account to the disk through sums: the stored bytes of an input and what
its writers hold on disk are the bytes of its charged files, with what a compaction has removed and not
yet recorded and the drift that failures leave (`StoredMatch`); reservations add up over the living
writers (`ReservedMatch`); files and unfilled reservations stay within the quotas (`RoomLeft`). Sums
over finite sets are folds of the community modules; that a sum splits, grows and shrinks with its set
is proved by taking a smallest set that would fail, since an induction theorem with an operator
parameter is of no use to the provers. The same way gives the largest row of a page and its number of
rows in `RisingScanProofs`.

**Deployment.** `ImportInv` says what an import that stopped left behind: of each name, which envelope the
secret comes from, and that the receipt is that envelope's, except between the two writes and after a
death there. The lock makes the receipt that was read still valid when it is written over. The run's
composition `Stores` instantiates `DeploymentProofs`, and `StoresProofs` shows that each store behaves
there as it does alone (`EachStoreAlone`).

**RisingScan.** `ScanInv` describes the durable state between any two durable effects, in five parts.
`SpoolSound`: the scan has one reference or none; its counts, cursors and facts agree; the one listed
file, if there is one, is either an orphan that continues the scan or the file of the reference, and a
receipted reference has a delivered file or none. `RowsSound`: every row behind the committed cursor is
in Splunk, every row behind the resume cursor is in Splunk or in the listed file, every row behind a
file's own resume cursor is in Splunk or in that file, a delivered file's rows are in Splunk, and
receipts of the current generation lie behind the resume cursor. `DaemonSound`: where the daemon is,
what it holds (the page in flight is one of the current scan's; what is left to send covers the rest of
the file). `EditsSound`: every revision still to be loaded or activated has an edit of its own, so the
configuration generation stays in its range. And no refusal. `OpenInScan` adds that an open segment has
a scan, so that an idle input has no segment at all. `NoRowLost` alone is not inductive: that adopting
an orphan loses nothing needs the orphan to start where the scan stopped, which was settled when the
page began, a crash or an edit earlier. `AlwaysRecoverable` and `NeverRefused` need each other: a state
is valid because the store accepted it, and a proposal is accepted because the state it starts from is
sound. Each proposal of `rising.rs` has a lemma that evaluates the store's own rules on it
(`AdoptAccepted`, `PruneAccepted` and so on); each action has a lemma that it keeps the invariant.

`KeepsPromise` maps `InsertRow`, `DeleteRow`, `SendBatch` and `CommitScan` to the four actions of
`GatedCursor`, a commit that does not move the cursor and every other step to no step at all.

**Runtime.** `LoopInv` says what is known at each stage of the loop, because each stage relies on what
other code settled several stages before. `apply_reload` may change revisions since the pass before it
saw every rising input without undelivered work and without a scan (`PassSound`, with `reloading`), and
since no worker runs then (`BacklogIsQuiet`). A wave starts drained since between a drain and the launch
nothing is sealed (`WaveSound`). `LoopConsistent` needs that the schedule's running inputs are those with
a task and those about to be launched (`RunningMatch`), that a stanza is launched once
(`LaunchingSound`), and that whatever is scheduled is enabled (`OnlyEnabled`); the last one holds of a
disabled input with an open scan only because an open scan implies an enabled input (`ScansEnabled`),
which in turn rests on the revision covering `disabled`.

**Delivery.** `DeliveryInv` follows the events of the current segment: the request begins where the count
of delivered rows ends, the reader stands where the request ends, and what was put on the wire is the
first rows in order (`Position`). `ChannelSound` and `AckSound` are the reason that an acknowledgment
proves anything: numbers on a channel are below the next one, so the number waited for stands for one
request, also after a restart has started them again. What is marked can be searched because all that is
counted can (`CountedIsIndexed`). The length of a body is a recursive function; that it only
depends on the events before a place, and grows by an event and its separator, is proved for every
segment by a least counterexample.

**Collection.** `Flow` says where each row is that the connector has sent: the events of the segment, the
row channel, the batch being checked and the batch channel hold them one after another, without a gap,
as long as neither the materializer nor the spool has failed. The batch channel needs an existential:
there are offsets at which its batches lie (`Queued`), whatever the connector claims of their number or
their schema. `Rises` is the cursor tracker, for the rows behind it. `Results` says what
`collect_json_rows` is about to return and why: a success only from two successes that agree; an error of
the connector that was only a consequence of the host's always has the host's failure beside it, and
that one is reported first. `PublishedIsSound` then follows because a segment is only published when
both channels are empty. That the worker's own count could disagree with the host's, and that a page
without rows could carry a position, are errors the code has and that are proved unreachable.

### The assumptions

They say what the code's types say, and that a model's parameters fit together. `None` is no value of a
type it is added to. Positions are positive and row counts natural (0 stands for an absent cursor).
Limits are natural; a spool segment holds at least header, event and end (`LimitAssumption`), and a scan
may hold a segment (`SizeAssumption`, `MAX_SEGMENTS_PER_SCAN`). The sets of inputs, workers and segments
are finite (`FiniteAssumption`): sums are taken over them. In `RisingScan` the sets of rows, counts and
configuration identities contain what the run's bounds can reach (`ValueAssumption`) and there are no
more scans than generations (`BoundAssumption`). In `Deployment` names and paths are ordered, and two
envelopes of one digest hold one secret (`ConstantsAreSound`: the digest does not collide). In `Runtime`
the name order lists no input twice (`OrderAssumption`: stanzas are the keys of a sorted map) and a
capacity is positive (`RuntimeAssumption`). In `Delivery` an event fits into a request by itself
(`max_event_bytes` is at most `batch_max_bytes`, `dbx-rs-config/lib.rs:514`), and sort keys of segments
differ (`DeliveryAssumption`). In `Collection` rows are positions or null, a row's length is a number and
the absent values are no values (`CollectionAssumption`); nothing is assumed of what a connector reports.
TLC evaluates every one of them in the runs.

Three definitions were put into a form that can be reasoned about, and mean what they meant: the
files an import lists are a set read in order instead of a sequence, and `Spool!BytesOf` and
`ScanState!RowsOf` are sums of the community modules.

### What is only model-checked

Liveness under fairness (`ScanCompletes`, `RowsReachSplunk`, `EveryInputRuns`, `CollectionEnds`,
`ReadyIsDelivered` and the other temporal properties), and what folds and recursive functions compute
(`SqlScan`, `Cursor`, `RecoveryMetadata`, with `CursorPages` and `MCQueryParts`), are out of TLAPS' reach.
`Connectors` with the refinement of `ConnectorContract`, `ConfigLoad` and `Control` stay with TLC: their
properties are about tables of limits and of answers that the instances enumerate.

## 6. What is not modelled

- Cryptography, hashing and frame encodings: identities and fingerprints are opaque and do not collide.
  Damaged files and unsafe paths fail closed before anything changes.
- What a change of an input's identity, source or cursor does to `RisingScan`: it is refused before any
  write, which `ConfigLoad` models.
- The HEC token and the CA certificate: they are read at a start and on a reload, and no revision covers
  them.
- The databases' wire protocols, the mapping of their types to Arrow and JSON, and TLS: I/O and data
  conversion, a large part of the connectors' code.
- The syntax of ini files and of arguments, the texts of errors and log entries.
- The instance lock, the state-root binding and the generations of batch inputs: planned.
- Command line, the Splunk bootstrap and the app builder keep no state that the properties are about. Of
  telemetry, only whether the line of a control operation is written and synced is modelled.
  `vendor/oracle-rs` is third-party.
