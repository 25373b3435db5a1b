----------------------------- MODULE Deployment -----------------------------
(***************************************************************************)
(* Deployed credentials: crates/dbx-rs-secure-store/src/deployment.rs over *)
(* the secret store of store.rs.  Deployment Server replaces the sealed    *)
(* envelopes of the app; the daemon reconciles them at its start and at    *)
(* each reload, while the command line imports single envelopes, sets      *)
(* secrets by hand and creates the installation's keys.  Each process may  *)
(* die, or a write of its fail, between any two file operations.           *)
(*                                                                         *)
(* Simplifications: cryptography is ideal, so an envelope is what was      *)
(* sealed, its digest, its signer and its recipients, or cut short; a      *)
(* recipient is the process that made the installation's identity.  Names  *)
(* are numbers, in BTreeMap order.  Receipts and secrets that do not       *)
(* authenticate, and unsafe paths, which fail closed, are left out, and so *)
(* are lengths; the temporary files of atomic_write are not seen.          *)
(***************************************************************************)
EXTENDS Naturals, Sequences, FiniteSets, SequencesExt

CONSTANTS
  Name, Secret,  \* names of credentials, and their values
  Digest,        \* digests of envelopes
  Path,          \* file names in deployment-secrets, in their order
  Apps,          \* versions of the app: per path, what was asked to be sealed, or None
  Entered,       \* what is typed for a secret: a text and the line endings after it
  Authority,     \* the signer whose public key is embedded
  MaxChanges,    \* bound: installations and commands
  MaxDeaths,     \* bound: crashes and failed writes
  None           \* the absent file, key, envelope or lock owner

Process == {"daemon", "cli"}
KeyFile == {"identity", "master"}
Key == [by: Process, whole: BOOLEAN]
Receipt == [revision: Nat, digest: Digest]

VARIABLES
  directory,     \* the envelope at each path
  key,           \* per key file: who made it, and whether it is whole
  secret,        \* per name: the stored secret
  receipt,       \* per name: revision and digest of the envelope imported
  importing,     \* the owner of the import lock
  process,       \* per process: where it is and what it holds
  origin,        \* per name: the envelope whose secret an import wrote or found last
  byHand,        \* names whose secret was set by hand since
  torn,          \* names whose import wrote the secret and not the receipt
  highest,       \* per name: the greatest revision ever receipted
  conflict,      \* the local conflicts the daemon reported, and what caused each
  used, deaths
durable == <<directory, key, secret, receipt>>
observed == <<origin, byHand, torn, highest, conflict>>
vars == <<durable, importing, process, observed, used, deaths>>

-----------------------------------------------------------------------------
(* Envelopes.                                                              *)

\* trim_line_endings: what was typed, without the line endings after it.
Trimmed(entered) == entered.text

\* What the constants are: names and paths are ordered, the absent value is no other, what is typed
\* is a secret or empty.  The digest is of the whole envelope: two of one digest hold one secret.
Requests == UNION {{app[f] : f \in {g \in Path : app[g] # None}} : app \in Apps}
ConstantsAreSound ==
  /\ Name \subseteq Nat /\ Path \subseteq Nat
  /\ None \notin Process /\ None \notin Secret /\ None \notin Key /\ None \notin Receipt
  /\ \A entered \in Entered : Trimmed(entered) \in Secret \cup {""}
  /\ \A r \in Requests : /\ r.name \in Name /\ r.revision \in Nat /\ r.nonce \in Digest
                          /\ Trimmed(r.entered) \in Secret \cup {""}
  /\ \A r, q \in Requests : r.nonce = q.nonce => Trimmed(r.entered) = Trimmed(q.entered)

\* parse_recipients: at least one, none twice
ValidRecipients(recipients) == recipients # <<>> /\ IsInjective(recipients)

\* seal_deployment_secret, on the administration host
Seal(request) ==
  IF request.revision = 0 \/ Trimmed(request.entered) = "" \/ ~ValidRecipients(request.recipients)
  THEN None
  ELSE [name |-> request.name, revision |-> request.revision, secret |-> Trimmed(request.entered),
        recipients |-> Range(request.recipients), signer |-> request.signer,
        digest |-> request.nonce, whole |-> TRUE]

\* The files of a version of the app, some cut short on their way.  Nothing is written for what
\* cannot be sealed.
Files(app) ==
  [f \in Path |-> IF app[f] = None \/ Seal(app[f]) = None THEN None
                  ELSE [Seal(app[f]) EXCEPT !.whole = ~app[f].cut]]

\* verify_deployment_envelope_layout: lengths and counts add up, and the authority signed it.
Verified(envelope) == envelope.whole /\ envelope.signer = Authority

\* open_deployment_envelope, with unwrap_content_key
Opens(envelope, identity) == Verified(envelope) /\ identity \in envelope.recipients

-----------------------------------------------------------------------------
NoSelection == [n \in Name |-> None]
Exited == [pc |-> "exited", op |-> "none", keys |-> <<>>, held |-> [k \in KeyFile |-> None],
           listed |-> {}, selected |-> NoSelection, policy |-> "RequireAbsentOrMatching",
           plan |-> <<>>]

Init ==
  /\ \E app \in Apps : directory = Files(app)
  /\ key = [k \in KeyFile |-> None]
  /\ secret = [n \in Name |-> None] /\ receipt = [n \in Name |-> None]
  /\ importing = None
  /\ process = [p \in Process |-> Exited]
  /\ origin = [n \in Name |-> None] /\ byHand = {} /\ torn = {}
  /\ highest = [n \in Name |-> 0] /\ conflict = {}
  /\ used = 0 /\ deaths = 0

At(p, pc) == process[p].pc = pc
Use == used < MaxChanges /\ used' = used + 1

\* The process ends, or the daemon gives up; its lock goes with it.
Exit(p) ==
  /\ process' = [process EXCEPT ![p] = Exited]
  /\ importing' = IF importing = p THEN None ELSE importing

\* Deployment Server installs another version of the app.
Install ==
  /\ Use
  /\ \E app \in Apps : directory' = Files(app)
  /\ directory' # directory
  /\ UNCHANGED <<key, secret, receipt, importing, process, observed, deaths>>

-----------------------------------------------------------------------------
(* Starting, and the key files.                                            *)

KeysOf == [run |-> <<"identity", "master">>, init |-> <<"identity">>, set |-> <<"master">>,
           import |-> <<"identity", "master">>]
AfterKeys == [run |-> "ready", set |-> "set", import |-> "open"]

\* prepare_runtime; the commands of the command line.  An import has read its file already.
Begin(p, op, envelope, policy) ==
  /\ At(p, "exited")
  /\ process' = [process EXCEPT ![p] =
       [Exited EXCEPT !.pc = "keys", !.op = op, !.keys = KeysOf[op], !.policy = policy,
                      !.selected = IF envelope = None THEN NoSelection
                                   ELSE [NoSelection EXCEPT ![envelope.name] = envelope]]]
  /\ UNCHANGED <<durable, importing, observed, deaths>>

StartDaemon == Begin("daemon", "run", None, "RequireAbsentOrMatching") /\ UNCHANGED used
Command ==
  /\ Use
  /\ \/ \E op \in {"init", "set"} : Begin("cli", op, None, "RequireAbsentOrMatching")
     \/ \E path \in {f \in Path : directory[f] # None},
           policy \in {"RequireAbsentOrMatching", "ReplaceExisting"} :
          Begin("cli", "import", directory[path], policy)

\* An import does not make an identity; every other opening makes the file it misses.
Creates(p, k) == ~(process[p].op = "import" /\ k = "identity")

\* load_or_create, create_master_key: write_new creates the file, and writes it afterwards.
CreateKey(p) ==
  LET k == Head(process[p].keys) IN
  /\ At(p, "keys") /\ Creates(p, k) /\ key[k] = None
  /\ key' = [key EXCEPT ![k] = [by |-> p, whole |-> FALSE]]
  /\ process' = [process EXCEPT ![p].pc = "writing"]
  /\ UNCHANGED <<directory, secret, receipt, importing, observed, used, deaths>>

\* The key is in hand: the next one, or the operation itself.
Hold(p, k, maker) ==
  IF Len(process[p].keys) = 1 /\ process[p].op = "init" THEN Exit(p)
  ELSE /\ process' = [process EXCEPT ![p].held[k] = maker, ![p].keys = Tail(@),
                        ![p].pc = IF Len(process[p].keys) > 1 THEN "keys" ELSE AfterKeys[process[p].op]]
       /\ UNCHANGED importing

WriteKey(p) ==
  LET k == Head(process[p].keys) IN
  /\ At(p, "writing")
  /\ key' = [key EXCEPT ![k].whole = TRUE]
  /\ Hold(p, k, p)
  /\ UNCHANGED <<directory, secret, receipt, observed, used, deaths>>

\* load, load_master_key: a file of the wrong size is refused.
LoadKey(p) ==
  LET k == Head(process[p].keys) IN
  /\ At(p, "keys")
  /\ key[k] # None \/ ~Creates(p, k)
  /\ IF key[k] # None /\ key[k].whole THEN Hold(p, k, key[k].by) ELSE Exit(p)
  /\ UNCHANGED <<durable, observed, used, deaths>>

-----------------------------------------------------------------------------
(* A secret set by hand: SecretStore::set, without the import lock.        *)

SetByHand ==
  /\ At("cli", "set")
  /\ \E n \in Name, entered \in Entered :
       IF Trimmed(entered) = "" THEN UNCHANGED <<secret, byHand>>
       ELSE /\ secret' = [secret EXCEPT ![n] = Trimmed(entered)]
            /\ byHand' = byHand \cup {n}
  /\ Exit("cli")
  /\ UNCHANGED <<directory, key, receipt, origin, torn, highest, conflict, used, deaths>>

-----------------------------------------------------------------------------
(* Choosing what to import.                                                *)

\* import_deployment_envelope: the envelope is opened before the lock is taken.
OpenEnvelope ==
  /\ At("cli", "open")
  /\ IF \A n \in Name : process["cli"].selected[n] = None
                          \/ Opens(process["cli"].selected[n], process["cli"].held["identity"])
     THEN process' = [process EXCEPT !["cli"].pc = "lock"] /\ UNCHANGED importing
     ELSE Exit("cli")
  /\ UNCHANGED <<durable, observed, used, deaths>>

\* deployment_envelope_files, at the daemon's start and at every reload; no files, nothing to do.
ListFiles ==
  LET files == {f \in Path : directory[f] # None} IN
  /\ At("daemon", "ready")
  /\ process' = IF files = {} THEN process
                ELSE [process EXCEPT !["daemon"].pc = "read", !["daemon"].listed = files]
  /\ UNCHANGED <<durable, importing, observed, used, deaths>>

\* The greater revision of a name replaces the other; two contents of one revision conflict.
Conflicts(a, b) == a # None /\ a.revision = b.revision /\ a.digest # b.digest
Greater(a, b) == IF a = None THEN b ELSE IF a.revision < b.revision THEN b ELSE a

\* reconcile_deployment_files: one file, in the order of their names, which may have changed since
\* the listing.  Every file is opened before anything is imported.
ReadFile ==
  LET daemon == process["daemon"]
      path == Min(daemon.listed)
      e == directory[path]
      refused == e = None \/ ~Opens(e, daemon.held["identity"]) \/ Conflicts(daemon.selected[e.name], e) IN
  /\ At("daemon", "read")
  /\ IF refused THEN Exit("daemon")
     ELSE /\ process' = [process EXCEPT !["daemon"].selected[e.name] = Greater(@, e),
                           !["daemon"].listed = @ \ {path},
                           !["daemon"].pc = IF daemon.listed = {path} THEN "lock" ELSE "read"]
          /\ UNCHANGED importing
  /\ UNCHANGED <<durable, observed, used, deaths>>

\* ImportFileLock::acquire waits for the other importer.
Lock(p) ==
  /\ At(p, "lock") /\ importing = None
  /\ importing' = p
  /\ process' = [process EXCEPT ![p].pc = "import"]
  /\ UNCHANGED <<durable, observed, used, deaths>>

-----------------------------------------------------------------------------
(* import_deployed_secret, one name after the other.                       *)

Left(p) == {n \in Name : process[p].selected[n] # None}
NextName(p) == Min(Left(p))

\* What is to be written for an envelope, or why it is refused.
Plan(e, policy) ==
  LET r == receipt[e.name]
      stored == secret[e.name] IN
  CASE r # None /\ e.revision < r.revision -> <<>>
    [] r # None /\ e.revision = r.revision ->
         IF e.digest # r.digest THEN <<"refused">>
         ELSE IF stored = None THEN <<"secret">>
         ELSE IF stored = e.secret THEN <<>> ELSE <<"conflict">>
    [] r = None /\ stored = e.secret -> <<"receipt">>
    [] r = None /\ stored \notin {None, e.secret} /\ policy = "RequireAbsentOrMatching" -> <<"conflict">>
    [] OTHER -> <<"secret", "receipt">>

Done(p, n) == [process EXCEPT ![p].selected[n] = None, ![p].plan = <<>>, ![p].pc = "import"]

Decide(p) ==
  LET n == NextName(p)
      plan == Plan(process[p].selected[n], process[p].policy) IN
  /\ At(p, "import") /\ Left(p) # {}
  /\ IF plan \in {<<"refused">>, <<"conflict">>}
     THEN /\ Exit(p)
          /\ conflict' = IF plan = <<"conflict">> /\ p = "daemon"
                          THEN conflict \cup {[name |-> n, foreign |-> n \in byHand, torn |-> n \in torn]}
                          ELSE conflict
     ELSE /\ process' = IF plan = <<>> THEN Done(p, n)
                        ELSE [process EXCEPT ![p].plan = plan, ![p].pc = "write"]
          /\ UNCHANGED <<importing, conflict>>
  /\ UNCHANGED <<durable, origin, byHand, torn, highest, used, deaths>>

\* Mutant: the receipt is written before the secret.
StepsReversed(p) == Reverse(process[p].plan)

\* The writes of a plan, in the order they are made.
Steps(p) == process[p].plan

\* store.set(...)
WriteSecret(p) ==
  LET n == NextName(p) e == process[p].selected[n] IN
  /\ At(p, "write") /\ Head(Steps(p)) = "secret"
  /\ secret' = [secret EXCEPT ![n] = e.secret]
  /\ origin' = [origin EXCEPT ![n] = e]
  /\ byHand' = byHand \ {n}
  /\ process' = IF Len(Steps(p)) = 1 THEN Done(p, n)
                ELSE [process EXCEPT ![p].plan = Tail(Steps(p))]
  /\ UNCHANGED <<directory, key, receipt, importing, torn, highest, conflict, used, deaths>>

\* store_receipt
WriteReceipt(p) ==
  LET n == NextName(p) e == process[p].selected[n] IN
  /\ At(p, "write") /\ Head(Steps(p)) = "receipt"
  /\ receipt' = [receipt EXCEPT ![n] = [revision |-> e.revision, digest |-> e.digest]]
  /\ highest' = [highest EXCEPT ![n] = Max({@, e.revision})]
  /\ origin' = [origin EXCEPT ![n] = e]
  /\ torn' = torn \ {n}
  /\ process' = IF Len(Steps(p)) = 1 THEN Done(p, n)
                ELSE [process EXCEPT ![p].plan = Tail(Steps(p))]
  /\ UNCHANGED <<directory, key, secret, importing, byHand, conflict, used, deaths>>

\* All names are done: the lock is dropped, and the daemon waits for the next reload.
EndImport(p) ==
  /\ At(p, "import") /\ Left(p) = {}
  /\ IF p = "cli" THEN Exit(p)
     ELSE /\ process' = [process EXCEPT ![p].pc = "ready"]
          /\ importing' = None
  /\ UNCHANGED <<durable, observed, used, deaths>>

\* A crash, or a write that fails, before it takes effect or after.
Die(p) ==
  /\ ~At(p, "exited")
  /\ deaths < MaxDeaths /\ deaths' = deaths + 1
  /\ torn' = IF At(p, "write") /\ Len(process[p].plan) = 1 /\ process[p].plan # <<"secret">>
             THEN torn \cup {NextName(p)} ELSE torn
  /\ Exit(p)
  /\ UNCHANGED <<durable, origin, byHand, highest, conflict, used>>

Next ==
  \/ Install \/ StartDaemon \/ Command \/ SetByHand \/ OpenEnvelope \/ ListFiles \/ ReadFile
  \/ \E p \in Process :
       \/ CreateKey(p) \/ WriteKey(p) \/ LoadKey(p) \/ Lock(p) \/ Decide(p)
       \/ WriteSecret(p) \/ WriteReceipt(p) \/ EndImport(p) \/ Die(p)

Spec == Init /\ [][Next]_vars

-----------------------------------------------------------------------------
(* Properties.                                                             *)

\* What is stored, and who holds the import lock: exactly the process that is importing.
TypeOK ==
  /\ \A f \in Path : directory[f] # None => directory[f].name \in Name /\ directory[f].revision > 0
  /\ \A n \in Name : secret[n] \in Secret \cup {None}
  /\ \A p \in Process : importing = p <=> process[p].pc \in {"import", "write"}

\* A receipt never vouches for a secret that is not there: whatever crashed or failed, the secret
\* that an import wrote last is at least as new as the receipt, and it is in the store unless
\* someone set another by hand.
ReceiptVouches ==
  \A n \in Name :
    /\ receipt[n] # None => secret[n] # None
    /\ receipt[n] # None /\ origin[n] # None =>
         /\ origin[n].revision >= receipt[n].revision
         /\ n \notin byHand => secret[n] = origin[n].secret

\* Revisions are never rolled back, neither by an older installation of the app nor by two
\* importers that chose their envelopes before either held the lock.
NeverRolledBack == \A n \in Name : highest[n] = IF receipt[n] = None THEN 0 ELSE receipt[n].revision

\* The daemon, whose start fails with it, reports a secret for foreign only when it was set by
\* hand or an import was stopped between its two writes.
ConflictIsReal == \A c \in conflict : c.foreign \/ c.torn

\* Processes that raced for a key file all hold the key that is in it.
OneKey == \A p \in Process, k \in KeyFile : process[p].held[k] # None => key[k] = [by |-> process[p].held[k], whole |-> TRUE]

\* Deployed credentials, in every interleaving of daemon, command line and Deployment Server.
ImportsAreSound == TypeOK /\ ReceiptVouches /\ NeverRolledBack /\ ConflictIsReal /\ OneKey

=============================================================================
