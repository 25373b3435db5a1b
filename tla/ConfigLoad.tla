------------------------------ MODULE ConfigLoad ------------------------------
(***************************************************************************)
(* The configuration of the daemon while an administrator edits the files  *)
(* (load_effective_config of src/crates/dbx-rs-config/src/lib.rs, and the  *)
(* start-up, reload_configuration and apply_reload of                      *)
(* src/crates/dbx-rs-daemon/src/runtime.rs).  A load reads and parses the  *)
(* generic file, then the inputs file against it; edits fall anywhere      *)
(* between.  The daemon starts with the first load it accepts and repeats  *)
(* the load on its reload timer; a reload refuses what needs a restart,    *)
(* what would lose a cursor, and what the backlog does not let it apply.   *)
(*                                                                         *)
(* Simplifications: an edit sets or removes one setting, so a change of    *)
(* several settings is seen half done, and no edit writes out a default;   *)
(* a file that does not parse is "broken" until the next edit of it; the   *)
(* query and CA files and the HEC material can be read and do not change.  *)
(* Module Runtime has the work behind the outcome of the backlog, which is *)
(* a free choice here.                                                     *)
(***************************************************************************)
EXTENDS Config

CONSTANTS
    DefaultGeneric,    \* the packaged dbxrs_generic.conf
    LocalFiles,        \* the local files at first: records [generic, inputs]
    Edits,             \* the edits: records [file, s, k, v]
    MaxEdits,          \* bound: edits made
    Pems, Secrets, Schemas  \* what a collection meets outside the files

VARIABLES
    local,      \* the local layer of each file, or broken
    edits,      \* edits made so far
    generic,    \* the generic file of the load under way
    effective,  \* the configuration the daemon runs with
    error,      \* what the last load of it came to
    cursors     \* the identities of the durable states of rising inputs

vars == <<local, edits, generic, effective, error, cursors>>

Files == {"generic", "inputs"}
Absent == [is |-> "absent", n |-> 0]

Init ==
    /\ \E files \in LocalFiles :
         local = [f \in Files |-> [ok |-> TRUE, ini |-> files[f]]]
    /\ edits = 0
    /\ generic = <<>>
    /\ effective = <<>>
    /\ error = "ok"
    /\ cursors = {}

---------------------------------------------------------------------------
(* The layers *)

Layered(default, over) ==
    [s \in DOMAIN default \cup DOMAIN over |->
        LET low == IF s \in DOMAIN default THEN default[s] ELSE <<>>
            high == IF s \in DOMAIN over THEN over[s] ELSE <<>>
        IN high @@ low]

GenericNow == Layered(DefaultGeneric, local.generic.ini)
InputsNow == local.inputs.ini

\* What the parser keeps of a file it accepts.
Settings(ini) ==
    [s \in DOMAIN ini |->
        Restrict(ini[s], {k \in DOMAIN ini[s] : ~Unset(optional(ini, s, k))})]

Configuration(g, inputs) == [generic |-> Settings(g), inputs |-> Settings(inputs)]

---------------------------------------------------------------------------
(* The administrator *)

WithSetting(ini, e) ==
    LET section == IF e.s \in DOMAIN ini THEN ini[e.s] ELSE <<>>
        changed == IF e.v = Absent THEN Restrict(section, DOMAIN section \ {e.k})
                   ELSE (e.k :> e.v) @@ section
    IN (e.s :> changed) @@ ini

Edit(e) ==
    /\ edits < MaxEdits
    /\ edits' = edits + 1
    /\ local' = [local EXCEPT ![e.file] = [ok |-> TRUE, ini |-> WithSetting(@.ini, e)]]
    /\ UNCHANGED <<generic, effective, error, cursors>>

Break(f) ==
    /\ edits < MaxEdits
    /\ local[f].ok
    /\ edits' = edits + 1
    /\ local' = [local EXCEPT ![f].ok = FALSE]
    /\ UNCHANGED <<generic, effective, error, cursors>>

Edited(some) == (\E e \in some : Edit(e)) \/ (\E f \in Files : Break(f))

---------------------------------------------------------------------------
(* The load *)

\* What a load reports of each file; the sections and stanzas are visited in
\* the order of a hash map, so it may be any code of a set.
GenericIssues(ini) ==
    IF ~local.generic.ok THEN {"CFG-0002"}
    ELSE IF validate_generic_keys(ini) # {} THEN validate_generic_keys(ini)
    ELSE {FirstIssue(parse_generic(ini))}

InputEnabled(ini, s) == optional(ini, s, "disabled").is = "false"
HecDisabled(g) == optional(g, "hec", "enabled").is = "false"

InputsIssues(g) ==
    LET issues == IF local.inputs.ok THEN parse_inputs(InputsNow, g) ELSE {"CFG-0002"}
    IN IF ~(issues \subseteq {"ok"}) THEN issues \ {"ok"}
       ELSE IF HecDisabled(g) /\ \E s \in DOMAIN InputsNow : InputEnabled(InputsNow, s)
            THEN {"CFG-0039"}
       ELSE {"ok"}

LoadGeneric ==
    /\ generic = <<>>
    /\ \E ini \in {GenericNow} : \E issue \in GenericIssues(ini) :
          /\ generic' = IF issue = "ok" THEN <<ini>> ELSE <<>>
          /\ error' = IF issue = "ok" THEN error ELSE issue
    /\ UNCHANGED <<local, edits, effective, cursors>>

---------------------------------------------------------------------------
(* What becomes of a configuration that was loaded *)

\* The source and the cursor a durable state belongs to; the overlap is not
\* part of them.
LineageKeys == {"input_id", "connector", "host", "port", "database", "username", "query",
                "query_file", "cursor_timestamp_field", "cursor_id_field"}
Identity(ini, s) == [k \in LineageKeys |-> optional(ini, s, k)]

RisingId(ini, s) == IF IsRising(ini, s) THEN optional(ini, s, "input_id") ELSE NoText
RisingStanzas(ini) == {s \in DOMAIN ini : IsRising(ini, s)}
RisingIds(ini) == {RisingId(ini, s) : s \in RisingStanzas(ini)}
StateIds == {d.input_id : d \in cursors}

\* A durable state that no stanza owns, or whose stanza has another source.
validate_configured_identities(c) == Issue("RISING-0012", ~(StateIds \subseteq RisingIds(c.inputs)))
validate_prepared_identity(c) ==
    Issue("RISING-0006", \E s \in RisingStanzas(c.inputs) :
                            /\ RisingId(c.inputs, s) \in StateIds
                            /\ Identity(c.inputs, s) \notin cursors)

validate_reload_input_identities(old, c) ==
    Issue("RUN-0018", \E s \in DOMAIN old.inputs \cap DOMAIN c.inputs :
                         RisingId(old.inputs, s) # RisingId(c.inputs, s))

reload_configuration(old, c) ==
    Issue("RUN-0003", \E s \in {"paths", "logging", "spool"} : c.generic[s] # old.generic[s])
    \o Issue("RUN-0015", c.generic.hec # old.generic.hec /\ c.inputs # old.inputs)

\* What a start-up or a reload has against the configuration itself.
CandidateIssue(c) ==
    IF effective = <<>>
    THEN FirstIssue(validate_configured_identities(c) \o validate_prepared_identity(c))
    ELSE IF Head(effective) = c THEN "ok"
    ELSE FirstIssue(reload_configuration(Head(effective), c)
                    \o validate_reload_input_identities(Head(effective), c)
                    \o validate_configured_identities(c) \o validate_prepared_identity(c))

\* What durable work may have against it: at start-up, work of another
\* revision of an input with a state; at a reload, a scan that needs its next
\* page, or a backlog that is not drained, of which the reload says nothing.
BacklogIssues(c) ==
    CASE effective = <<>> ->
           {"RISING-0007" : s \in {x \in RisingStanzas(c.inputs) : Identity(c.inputs, x) \in cursors}}
      [] effective = <<c>> -> {}
      [] OTHER -> {"undrained"} \cup {"RUN-0011" : d \in cursors}
BacklogHolds == {"RISING-0007", "RUN-0011", "undrained"}

\* A start-up takes the inputs one by one: the work of one may be what it
\* reports although the identity of a later one has changed.
Outcomes(c) ==
    {CandidateIssue(c)} \cup
    IF CandidateIssue(c) = "ok" \/ (effective = <<>> /\ CandidateIssue(c) = "RISING-0006")
    THEN BacklogIssues(c) ELSE {}

Take(g, inputs) ==
    \E c \in {Configuration(g, inputs)} : \E issue \in Outcomes(c) :
        /\ error' = issue
        /\ effective' = IF issue = "ok" THEN <<c>> ELSE effective

\* Mutant: the inputs are parsed against the configuration in force.
LoadInputsStale ==
    /\ generic # <<>>
    /\ generic' = <<>>
    /\ \E issue \in InputsIssues(IF effective = <<>> THEN Head(generic)
                                 ELSE Head(effective).generic) :
         IF issue = "ok" THEN Take(Head(generic), InputsNow)
         ELSE error' = issue /\ UNCHANGED effective
    /\ UNCHANGED <<local, edits, cursors>>

LoadInputs ==
    /\ generic # <<>>
    /\ generic' = <<>>
    /\ \E issue \in InputsIssues(Head(generic)) :
         IF issue = "ok" THEN Take(Head(generic), InputsNow)
         ELSE error' = issue /\ UNCHANGED effective
    /\ UNCHANGED <<local, edits, cursors>>

\* The first page of a rising input creates its durable state.
ensure_input(s) ==
    /\ effective # <<>>
    /\ LET inputs == Head(effective).inputs
       IN /\ s \in RisingStanzas(inputs)
          /\ InputEnabled(inputs, s)
          /\ RisingId(inputs, s) \notin StateIds
          /\ cursors' = cursors \cup {Identity(inputs, s)}
    /\ UNCHANGED <<local, edits, generic, effective, error>>

\* The daemon stops, or its host does; the next load is that of a start-up.
Stop ==
    /\ effective # <<>>
    /\ effective' = <<>> /\ generic' = <<>> /\ error' = "ok"
    /\ UNCHANGED <<local, edits, cursors>>

Next ==
    \/ Edited(Edits)
    \/ LoadGeneric
    \/ LoadInputs
    \/ \E s \in DOMAIN InputsNow : ensure_input(s)
    \/ Stop

Spec == Init /\ [][Next]_vars

\* The daemon's reload timer fires for ever, and a load does not block.
Reload == LoadGeneric \/ LoadInputs

FairSpec == Spec /\ WF_vars(Reload)

---------------------------------------------------------------------------
(* The collection request of an accepted stanza *)

Text(v) == [is |-> v.is, n |-> v.n]

connection_config(e, s, pem) ==
    LET v(k) == optional(e.inputs, s, k)
    IN [connector_id |-> v("connector").is,
        host |-> Text(v("host")), port |-> v("port").n,
        database |-> Text(v("database")), username |-> Text(v("username")),
        tls_mode |-> v("tls_mode").is,
        tls_server_name |-> Text(v("tls_server_name")),
        tls_ca_pem |-> IF Unset(v("tls_ca_file")) THEN NoPem ELSE pem,
        connect_timeout |-> v("connect_timeout_secs").n,
        probe_timeout |-> v("probe_timeout_secs").n]

\* A query file is read up to the size an inline query may have.
CollectionRequest(e, s, pem) ==
    LET v(k) == optional(e.inputs, s, k)
    IN [request_id |-> [is |-> "label", n |-> 36],
        connection |-> connection_config(e, s, pem),
        query |-> IF Unset(v("query")) THEN [is |-> "select", n |-> MAX_QUERY_BYTES]
                  ELSE Text(v("query")),
        max_rows |-> v("max_rows").n,
        max_bytes |-> v("max_bytes").n,
        timeout |-> v("query_timeout_secs").n,
        cursor |-> IF IsRising(e.inputs, s)
                   THEN <<<<Text(v("cursor_timestamp_field")), Text(v("cursor_id_field"))>>>>
                   ELSE <<>>]

---------------------------------------------------------------------------
(* Properties *)

TypeOK ==
    /\ edits \in 0..MaxEdits
    /\ DOMAIN local = Files
    /\ Len(generic) <= 1 /\ Len(effective) <= 1
    /\ error \in STRING
    /\ Cardinality(StateIds) = Cardinality(cursors)
    /\ \A g \in Range(generic) : parse_generic(g) = <<>>

(* However edits fall between the two reads, the configuration in force is *)
(* consistent: the largest page of every stanza fits a segment, a segment  *)
(* the quota of an input and that the total; the largest event fits a HEC  *)
(* request; and an enabled stanza has a HEC to deliver to.  A stanza that  *)
(* broke one of these would collect rows it can never deliver.             *)
EffectiveIsConsistent ==
    \A e \in Range(effective) :
        LET spool(k) == optional(e.generic, "spool", k).n
            hec(k) == optional(e.generic, "hec", k)
        IN /\ spool("segment_max_bytes") <= spool("input_max_bytes")
           /\ spool("input_max_bytes") <= spool("total_max_bytes")
           /\ hec("max_event_bytes").n <= hec("batch_max_bytes").n
           /\ \A s \in DOMAIN e.inputs :
                /\ optional(e.inputs, s, "max_rows").n * 1 + optional(e.inputs, s, "max_bytes").n + 4
                     <= spool("segment_max_bytes")
                /\ InputEnabled(e.inputs, s) => hec("enabled").is = "true"

(* No two stanzas in force, enabled or not, own the same durable cursor.   *)
IdentitiesDistinct ==
    \A e \in Range(effective) : \A s, t \in DOMAIN e.inputs :
        s # t /\ IsRising(e.inputs, s) /\ IsRising(e.inputs, t) =>
            optional(e.inputs, s, "input_id") # optional(e.inputs, t, "input_id")

(* Every path in force lies where the documentation says: the daemon's own *)
(* files below var, the assets of a stanza below the directory of its      *)
(* connector, whatever variable or absolute rest the setting is made of.   *)
PathsAreConfined ==
    \A e \in Range(effective) :
        /\ \A k \in Range(PathKeys) :
             IsPrefix(IF k = "managed_inputs_file" THEN SplunkHome ELSE VarRoot,
                      Expanded(optional(e.generic, "paths", k)))
        /\ \A s \in DOMAIN e.inputs : \A asset \in {<<"query_file", "queries">>, <<"tls_ca_file", "certs">>} :
             LET v == optional(e.inputs, s, asset[1])
             IN ~Unset(v) =>
                  IsStrictPrefix(AssetRoot(asset[2], optional(e.inputs, s, "connector").is), Expanded(v))

\* What only a connector knows of an endpoint: the shape of its names, and
\* that TLS settings go with verified TLS.
EndpointCodes ==
    {"PG-CFG-0009", "PG-CFG-0010", "PG-CFG-0011",
     "MY-CFG-0044", "MY-CFG-0009", "MY-CFG-0010", "MY-CFG-0011",
     "MS-CFG-0044", "MS-CFG-0004", "MS-CFG-0005", "MS-CFG-0009", "MS-CFG-0010", "MS-CFG-0011",
     "ORA-CFG-0044", "ORA-CFG-0045", "ORA-CFG-0009", "ORA-CFG-0010", "ORA-CFG-0011"}
SecretCodes == {"MY-CFG-0052", "MY-CFG-0051", "MS-CFG-0052", "MS-CFG-0051", "ORA-CFG-0043"}
StatementCodes ==
    {"PG-CFG-0017", "PG-CFG-0047", "MY-CFG-0017", "MY-CFG-0050", "MS-CFG-0017", "MS-CFG-0050",
     "ORA-CFG-0017"}

(* A stanza the parser accepted is never refused for its limits: the host  *)
(* takes its request, and the connector takes the prepare and the execute  *)
(* request the host derives, for every schema and every remaining time.    *)
(* A connector refuses it only for what the parser cannot know: the shape  *)
(* of an endpoint, the TLS material, the password or the statement.        *)
LimitsAgree ==
    \A e \in Range(effective) : \A s \in DOMAIN e.inputs :
        LET request(pem) == CollectionRequest(e, s, pem)
            r == request(NoPem)
        IN /\ validate_collection_request(r) = <<>>
           /\ \A elapsed \in {0, r.timeout - 1} :
                /\ PrepareIssues(r, elapsed) = <<>>
                /\ \A schema \in Schemas : ExecuteIssues(r, schema, elapsed) = <<>>
           /\ Range(QueryIssues(r)) \subseteq StatementCodes
           /\ \A pem \in Pems, secret \in Secrets :
                Range(OperationIssues(request(pem), secret)) \subseteq EndpointCodes \cup SecretCodes

(* No durable cursor is ever orphaned or handed to another source: however *)
(* edits, reloads, restarts and first pages follow one another, each state *)
(* belongs to one stanza of the configuration the daemon runs with, and    *)
(* that stanza reads the source the state was created for.                 *)
CursorsKeepTheirSource ==
    \A e \in Range(effective) : \A d \in cursors :
        \E s \in RisingStanzas(e.inputs) : Identity(e.inputs, s) = d

(* What the daemon runs with, whatever was edited between the reads.       *)
EffectiveIsSound ==
    /\ TypeOK /\ EffectiveIsConsistent /\ IdentitiesDistinct /\ PathsAreConfined
    /\ CursorsKeepTheirSource

\* Why the files as they stand are not in force, whatever the backlog is.
Refusals ==
    UNION {IF GenericIssues(ini) # {"ok"} THEN GenericIssues(ini)
           ELSE IF InputsIssues(ini) # {"ok"} THEN InputsIssues(ini)
           ELSE {CandidateIssue(Configuration(ini, InputsNow))} \ {"ok"} : ini \in {GenericNow}}

Converged ==
    \/ effective = <<>> /\ error = "ok"
    \/ effective = <<Configuration(GenericNow, InputsNow)>>
    \/ error \in Refusals

(* Once the administrator stops, and provided that the backlog does not    *)
(* hold back every reload, the daemon runs with the files as they are on   *)
(* disk, or the last load gave the reason why it does not, and that reason *)
(* is still the right one: no edit is missed, a mix of two versions of the *)
(* files does not stay in force, and no refusal outlives its cause.        *)
ReloadConverges ==
    <>[](error \notin BacklogHolds) => <>[]Converged

==============================================================================
