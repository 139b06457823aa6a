----------------------------- MODULE Migrations -----------------------------
(***************************************************************************)
(* The schema and who migrates it: the five Alembic revisions of           *)
(* database/migrations/versions, the models of database/models they must   *)
(* arrive at, and the containers that run "alembic upgrade head" when they *)
(* start (docker/entrypoint.sh, docker-compose.yml).                       *)
(*                                                                         *)
(* A table is its foreign keys with their ON DELETE, its unique keys, its  *)
(* other indexes and the columns later revisions add to it.  Column types  *)
(* and CHECK constraints are left out.  The database is PostgreSQL: env.py *)
(* runs all revisions of one call in one transaction.                      *)
(***************************************************************************)
EXTENDS Naturals, Sequences

CONSTANT Apis          \* api containers

LastRevision == 5      \* 0005_investigations

Cascade(t) == <<t, "CASCADE">>
SetNull(t) == <<t, "SET NULL">>

Statement(op, t, refs, keys, ix, cols) ==
    [op |-> op, t |-> t, refs |-> refs, keys |-> keys, ix |-> ix, cols |-> cols]

\* op.create_table, and the indexes created right after it.
Table(t, refs, keys, ix) == <<Statement("create", t, refs, keys, {}, {}),
                              Statement("index", t, {}, {}, ix, {})>>

\* op.drop_index for each index, then op.drop_table.
NoTable(t, ix) == <<Statement("unindex", t, {}, {}, ix, {}),
                    Statement("drop", t, {}, {}, {}, {})>>
-----------------------------------------------------------------------------
(* The revisions                                                           *)

Up0001 ==
    Table("job", {}, {}, {"state_kind", "requested_by", "created_at"})
    \o Table("audit_log", {}, {}, {"actor", "action", "resource", "created_at"})

Down0001 == <<Statement("drop", "audit_log", {}, {}, {}, {}),
              Statement("drop", "job", {}, {}, {}, {})>>

UpObservables ==
    Table("domain", {}, {{"name_normalized"}}, {"name_normalized"})
    \o Table("evidence", {},
             {{"entity_type", "entity_id", "field", "source", "content_hash"}},
             {"collected_at", "content_hash", "entity", "observed_at", "source"})
    \o Table("external_account", {}, {{"platform", "identifier_normalized"}},
             {"identifier_normalized"})
    \o Table("ioc", {}, {{"ioc_type", "value_normalized"}}, {"type", "value_normalized"})
    \o Table("ip", {}, {{"address"}}, {"address"})

UpMessages ==
    Table("message", {}, {{"source_type", "source_id", "message_id"}},
          {"author_account_id", "message_id", "posted_at", "source"})
    \o Table("relationship", {},
             {{"source_type", "source_id", "target_type", "target_id", "rel_type"}},
             {"last_seen", "rel_type", "source", "target"})

UpTelegram ==
    Table("telegram_account", {}, {{"telegram_id"}}, {"telegram_id", "username_normalized"})
    \o Table("telegram_channel", {}, {{"telegram_id"}}, {"telegram_id", "username_normalized"})
    \o Table("telegram_group", {}, {{"telegram_id"}}, {"telegram_id", "username_normalized"})
    \o Table("url", {}, {{"url_hash"}}, {"hash", "host"})

\* Mutant: target is created before the user it belongs to.
UpUsersTargetFirst ==
    Table("target", {Cascade("user")}, {{"user_id", "kind", "value_normalized"}},
          {"user_id", "value_normalized"})
    \o Table("user", {}, {{"email"}}, {"role", "telegram_user_id"})
    \o Table("username", {}, {{"platform", "value_normalized"}}, {"value_normalized"})

UpUsers ==
    Table("user", {}, {{"email"}}, {"role", "telegram_user_id"})
    \o Table("username", {}, {{"platform", "value_normalized"}}, {"value_normalized"})
    \o Table("target", {Cascade("user")}, {{"user_id", "kind", "value_normalized"}},
             {"user_id", "value_normalized"})

UpWorkspace ==
    Table("report", {SetNull("job"), SetNull("target"), Cascade("user")}, {},
          {"created_at", "status", "target_id", "user_id"})
    \o Table("search", {SetNull("job"), SetNull("target"), Cascade("user")}, {},
             {"created_at", "target_id", "user_id"})
    \o Table("watchlist", {Cascade("target"), Cascade("user")},
             {{"user_id", "kind", "value_normalized"}}, {"active", "user_id"})
    \o Table("search_result", {Cascade("search")}, {}, {"entity", "search_id"})

Up0002 == UpObservables \o UpMessages \o UpTelegram \o UpUsers \o UpWorkspace

Down0002 ==
    NoTable("search_result", {"search_id", "entity"})
    \o NoTable("watchlist", {"user_id", "active"})
    \o NoTable("search", {"user_id", "target_id", "created_at"})
    \o NoTable("report", {"user_id", "target_id", "status", "created_at"})
    \o NoTable("target", {"value_normalized", "user_id"})
    \o NoTable("username", {"value_normalized"})
    \o NoTable("user", {"telegram_user_id", "role"})
    \o NoTable("url", {"host", "hash"})
    \o NoTable("telegram_group", {"username_normalized", "telegram_id"})
    \o NoTable("telegram_channel", {"username_normalized", "telegram_id"})
    \o NoTable("telegram_account", {"username_normalized", "telegram_id"})
    \o NoTable("relationship", {"target", "source", "rel_type", "last_seen"})
    \o NoTable("message", {"source", "posted_at", "message_id", "author_account_id"})
    \o NoTable("ip", {"address"})
    \o NoTable("ioc", {"value_normalized", "type"})
    \o NoTable("external_account", {"identifier_normalized"})
    \o NoTable("evidence", {"source", "observed_at", "entity", "content_hash", "collected_at"})
    \o NoTable("domain", {"name_normalized"})

\* The unique indexes of 0003 and 0005 are created as keys, with the table.
Up0003 == Table("refresh_token", {Cascade("user")}, {{"token_hash"}}, {"user_id"})
Down0003 == NoTable("refresh_token", {"user_id"})

FreeTier == {"free_actions_used", "invited_by_telegram_id"}

Up0004 == <<Statement("add", "user", {}, {}, {}, FreeTier)>>

\* Mutant: the downgrade forgets a column.
Down0004Partly == <<Statement("remove", "user", {}, {}, {}, {"invited_by_telegram_id"})>>

Down0004 == <<Statement("remove", "user", {}, {}, {}, FreeTier)>>

\* Mutant: public_id is not unique.
Up0005NoKey ==
    Table("investigation", {Cascade("user"), SetNull("job"), SetNull("report")}, {},
          {"user_id", "target_normalized", "status", "created_at"})
    \o Table("investigation_observation", {Cascade("investigation")}, {},
             {"investigation_id", "type", "observed_at"})

Up0005 ==
    Table("investigation", {Cascade("user"), SetNull("job"), SetNull("report")},
          {{"public_id"}}, {"user_id", "target_normalized", "status", "created_at"})
    \o Table("investigation_observation", {Cascade("investigation")}, {},
             {"investigation_id", "type", "observed_at"})

Down0005 ==
    NoTable("investigation_observation", {"observed_at", "type", "investigation_id"})
    \o NoTable("investigation", {"created_at", "status", "target_normalized", "user_id"})

Upgrade == <<Up0001, Up0002, Up0003, Up0004, Up0005>>
Downgrade == <<Down0001, Down0002, Down0003, Down0004, Down0005>>

\* What one call of alembic runs to get from one revision to another.
Script[p \in (0..LastRevision) \X (0..LastRevision)] ==
    IF p[1] < p[2] THEN Upgrade[p[1] + 1] \o Script[<<p[1] + 1, p[2]>>]
    ELSE IF p[1] > p[2] THEN Downgrade[p[1]] \o Script[<<p[1] - 1, p[2]>>] ELSE <<>>
-----------------------------------------------------------------------------
(* The database                                                            *)

\* PostgreSQL refuses a statement that does not fit the schema: a table, index
\* or column that exists already or not at all, a foreign key to no table, a
\* table others still refer to.
Fits(db, s) ==
    CASE s.op = "create" -> s.t \notin DOMAIN db /\ \A r \in s.refs : r[1] \in DOMAIN db
      [] s.op = "index" -> s.t \in DOMAIN db /\ s.ix \cap db[s.t].ix = {}
      [] s.op = "unindex" -> s.t \in DOMAIN db /\ s.ix \subseteq db[s.t].ix
      [] s.op = "drop" -> s.t \in DOMAIN db
                          /\ \A u \in DOMAIN db : \A r \in db[u].refs : r[1] # s.t
      [] s.op = "add" -> s.t \in DOMAIN db /\ s.cols \cap db[s.t].cols = {}
      [] s.op = "remove" -> s.t \in DOMAIN db /\ s.cols \subseteq db[s.t].cols

Apply(db, s) ==
    CASE s.op = "create" ->
             [u \in DOMAIN db \cup {s.t} |->
                 IF u = s.t THEN [refs |-> s.refs, keys |-> s.keys, ix |-> {}, cols |-> {}]
                 ELSE db[u]]
      [] s.op = "index" -> [db EXCEPT ![s.t].ix = @ \cup s.ix]
      [] s.op = "unindex" -> [db EXCEPT ![s.t].ix = @ \ s.ix]
      [] s.op = "drop" -> [u \in DOMAIN db \ {s.t} |-> db[u]]
      [] s.op = "add" -> [db EXCEPT ![s.t].cols = @ \cup s.cols]
      [] s.op = "remove" -> [db EXCEPT ![s.t].cols = @ \ s.cols]

NoTables == [t \in {} |-> 0]

\* The schemas that a script leads through.
Walk(db, s) == LET f[i \in 0..Len(s)] == IF i = 0 THEN db ELSE Apply(f[i - 1], s[i]) IN f

\* The schema a deployment of revision r has, upgraded from nothing.
SchemaAt == [r \in 0..LastRevision |->
               LET s == Script[<<0, r>>] IN Walk(NoTables, s)[Len(s)]]
-----------------------------------------------------------------------------
(* The models: Base.metadata, which the code's queries assume              *)

Model(refs, keys, ix) == [refs |-> refs, keys |-> keys, ix |-> ix, cols |-> {}]

EvidenceModel ==
    Model({}, {{"entity_type", "entity_id", "field", "source", "content_hash"}},
          {"entity", "source", "observed_at", "collected_at", "content_hash"})

RelationshipModel ==
    Model({}, {{"source_type", "source_id", "target_type", "target_id", "rel_type"}},
          {"source", "target", "rel_type", "last_seen"})

MessageModel == Model({}, {{"source_type", "source_id", "message_id"}},
                      {"source", "message_id", "author_account_id", "posted_at"})

\* Accounts, groups and channels.
TelegramModel == Model({}, {{"telegram_id"}}, {"username_normalized", "telegram_id"})

UsernameModel == Model({}, {{"platform", "value_normalized"}}, {"value_normalized"})

ExternalAccountModel ==
    Model({}, {{"platform", "identifier_normalized"}}, {"identifier_normalized"})

IocModel == Model({}, {{"ioc_type", "value_normalized"}}, {"value_normalized", "type"})

DomainModel == Model({}, {{"name_normalized"}}, {"name_normalized"})
UrlModel == Model({}, {{"url_hash"}}, {"hash", "host"})
IpModel == Model({}, {{"address"}}, {"address"})

UserModel == [Model({}, {{"email"}}, {"telegram_user_id", "role"}) EXCEPT
                 !.cols = {"free_actions_used", "invited_by_telegram_id"}]

TokenModel == Model({Cascade("user")}, {{"token_hash"}}, {"user_id"})

TargetModel == Model({Cascade("user")}, {{"user_id", "kind", "value_normalized"}},
                     {"user_id", "value_normalized"})

WatchlistModel == Model({Cascade("user"), Cascade("target")},
                        {{"user_id", "kind", "value_normalized"}}, {"user_id", "active"})

ReportModel == Model({Cascade("user"), SetNull("target"), SetNull("job")}, {},
                     {"user_id", "target_id", "status", "created_at"})

SearchModel == Model({Cascade("user"), SetNull("target"), SetNull("job")}, {},
                     {"user_id", "target_id", "created_at"})

SearchResultModel == Model({Cascade("search")}, {}, {"search_id", "entity"})

InvestigationModel ==
    Model({Cascade("user"), SetNull("job"), SetNull("report")}, {{"public_id"}},
          {"user_id", "target_normalized", "status", "created_at"})

ObservationModel ==
    Model({Cascade("investigation")}, {}, {"investigation_id", "type", "observed_at"})

JobModel == Model({}, {}, {"state_kind", "requested_by", "created_at"})

AuditModel == Model({}, {}, {"actor", "action", "resource", "created_at"})

Metadata ==
    [job |-> JobModel, audit_log |-> AuditModel,
     domain |-> DomainModel, evidence |-> EvidenceModel,
     external_account |-> ExternalAccountModel, ioc |-> IocModel, ip |-> IpModel,
     message |-> MessageModel, relationship |-> RelationshipModel,
     telegram_account |-> TelegramModel, telegram_channel |-> TelegramModel,
     telegram_group |-> TelegramModel, url |-> UrlModel,
     user |-> UserModel, username |-> UsernameModel, target |-> TargetModel,
     report |-> ReportModel, search |-> SearchModel, watchlist |-> WatchlistModel,
     search_result |-> SearchResultModel, refresh_token |-> TokenModel,
     investigation |-> InvestigationModel, investigation_observation |-> ObservationModel]
-----------------------------------------------------------------------------
(* The containers                                                          *)

Migrator == "migrate"
Containers == Apis \cup {Migrator}

\* docker-compose.yml names its services apart.
ASSUME MigrationsAssumption == Migrator \notin Apis

VARIABLES
    schema,      \* committed tables
    revision,    \* committed alembic_version
    stage,       \* per container: "down", "running" (alembic), "raised", "killed",
                 \* "done" or, for an api, "serving"
    span,        \* per container: the revisions its alembic goes from and to
    line,        \* per container: statements it has executed
    draft        \* per container: the schema its transaction sees

migrationVars == <<schema, revision, stage, span, line, draft>>

\* Types; in particular every revision's scripts stay within its own span.
MigrationsTypeOK ==
    /\ revision \in 0..LastRevision
    /\ stage \in [Containers -> {"down", "running", "raised", "killed", "done", "serving"}]
    /\ span \in [Containers -> (0..LastRevision) \X (0..LastRevision)]
    /\ \A c \in Containers : line[c] \in 0..Len(Script[span[c]])

\* An earlier release may have been deployed.
MigrationsInit ==
    /\ revision \in 0..LastRevision
    /\ schema = SchemaAt[revision]
    /\ stage = [c \in Containers |-> "down"]
    /\ span = [c \in Containers |-> <<0, 0>>]
    /\ line = [c \in Containers |-> 0]
    /\ draft = [c \in Containers |-> NoTables]

Run(c, to) == /\ stage' = [stage EXCEPT ![c] = "running"]
              /\ span' = [span EXCEPT ![c] = <<revision, to>>]
              /\ UNCHANGED <<schema, revision, line, draft>>

\* The transaction ends; the container goes on as the entrypoint says.
EndRun(c, how) == /\ stage' = [stage EXCEPT ![c] = how]
                  /\ line' = [line EXCEPT ![c] = 0]
                  /\ draft' = [draft EXCEPT ![c] = NoTables]
                  /\ UNCHANGED span

Quiet == \A c \in Containers : stage[c] # "running"

\* compose up: the migrate service runs first.
StartMigrate == /\ stage[Migrator] \in {"down", "raised", "killed"}
                /\ Run(Migrator, LastRevision)

\* Mutant: the api does not wait for the migrate service.
StartApiAnyTime(a) == stage[a] = "down" /\ Run(a, LastRevision)

\* service_completed_successfully; the api then runs alembic itself.
StartApi(a) == /\ stage[a] = "down"
               /\ stage[Migrator] = "done"
               /\ Run(a, LastRevision)

\* An operator downgrades while nothing is served.
StartDowngrade(to) == /\ Quiet
                      /\ \A a \in Apis : stage[a] = "down"
                      /\ to < revision
                      /\ Run(Migrator, to)

Next_(c) == Script[span[c]][line[c] + 1]

Left(c) == Len(Script[span[c]]) - line[c]

\* The first statement sees what is committed by then, the others also what
\* this transaction has done.
Sees(c) == IF line[c] = 0 THEN schema ELSE draft[c]

\* Containers that started from the same revision run the same statements, so
\* the first one locks what the others need until its transaction ends.
Waits(c) == \E d \in Containers \ {c} : stage[d] = "running" /\ line[d] > 0

Execute(c) ==
    /\ stage[c] = "running" /\ Left(c) > 0 /\ ~Waits(c)
    /\ Fits(Sees(c), Next_(c))
    /\ draft' = [draft EXCEPT ![c] = Apply(Sees(c), Next_(c))]
    /\ line' = [line EXCEPT ![c] = @ + 1]
    /\ UNCHANGED <<schema, revision, stage, span>>

Raise(c) ==
    /\ stage[c] = "running" /\ Left(c) > 0 /\ ~Waits(c)
    /\ ~Fits(Sees(c), Next_(c))
    /\ EndRun(c, "raised")
    /\ UNCHANGED <<schema, revision>>

\* The end of context.begin_transaction: tables and alembic_version together.
CommitRun(c) ==
    /\ stage[c] = "running" /\ Left(c) = 0
    /\ schema' = IF line[c] = 0 THEN schema ELSE draft[c]
    /\ revision' = IF line[c] = 0 THEN revision ELSE span[c][2]
    /\ EndRun(c, IF span[c][2] < span[c][1] THEN "down" ELSE "done")

\* The database connection is lost or the container is stopped.
Kill(c) == /\ stage[c] = "running"
           /\ EndRun(c, "killed")
           /\ UNCHANGED <<schema, revision>>

\* "|| echo WARN": an api serves whatever became of its own alembic.
Serve(a) == /\ stage[a] \in {"raised", "killed", "done"}
            /\ stage' = [stage EXCEPT ![a] = "serving"]
            /\ UNCHANGED <<schema, revision, span, line, draft>>

StopApi(a) == /\ stage[a] = "serving"
              /\ stage' = [stage EXCEPT ![a] = "down"]
              /\ UNCHANGED <<schema, revision, span, line, draft>>

MigrationsNext ==
    \/ StartMigrate
    \/ \E a \in Apis : StartApi(a) \/ Serve(a) \/ StopApi(a)
    \/ \E to \in 0..LastRevision : StartDowngrade(to)
    \/ \E c \in Containers : Execute(c) \/ Raise(c) \/ CommitRun(c) \/ Kill(c)
-----------------------------------------------------------------------------
(* Properties                                                              *)

\* No statement of any revision, up or down, is ever refused, unless another
\* container has migrated in between: tables come before those that refer to
\* them and go after them, indexes are dropped under the name they were
\* created with (upgrade and downgrade of the five revisions).
OnlyRacesRaise ==
    \A c \in Containers : stage[c] = "raised" => revision # span[c][1]

\* The committed schema is the one its revision has when upgraded from nothing,
\* whatever upgrades, downgrades, races and failures came before: a downgrade
\* restores exactly what was there (downgrade).
SchemaOfRevision == schema = SchemaAt[revision]

\* At the last revision the tables have the foreign keys, the unique keys and
\* the indexes the models declare, which the repositories rely on.
HeadMatchesModels == revision = LastRevision => schema = Metadata

\* An api only ever serves with the schema of its models, although the
\* entrypoint starts it when its own migration failed.
ServesOnHead == \A a \in Apis : stage[a] = "serving" => revision = LastRevision

\* Whatever containers migrate, and in whatever order revisions go up and down,
\* the schema is that of its revision, the last revision is that of the models,
\* and only then is an api up (run_migrations_online, entrypoint.sh).
SchemaSafe == OnlyRacesRaise /\ SchemaOfRevision /\ HeadMatchesModels /\ ServesOnHead
=============================================================================
