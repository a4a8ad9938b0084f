--------------------------- MODULE Configuration ---------------------------
(***************************************************************************)
(* How a command finds its project in the configuration file: by its slug, *)
(* or by the name of a source, which _sqs_source_project_config (cli.py)   *)
(* looks up in the raw file first; it then fills in the variables that     *)
(* have nothing to do with the source. --max-messages is left out.         *)
(***************************************************************************)
EXTENDS ConfigFile

CONSTANTS
  Config,    \* files: [state_dir, default_project, projects]
  Env,       \* environments: functions from Name to Value, Unset or Empty
  NoFile,    \* config.yaml is not there
  NoRequest  \* no command was given

Zero == "0"

ASSUME ConfigurationAssumption ==
  /\ Zero \in Number
  /\ Env \subseteq [Name -> Value \cup {Unset, Empty}]
  /\ \A c \in Config : /\ c.state_dir \in Field
                       /\ c.default_project \in Field \cup {Default}
                       /\ c.projects \in Seq(Entry) /\ c.projects # <<>>

-----------------------------------------------------------------------------
(* The command line *)

(* _expand_raw_slug: a variable that is set to nothing counts here. *)
RawExpand(env, field) ==
  IF field \in Name /\ env[field] # Unset THEN env[field] ELSE field

RawSource(env, entry) ==
  IF entry.name = Default THEN <<RawExpand(env, entry.slug), "aws_sqs-1">>
                          ELSE <<RawExpand(env, entry.name)>>

SourceRefs(entry) ==
  {entry.name, entry.queue_url_env, entry.max_messages} \cap Name

(* _env_refs, of a whole project. *)
EveryRef(entry) ==
  (Expanded(entry) \cup {entry.queue_url_env, entry.bot_token_env, entry.chat_id_env})
    \cap Name

(* The variables of the project that have nothing to do with its source. *)
OtherRefs(entry) == EveryRef(entry) \ SourceRefs(entry)

(* Mistake: a variable is filled in, whether it is set or not. *)
FilledOver(env, entry) ==
  [v \in Name |-> IF v \in OtherRefs(entry) THEN Zero ELSE env[v]]

(* _env_for_sqs_source_load: 0 for those that are not set. *)
Filled(env, entry) ==
  [v \in Name |-> IF v \in OtherRefs(entry) /\ ~IsSet(env, v) THEN Zero ELSE env[v]]

(* Mistake: of several sources with one name the first is taken. *)
FirstWithSource(c, env, source) ==
  LET with == {n \in DOMAIN c.projects : RawSource(env, c.projects[n]) = source}
  IN {n \in with : \A m \in with : n <= m}

WithSource(c, env, source) ==
  {n \in DOMAIN c.projects : RawSource(env, c.projects[n]) = source}

(* _sqs_source_project_config without --project. *)
ConfigOfSource(c, env, source) ==
  LET with == WithSource(c, env, source)
  IN IF Cardinality(with) # 1 THEN Failed
     ELSE LET entry == c.projects[CHOOSE n \in with : TRUE]
          IN load_config(c, Filled(env, entry), RawExpand(env, entry.slug), FALSE)

(* With --project: the source has to be one of that project. *)
ConfigOfProjectSource(c, env, slug, source) ==
  LET of == {n \in DOMAIN c.projects : RawExpand(env, c.projects[n].slug) = slug}
      entry == c.projects[CHOOSE n \in of : \A m \in of : n <= m]
      loadEnv == IF of # {} /\ RawSource(env, entry) = source THEN Filled(env, entry) ELSE env
      loaded == load_config(c, loadEnv, slug, FALSE)
  IN IF loaded.ok /\ loaded.project.source = source THEN loaded ELSE Failed

(* _project_configs, of watchdog-due without --project: every project with its *)
(* own variables, or none.                                                     *)
ProjectConfigs(c, env) ==
  LET base == load_config(c, env, Default, TRUE)
  IN IF base.ok /\ \A s \in base.slugs : load_config(c, env, s, FALSE).ok
       THEN [ok |-> TRUE,
             projects |-> {load_config(c, env, s, FALSE).project : s \in base.slugs}]
       ELSE Failed

-----------------------------------------------------------------------------
(* What health makes of the Telegram sink. *)

(* _telegram_sink_status, which knows the 0 that was filled in for a variable *)
(* that an *_env field names. If it does not fail, Telegram is asked.         *)
HealthSink(entry, env, project) ==
  CASE ~IsSet(env, entry.bot_token_env) /\ project.bot_token \in {Empty, Zero} -> "failed"
    [] /\ entry.chat_id_env # Default /\ ~IsSet(env, entry.chat_id_env)
       /\ project.chat_id \in {Empty, Zero} -> "failed"
    [] OTHER -> IF project.bot_token # Empty /\ project.chat_id # Empty
                  THEN "asked" ELSE "failed"

-----------------------------------------------------------------------------
(* A command is started with a file and an environment. *)

VARIABLES config, env, request, outcome

commandVars == <<config, env, request, outcome>>

(* What finds its project by source: sqs-listen, sqs-ingest, sqs-peek, health *)
(* and dlq-inspect. By slug: manual-alert and incident-update.                *)
Outcome(c, e, r) ==
  CASE r.by = "source" /\ r.slug = Default -> ConfigOfSource(c, e, r.source)
    [] r.by = "source" /\ r.slug # Default -> ConfigOfProjectSource(c, e, r.slug, r.source)
    [] r.by = "slug" -> load_config(c, e, r.slug, FALSE)
    [] r.by = "all" -> ProjectConfigs(c, e)

(* Projects and sources that can be named with the file at hand. *)
Slugs == {RawExpand(env, config.projects[n].slug) : n \in DOMAIN config.projects} \cap Value
Sources == {s \in {RawSource(env, config.projects[n]) : n \in DOMAIN config.projects} :
              s[1] \in Value}

Requests ==
  [by : {"source"}, slug : {Default} \cup Slugs, source : Sources]
    \cup [by : {"slug"}, slug : {Default} \cup Slugs, source : {Default}]
    \cup [by : {"all"}, slug : {Default}, source : {Default}]

Run ==
  /\ config # NoFile
  /\ request = NoRequest
  /\ request' \in Requests
  /\ outcome' = Outcome(config, env, request')
  /\ UNCHANGED <<config, env>>

-----------------------------------------------------------------------------
Entries == {config.projects[n] : n \in DOMAIN config.projects}

Loaded == request # NoRequest /\ outcome.ok

(* The entry a loaded project was parsed from. A placeholder cannot select. *)
EntryOf(project) == CHOOSE e \in Entries : Slug(env, e) = project.slug

(* What a command gets has the form it relies on: numbers that are numbers, a *)
(* queue, a channel, and a slug that is a name and no placeholder.            *)
UsableProject(project) ==
  /\ {project.max_messages, project.default_priority} \subseteq Number
  /\ {project.slug, project.queue_url, project.chat_id, project.incident_assignee} \subseteq Value

ConfigurationTypeOK ==
  Loaded => IF request.by = "all"
              THEN \A p \in outcome.projects : UsableProject(p)
              ELSE UsableProject(outcome.project)

(* A command for one project needs the variables of that project only: with  *)
(* all others gone it gets the same. (test_config.py:137, test_config_v2.py:205) *)
Needed(entry) ==
  (EveryRef(entry) \cup {config.state_dir} \cup {e.slug : e \in Entries}) \cap Name

OnlyWith(names) == [v \in Name |-> IF v \in names THEN env[v] ELSE Unset]

OwnVariablesSuffice ==
  (Loaded /\ request.by = "slug" /\ request.slug # Default) =>
    LET again == load_config(config, OnlyWith(Needed(EntryOf(outcome.project))),
                             request.slug, FALSE)
    IN again.ok /\ again.project = outcome.project

(* A command gets what it names: the project of that slug; the project that  *)
(* has that source, and no other has one of that name unless the project was *)
(* named too, so that the raw file and the parsed file never disagree; for   *)
(* the watchdog every project, none left out without a word.                 *)
CommandGetsWhatItNames ==
  Loaded =>
    CASE request.by = "all" ->
           {p.slug : p \in outcome.projects} = {Slug(env, e) : e \in Entries}
      [] request.by = "slug" ->
           request.slug # Default => outcome.project.slug = request.slug
      [] request.by = "source" ->
           /\ outcome.project.source = request.source
           /\ request.slug = Default =>
                \A e \in Entries : SourceName(env, Slug(env, e), e) = request.source
                                      => Slug(env, e) = outcome.project.slug

(* Filling in what a source does not need never changes what it needs or what  *)
(* is set: a queue is never polled in the name of a placeholder, where         *)
(* nothing is missing the project is the one load_config gives, and health     *)
(* reports a token and a channel whose variables are missing instead of asking *)
(* Telegram, but for a channel written chat_id: ${NAME}, for which it asks     *)
(* about the 0 that was filled in.                                             *)
SourceIsReal ==
  (Loaded /\ request.by = "source") =>
    LET strict == load_config(config, env, outcome.project.slug, FALSE)
        entry == EntryOf(outcome.project)
    IN /\ IsSet(env, entry.queue_url_env)
       /\ Resolved(env, entry.max_messages)
       /\ strict.ok => strict.project = [outcome.project EXCEPT !.bot_token = strict.project.bot_token]
       /\ IsSet(env, entry.bot_token_env) => outcome.project.bot_token = env[entry.bot_token_env]
       /\ HealthSink(entry, env, outcome.project) = "asked" =>
            /\ IsSet(env, entry.bot_token_env)
            /\ entry.chat_id \notin Name => ChatId(env, entry) # Empty

=============================================================================
