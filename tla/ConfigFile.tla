----------------------------- MODULE ConfigFile -----------------------------
(***************************************************************************)
(* load_config (config.py): how a configuration file and an environment    *)
(* make the project a command works for. Variables are expanded strictly   *)
(* in the project that is selected and leniently in the others.            *)
(*                                                                         *)
(* A field of the file is a value or the name of a variable, ${NAME}. An   *)
(* *_env field always is such a name. A project has one SQS source and one *)
(* Telegram sink, whose token is in a variable. Fields that are read as    *)
(* they are, and errors of form (a section that is no mapping, an unknown  *)
(* type) are left out.                                                     *)
(***************************************************************************)
EXTENDS Naturals, Sequences, FiniteSets

CONSTANTS
  Name,      \* environment variables
  Value,     \* texts a field or a variable can have
  Number,    \* those int() accepts
  Unset, Empty,
  Default    \* no default_project, name, chat_id, chat_id_env or --project

ASSUME FieldsAssumption ==
  /\ Name \cap Value = {} /\ Number \subseteq Value
  /\ {Unset, Empty, Default} \cap (Name \cup Value) = {} /\ Default # Empty

Field == Name \cup Value

(* A project: its slug, its source, its sink, its cards. *)
Entry == [slug : Field, name : Field \cup {Default}, queue_url_env : Name,
          max_messages : Field, bot_token_env : Name,
          chat_id : Field \cup {Default}, chat_id_env : Name \cup {Default},
          incident_assignee : Field, default_priority : Field]

-----------------------------------------------------------------------------
IsSet(env, v) == env[v] \in Value

(* What a field expands to; a variable that is not set stays as it is. *)
Expand(env, field) ==
  IF field \in Name /\ IsSet(env, field) THEN env[field] ELSE field

Resolved(env, field) == Expand(env, field) \in Value

(* The value of the variable an *_env field names. *)
Get(env, name) == IF IsSet(env, name) THEN env[name] ELSE Empty

(* _parse_sinks: chat_id, or else the variable chat_id_env names. *)
ChatId(env, entry) ==
  CASE entry.chat_id # Default -> Expand(env, entry.chat_id)
    [] entry.chat_id = Default /\ entry.chat_id_env # Default -> Get(env, entry.chat_id_env)
    [] OTHER -> Empty

(* Fields expanded with _expand_env, and those of them that are numbers. *)
Expanded(entry) ==
  {entry.slug, entry.max_messages, entry.incident_assignee, entry.default_priority}
    \cup ({entry.name, entry.chat_id} \ {Default})

Numbers(entry) == {entry.max_messages, entry.default_priority}

(* _int_setting: a variable that is not set is no error if leniently parsed. *)
NumbersParse(env, entry, strict) ==
  \A f \in Numbers(entry) :
    \/ Expand(env, f) \in Number
    \/ ~strict /\ ~Resolved(env, f)

(* Mistake: a project may do without a channel. *)
StrictParseOfSource(env, entry) ==
  (\A f \in Expanded(entry) : Resolved(env, f)) /\ IsSet(env, entry.queue_url_env)

(* The selected project needs all its variables but the bot token. *)
StrictParse(env, entry) ==
  /\ \A f \in Expanded(entry) : Resolved(env, f)
  /\ IsSet(env, entry.queue_url_env)
  /\ ChatId(env, entry) # Empty

(* Mistake: what other projects refer to is needed as well. *)
ParsesStrictly(env, entry, strict) ==
  NumbersParse(env, entry, strict) /\ StrictParse(env, entry)

Parses(env, entry, strict) ==
  /\ NumbersParse(env, entry, strict)
  /\ strict => StrictParse(env, entry)

(* A source without a name gets one from its project. *)
SourceName(env, slug, entry) ==
  IF entry.name = Default THEN <<slug, "aws_sqs-1">> ELSE <<Expand(env, entry.name)>>

Slug(env, entry) == Expand(env, entry.slug)

(* _parse_project *)
Project(env, entry) ==
  [slug |-> Slug(env, entry),
   source |-> SourceName(env, Slug(env, entry), entry),
   queue_url |-> Get(env, entry.queue_url_env),
   max_messages |-> Expand(env, entry.max_messages),
   bot_token |-> Get(env, entry.bot_token_env),
   chat_id |-> ChatId(env, entry),
   incident_assignee |-> Expand(env, entry.incident_assignee),
   default_priority |-> Expand(env, entry.default_priority)]

Failed == [ok |-> FALSE]

(* The slug to select, when --project does not say. *)
DefaultSlug(c, env, lenient) ==
  LET first == Expand(env, c.projects[1].slug)
  IN CASE c.default_project = Default -> first
       [] c.default_project # Default /\ lenient /\ ~Resolved(env, c.default_project) -> first
       [] OTHER -> Expand(env, c.default_project)

SelectedSlug(c, env, slug, lenient) ==
  IF slug = Default THEN DefaultSlug(c, env, lenient) ELSE slug

(* The default project has to be known; a slug that is given may be anything. *)
load_config(c, env, slug, lenient) ==
  LET selected == SelectedSlug(c, env, slug, lenient)
      matching == {n \in DOMAIN c.projects : Slug(env, c.projects[n]) = selected}
      slugs == {Slug(env, c.projects[n]) : n \in DOMAIN c.projects}
  IN IF /\ Resolved(env, c.state_dir)
        /\ slug = Default => selected \in Value
        /\ \A n \in DOMAIN c.projects : Parses(env, c.projects[n], n \in matching)
        /\ Cardinality(slugs) = Len(c.projects)
        /\ matching # {}
       THEN LET n == CHOOSE n \in matching : TRUE
            IN [ok |-> TRUE, state_dir |-> Expand(env, c.state_dir),
                project |-> Project(env, c.projects[n]), slugs |-> slugs]
       ELSE Failed
=============================================================================
