---------------------------- MODULE SetupAnswers ----------------------------
(***************************************************************************)
(* The questions of run_setup_wizard (setup_wizard.py): how the answers    *)
(* for any number of projects become the one .env and the one config.yaml  *)
(* that all projects share. How these are written is in SetupWizard, how   *)
(* they are read is in Configuration; Installation puts the two together.  *)
(*                                                                         *)
(* An answer that is not accepted is asked for again, which changes        *)
(* nothing: an action is an answer that is accepted. Names that are only   *)
(* printed or passed on, and the checks of the services, are left out.     *)
(***************************************************************************)
EXTENDS ConfigFile

CONSTANTS
  EnvSlug(_),         \* _env_slug
  GoodSlug, BadSlug,  \* slugs that are accepted, and texts that are not
  OtherName,          \* variables an operator may think of
  Reserved,           \* _reserved_env_names
  AwsName,            \* what _aws_env_values sets
  Token, Chat, Reply,
  ProjectCount

StateDir == "ALERT_MONITOR_STATE_DIR"
SqsSource == "ALERT_MONITOR_SQS_SOURCE"

(* What is asked per project with the name of a variable, in this order. *)
Settings == <<"queue_url", "queue_arn", "dlq_queue_url", "dlq_queue_arn", "bot_token">>

ASSUME AnswersAssumption ==
  /\ ProjectCount \in Nat \ {0}
  /\ AwsName \subseteq Reserved
  /\ {StateDir, SqsSource} \cap Reserved = {}
  /\ {StateDir, SqsSource} \cup OtherName \subseteq Name

VARIABLES
  env_values,  \* what .env will set
  projects,    \* the projects that are complete
  draft,       \* the answers for the next one
  question     \* what is asked next: "slug", a "setting", ...

answerVars == <<env_values, projects, draft, question>>

Nothing == [slug |-> Empty, name |-> <<>>, given |-> <<>>, chat |-> Empty, priority |-> Empty]

AnswersInit ==
  /\ env_values = [v \in Name |-> IF v = StateDir THEN "./state" ELSE Unset]
  /\ projects = <<>>
  /\ draft = Nothing
  /\ question = "slug"

Projects == {projects[n] : n \in DOMAIN projects}

-----------------------------------------------------------------------------
(* _is_slug: no slug refers to a variable, so none changes when it is expanded. *)
IsSlug(s) == s \in GoodSlug

AskSlug ==
  /\ question = "slug"
  /\ \E s \in GoodSlug \cup BadSlug :
       /\ IsSlug(s)
       /\ s \notin {p.slug : p \in Projects}
       /\ draft' = [draft EXCEPT !.slug = s]
  /\ question' = "setting"
  /\ UNCHANGED <<env_values, projects>>

WizardSource(slug) == slug \o "-prod-alerts"

DefaultName(slug, setting) == EnvSlug(slug) \o "_" \o setting

(* The text an operator has at hand: a queue is another for every project. *)
TextFor(slug, setting) == slug \o " " \o setting

(* What the wizard makes of accepted answers are names and texts like others. *)
ASSUME TextsAssumption ==
  /\ {"./state", "aws", "debugger"} \cup GoodSlug \cup Token \cup Chat \subseteq Value
  /\ "10" \in Number
  /\ \A s \in GoodSlug :
       /\ WizardSource(s) \in Value
       /\ \A k \in DOMAIN Settings : /\ DefaultName(s, Settings[k]) \in Name
                                     /\ TextFor(s, Settings[k]) \in Value

(* Mistake: a name is refused when AWS needs it only. *)
MayNameUsed(v) == v \notin Reserved

MayName(v) == ~IsSet(env_values, v) /\ v \notin Reserved

(* The name of a variable, and then what it is set to. One bot may serve *)
(* several projects.                                                     *)
AskSetting ==
  /\ question = "setting"
  /\ LET setting == Settings[Len(draft.name) + 1]
     IN \E v \in {DefaultName(draft.slug, setting)} \cup OtherName,
           text \in IF setting = "bot_token" THEN Token ELSE {TextFor(draft.slug, setting)} :
          /\ MayName(v)
          /\ env_values' = [env_values EXCEPT ![v] = text]
          /\ draft' = [draft EXCEPT !.name = Append(@, v), !.given = Append(@, text)]
          /\ question' = IF setting = "bot_token" THEN "chat" ELSE "setting"
  /\ UNCHANGED projects

TokenOf(p) == p.given[Len(Settings)]

UsedChats(p) == {q.chat : q \in {r \in Projects : TokenOf(r) = TokenOf(p)}}

AskChat ==
  /\ question = "chat"
  /\ \E c \in Chat : c \notin UsedChats(draft) /\ draft' = [draft EXCEPT !.chat = c]
  /\ question' = "priority"
  /\ UNCHANGED <<env_values, projects>>

(* Mistake: a text that is no number is taken as it is. *)
AcceptsAnyNumber(text) == text \in Reply

IsNumber(text) == text \in Number

(* _ask_int is the last question that matters; the project is complete. *)
AskPriority ==
  /\ question = "priority"
  /\ \E text \in Reply :
       /\ IsNumber(text)
       /\ projects' = Append(projects, [draft EXCEPT !.priority = text])
  /\ draft' = Nothing
  /\ question' = IF Len(projects) + 1 < ProjectCount THEN "slug" ELSE "aws"
  /\ UNCHANGED env_values

(* setdefault: the source the services poll, unless there is one already. *)
WithSqsSource(env) ==
  IF env[SqsSource] = Unset THEN [env EXCEPT ![SqsSource] = WizardSource(projects[1].slug)] ELSE env

WithAws(env) == [v \in Name |-> IF v \in AwsName THEN "aws" ELSE env[v]]

(* AWS credentials, or none; an AWS directory that is the repository is refused. *)
AskAws ==
  /\ question = "aws"
  /\ \/ env_values' = WithSqsSource(env_values) /\ question' = "written"
     \/ env_values' = WithAws(WithSqsSource(env_values)) /\ question' = "written"
     \/ env_values' = WithSqsSource(env_values) /\ question' = "refused"
  /\ UNCHANGED <<projects, draft>>

Ask == AskSlug \/ AskSetting \/ AskChat \/ AskPriority \/ AskAws

-----------------------------------------------------------------------------
(* config_data: variables are named, chats and numbers are in the file. *)
config_data ==
  [state_dir |-> StateDir,
   default_project |-> projects[1].slug,
   projects |->
     [n \in DOMAIN projects |->
        [slug |-> projects[n].slug, name |-> WizardSource(projects[n].slug),
         queue_url_env |-> projects[n].name[1], max_messages |-> "10",
         bot_token_env |-> projects[n].name[Len(Settings)],
         chat_id |-> projects[n].chat, chat_id_env |-> Default,
         incident_assignee |-> "debugger", default_priority |-> projects[n].priority]]]

LoadWritten(slug) == load_config(config_data, env_values, slug, FALSE)

(* Every answer is one that is accepted, and no more is asked than has to be. *)
AnswersTypeOK ==
  /\ env_values \in [Name -> Value \cup {Unset}]
  /\ question \in {"slug", "setting", "chat", "priority", "aws", "written", "refused"}
  /\ question \in {"slug", "setting", "chat", "priority"} => Len(projects) < ProjectCount
  /\ \A p \in Projects \cup {draft} : Len(p.name) = Len(p.given) /\ Len(p.name) <= Len(Settings)

(* Names given for later projects, and what AWS needs, never take away what  *)
(* an earlier answer was stored under: no project polls the queue or posts   *)
(* with the bot of another.                                                  *)
EachItsOwn ==
  \A p \in Projects \cup {draft} : \A k \in DOMAIN p.name : env_values[p.name[k]] = p.given[k]

(* What the wizard writes is what load_config reads: with .env alone every    *)
(* project loads, under its slug, with the queue, bot, channel and priority   *)
(* that were given for it, and the first one is the default.                  *)
WrittenLoads ==
  question = "written" =>
    /\ \A n \in DOMAIN projects :
         LET p == projects[n]
             loaded == LoadWritten(p.slug)
         IN /\ loaded.ok
            /\ loaded.project = [slug |-> p.slug, source |-> <<WizardSource(p.slug)>>,
                                 queue_url |-> p.given[1], max_messages |-> "10",
                                 bot_token |-> TokenOf(p), chat_id |-> p.chat,
                                 incident_assignee |-> "debugger", default_priority |-> p.priority]
    /\ LoadWritten(Default) = LoadWritten(projects[1].slug)
=============================================================================
