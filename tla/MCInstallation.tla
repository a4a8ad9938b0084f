--------------------------- MODULE MCInstallation ---------------------------
(* A small instance of Installation for TLC. *)
EXTENDS Installation

-----------------------------------------------------------------------------
(* The wizard. Two of these slugs have one _env_slug: their names collide. *)

GoodSlugs == {"api", "a-b", "a--b"}
BadSlugs == {"SHARED"}

EnvSlugOf(slug) == IF slug = "api" THEN "API" ELSE "A_B"

OtherNames == {"SHARED", "ALERT_MONITOR_STATE_DIR", "ALERT_MONITOR_SQS_SOURCE", "AWS_PROFILE"}
ReservedNames == {"AWS_PROFILE", "AWS_SESSION_TOKEN"}
AwsNames == {"AWS_PROFILE"}
Tokens == {"bot 1", "bot 2"}
Chats == {"-1", "-2"}
Texts == {"7", "high"}

WizardNames ==
  {EnvSlugOf(s) \o "_" \o Settings[k] : s \in GoodSlugs, k \in DOMAIN Settings}
    \cup OtherNames \cup ReservedNames

WizardValues ==
  {"aws", "10"} \cup GoodSlugs \cup Tokens \cup Chats
    \cup {s \o "-prod-alerts" : s \in GoodSlugs}
    \cup {s \o " " \o Settings[k] : s \in GoodSlugs, k \in DOMAIN Settings}

-----------------------------------------------------------------------------
(* Files written by hand. *)

HandNames == {"SLUG", "SOURCE", "BATCH", "QUEUE_A", "QUEUE_B", "TOKEN",
              "CHAT_A", "CHAT_B", "ASSIGNEE", "PRIORITY", "DEFAULT"}

Names == WizardNames \cup HandNames

Values == {"alpha", "beta", "alerts", "0", "7", "queue a", "queue b", "token",
           "chat a", "chat b", "debugger", "./state"} \cup WizardValues \cup Texts

Numerals == {"0", "7", "10"}

(* An environment where nothing is missing. *)
Good ==
  [v \in Names |-> CASE v \in {"SLUG", "DEFAULT"} -> "alpha" [] v = "SOURCE" -> "alerts"
                     [] v \in {"BATCH", "PRIORITY"} -> "7"
                     [] v = "QUEUE_A" -> "queue a" [] v = "QUEUE_B" -> "queue b"
                     [] v = "TOKEN" -> "token" [] v = "CHAT_A" -> "chat a"
                     [] v = "CHAT_B" -> "chat b" [] v = "ASSIGNEE" -> "debugger"
                     [] OTHER -> Unset]

(* One or two variables are missing, empty, or have a text that is no number *)
(* and the slug of the other project.                                        *)
Envs ==
  {[Good EXCEPT ![v] = x, ![w] = y] :
     v, w \in HandNames, x, y \in {Unset, Empty, "beta"}} \cup {Good}

Alpha(slug, name) ==
  [slug |-> slug, name |-> name, queue_url_env |-> "QUEUE_A", max_messages |-> "BATCH",
   bot_token_env |-> "TOKEN", chat_id |-> "CHAT_A", chat_id_env |-> Default,
   incident_assignee |-> "ASSIGNEE", default_priority |-> "7"]

Beta(name) ==
  [slug |-> "beta", name |-> name, queue_url_env |-> "QUEUE_B", max_messages |-> "7",
   bot_token_env |-> "TOKEN", chat_id |-> Default, chat_id_env |-> "CHAT_B",
   incident_assignee |-> "debugger", default_priority |-> "PRIORITY"]

Configs ==
  {[state_dir |-> "./state", default_project |-> d, projects |-> <<Alpha(s, n), Beta(m)>>] :
     d \in {Default, "beta", "DEFAULT"}, s \in {"alpha", "SLUG"},
     n \in {Default, "alerts", "SOURCE"}, m \in {Default, "alerts"}}
=============================================================================
