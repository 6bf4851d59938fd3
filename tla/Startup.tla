------------------------------- MODULE Startup -------------------------------
(***************************************************************************)
(* From the command line to a run: config.load_config (the file, the       *)
(* overrides OCI_DRATA__... from the environment, the search for inline    *)
(* secrets before and after them, the typed model), then what cli.main     *)
(* does with the result.                                                   *)
(*                                                                         *)
(* The configuration is a tree of keys; a value is abstracted to what the  *)
(* code tells apart.                                                       *)
(***************************************************************************)
EXTENDS Naturals, Sequences, FiniteSets

CONSTANTS
  Key,            \* keys of the tree that are looked at
  Above,          \* the keys on the way to each, from the top
  Credential,     \* keys whose name is_forbidden_key
  Kind,           \* what _build_app_config expects of each key
  Fields,         \* the keys in the order _build_app_config reads them
  BaseUrl, AllowAlternateHost, DryRun,   \* three of the keys
  Setups          \* [file, env] to consider; a file that cannot be read is Unreadable

CONSTANT Unreadable

\* "secret": a string of the shape of a token or a key; "secrets": a list with one in
\* it; "ref": a secretRef.  "home" and "elsewhere" are urls, "text" any other string.
Text == {"text", "secret", "home", "elsewhere"}
Boolean == {"true", "false"}
Number == {"number", "zero"}
List == {"list", "secrets", "empty"}
Value == Text \cup Boolean \cup Number \cup List \cup {"missing", "null", "object", "ref"}

\* A credential, and what is below one: the provider, the name or the path of a secretRef.
Guarded == {k \in Key : k \in Credential \/ Above[k] \cap Credential # {}}

ASSUME KeyAssumption ==
  /\ Above \in [Key -> SUBSET Key] /\ Credential \subseteq Key
  /\ \A k \in Key : \A a \in Above[k] : Above[a] \subseteq Above[k] \ {a}
  /\ Kind \in [Key -> {"object", "optional_object", "url", "list", "some", "level", "flag",
                       "optional_flag", "number", "token_ref", "optional_ref", "unknown", "loose"}]
  /\ {BaseUrl, AllowAlternateHost, DryRun} \subseteq Key
  /\ Fields \in Seq(Key)
  /\ \A k \in Guarded : \A a \in Above[k] \ Credential :
       Kind[a] = "object" /\ \E i \in 1..Len(Fields) : Fields[i] = a
ASSUME SetupsAssumption ==
  \A s \in Setups :
    /\ s.file \in {Unreadable} \cup [Key -> Value]
    /\ \A o \in s.env : o.key \in Key

VARIABLES
  setup,    \* the file, and the overrides in the environment
  step,     \* where the start is
  raw,      \* the tree, as far as it is loaded
  todo,     \* overrides still to apply
  dry_run   \* what the command line and the configuration come to

configVars == <<setup, raw, todo>>
startupVars == <<configVars, step, dry_run>>

Blank == [k \in Key |-> "missing"]

StartupInit ==
  /\ setup \in Setups
  /\ step = "file"
  /\ raw = Blank /\ todo = {}
  /\ dry_run = FALSE

-----------------------------------------------------------------------------
(* load_config.                                                             *)

\* No second search.
Unsearched(tree) == FALSE

\* _scan_for_inline_secrets: a literal in a credential's place, or a string anywhere
\* that looks like one.
HasInlineSecret(tree) ==
  \/ \E k \in Credential : tree[k] \notin {"missing", "null", "ref"}
  \/ \E k \in Key : tree[k] \in {"secret", "secrets"}

ReadFile ==
  /\ step = "file"
  /\ IF setup.file = Unreadable THEN step' \in {"refused", "crashed"} /\ UNCHANGED <<raw, todo>>
     ELSE IF HasInlineSecret(setup.file) THEN step' = "refused" /\ UNCHANGED <<raw, todo>>
     ELSE step' = "overrides" /\ raw' = setup.file /\ todo' = setup.env
  /\ UNCHANGED <<setup, dry_run>>

\* Only the last key on the way is held against the list of credentials.
LeafIsOpen(k) == raw[k] # "missing" /\ k \notin Credential

\* _apply_single_override: the key exists, and neither it nor any above is a credential.
IsOpen(k) ==
  /\ raw[k] # "missing" /\ k \notin Credential
  /\ \A a \in Above[k] : raw[a] = "object" /\ a \notin Credential

\* _coerce_override_value by the type the file has; int() of anything else is a
\* ValueError.
Coerced(current, v) ==
  IF current \in Boolean THEN IF v \in Boolean THEN v ELSE "refused"
  ELSE IF current \in Number THEN IF v \in Number THEN v ELSE "crashed"
  ELSE IF current \in List THEN IF v \in {"secret", "secrets"} THEN "secrets" ELSE "list"
  ELSE IF v \in Text THEN v ELSE "text"

\* What was below a replaced object is gone with it.
Replaced(k, v) ==
  [j \in Key |-> IF j = k THEN v ELSE IF k \in Above[j] THEN "missing" ELSE raw[j]]

\* The names are sorted as they are spelled, and match in any case: no order is sure.
Override ==
  /\ step = "overrides"
  /\ \E o \in todo :
       LET v == IF IsOpen(o.key) THEN Coerced(raw[o.key], o.value) ELSE "refused"
       IN  IF v \in {"refused", "crashed"} THEN step' = v /\ UNCHANGED <<raw, todo>>
           ELSE raw' = Replaced(o.key, v) /\ todo' = todo \ {o} /\ UNCHANGED step
  /\ UNCHANGED <<setup, dry_run>>

\* Overrides could reintroduce a literal secret.
Rescan ==
  /\ step = "overrides" /\ todo = {}
  /\ step' = IF HasInlineSecret(raw) THEN "refused" ELSE "build"
  /\ UNCHANGED <<configVars, dry_run>>

-----------------------------------------------------------------------------
(* _build_app_config.                                                       *)

\* bool(): whatever is not empty, a quoted "false" too.
Truthy(v) == v \notin {"missing", "null", "false", "zero", "empty"}

\* What becomes of a value in the place of a key of a kind: it is accepted, refused with a
\* ConfigError, or raises something else that nothing catches.  (A string in the place of
\* an object is asked whether it contains the name of a field, and then for that field; in
\* the place of a list it is taken for the list of its characters; a decisions without
\* that name in it counts as absent.)
Outcome(kind) ==
  CASE kind = "object" ->
         [ok |-> {"object"}, no |-> {"missing", "null", "ref"} \cup Text \cup List,
          crash |-> Text \cup List \cup Number \cup Boolean]
    [] kind = "optional_object" ->
         [ok |-> Value \ {"ref", "number", "true"}, no |-> {"ref"},
          crash |-> {"number", "true"} \cup Text \cup (List \ {"empty"})]
    [] kind = "url" ->
         [ok |-> {"home"} \cup (IF Truthy(raw[AllowAlternateHost]) THEN {"elsewhere"} ELSE {}),
          no |-> {"missing", "null", "zero", "false", "text", "elsewhere"},
          crash |-> {"number", "true", "object", "ref"} \cup List]
    [] kind = "list" ->
         [ok |-> {"list", "secrets", "object", "ref"} \cup Text, no |-> {"missing", "null", "empty"},
          crash |-> Number \cup Boolean]
    [] kind = "some" -> [ok |-> Value \ {"missing", "null"}, no |-> {"missing", "null"}, crash |-> {}]
    [] kind = "level" -> [ok |-> {"text"}, no |-> Value, crash |-> {}]
    [] kind = "flag" -> [ok |-> Boolean, no |-> Value \ Boolean, crash |-> {}]
    [] kind = "optional_flag" ->
         [ok |-> Boolean \cup {"missing", "null"}, no |-> Value \ (Boolean \cup {"missing", "null"}),
          crash |-> {}]
    [] kind = "number" -> [ok |-> {"number"}, no |-> Value \ {"number"}, crash |-> {}]
    [] kind = "token_ref" -> [ok |-> {"ref"}, no |-> Value \ {"ref"}, crash |-> {}]
    [] kind = "optional_ref" ->
         [ok |-> {"ref", "null", "missing"}, no |-> Value \ {"ref", "null", "missing"}, crash |-> {}]
    [] kind = "unknown" -> [ok |-> {"missing"}, no |-> Value \ {"missing"}, crash |-> {}]
    [] kind = "loose" -> [ok |-> Value, no |-> {}, crash |-> {}]

May(i, what) == raw[Fields[i]] \in Outcome(Kind[Fields[i]])[what]

\* The first field that is not accepted ends it.
Build ==
  /\ step = "build"
  /\ \E i \in 1..(Len(Fields) + 1) :
       /\ \A j \in 1..(i - 1) : May(j, "ok")
       /\ \/ i = Len(Fields) + 1 /\ step' = "main"
          \/ i <= Len(Fields) /\ May(i, "no") /\ step' = "refused"
          \/ i <= Len(Fields) /\ May(i, "crash") /\ step' = "crashed"
  /\ UNCHANGED <<configVars, dry_run>>

-----------------------------------------------------------------------------
(* cli.main with a configuration.                                           *)

\* The configuration is not asked.
FlagDecides(flag) == flag

\* flag: --dry-run is given; it cannot be given as false.
effective_dry_run(flag) == flag \/ raw[DryRun] = "true"

SetDryRun(flag) ==
  /\ step = "main"
  /\ dry_run' = effective_dry_run(flag)
  /\ step' = IF effective_dry_run(flag) THEN "signer" ELSE "token"
  /\ UNCHANGED configVars

\* The token is resolved before the long collection, and thrown away; reading its file
\* may raise an OSError, which nothing catches.
TryToken ==
  /\ step = "token"
  /\ step' \in {"signer", "refused", "crashed"}
  /\ UNCHANGED <<configVars, dry_run>>

Starting(flag) == ReadFile \/ Override \/ Rescan \/ Build \/ SetDryRun(flag) \/ TryToken

-----------------------------------------------------------------------------
(* Properties.                                                              *)

Steps == {"file", "overrides", "build", "main", "token", "signer", "refused", "crashed", "run"}

StartupTypeOK ==
  /\ step \in Steps /\ raw \in [Key -> Value]
  /\ dry_run \in BOOLEAN

\* A configuration that was accepted holds no secret, wherever it came from, and takes its
\* secrets from where its file says: no override put one in, bent a secretRef or reached
\* into one.
SecretsStayReferences ==
  step \in {"main", "token", "signer"} =>
    /\ \A k \in Key : raw[k] \notin {"secret", "secrets"}
    /\ \A k \in Guarded : raw[k] = setup.file[k]

\* config.py:334-336 of its booleans: "a quoted "false" parses as the string "false", and
\* bool("false") is True. Reject anything that isn't already a native bool instead of
\* coercing it."  Not so for allowAlternateHost, which is coerced.
BooleansAreNative ==
  step \in {"main", "token", "signer"} /\ raw[BaseUrl] = "elsewhere" =>
    raw[AllowAlternateHost] = "true"

=============================================================================
