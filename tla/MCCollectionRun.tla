-------------------------- MODULE MCCollectionRun --------------------------
(* An instance, which two collectors answer for, in one of two compartments; *)
(* an API key; a key of a vault.  With and without a record in Drata; --test; *)
(* a disabled service; a record that does not fit the schema; a vault        *)
(* without an endpoint.                                                      *)
(*                                                                           *)
(* A configuration of thirteen keys: the file as it should be but for one    *)
(* key, or with another host; one override in the environment, or two.       *)
EXTENDS CollectionRun, TLC

CONSTANTS i1, a1, v1, b1, b2

MCResource == {i1, a1, v1}
MCEvidenceType == (i1 :> "instance") @@ (a1 :> "api_key") @@ (v1 :> "kms_key")
MCCompartment == {b1, b2}
MCCollector == {"compute", "networking", "identity", "kms_vault"}

StartStore == (i1 :> "absent") @@ (a1 :> "old") @@ (v1 :> "absent")

\* --dry-run, --test, the services enabled, the records that do not fit the schema, the
\* keys of vaults without an endpoint, and the state of the instance, the API key and the
\* vault's key when the run starts.
Case(dry, test, on, bad, hidden, i, a, v) ==
  [dry_run |-> dry, test_mode |-> test, enabled |-> on, malformed |-> bad, hidden |-> hidden,
   life |-> (i1 :> i) @@ (a1 :> a) @@ (v1 :> v), home |-> [r \in MCResource |-> b1],
   store |-> StartStore]

MCStarts ==
  {Case(FALSE, FALSE, {"compute", "networking"}, {}, {}, "live", "purged", "purged"),
   Case(FALSE, FALSE, {"identity", "kms_vault"}, {}, {}, "purged", "terminal", "live"),
   Case(FALSE, TRUE, {"identity"}, {}, {}, "purged", "terminal", "purged"),
   Case(TRUE, FALSE, {"kms_vault"}, {}, {}, "purged", "purged", "live"),
   Case(FALSE, FALSE, {"kms_vault"}, {v1}, {}, "purged", "purged", "live"),
   Case(FALSE, FALSE, {"identity", "kms_vault"}, {}, {v1}, "purged", "live", "live")}

-----------------------------------------------------------------------------
MCFields ==
  <<"typo", "allow", "identity", "decisions", "drata", "apiTokenSecretRef", "baseUrl", "runtime",
    "logLevel", "maxConcurrency", "dryRun">>

MCKey == {MCFields[i] : i \in DOMAIN MCFields} \cup {"allowAlternateHost", "name"}

MCKind ==
  [k \in MCKey |->
     CASE k \in {"drata", "runtime"} -> "object" [] k = "decisions" -> "optional_object"
       [] k = "apiTokenSecretRef" -> "token_ref" [] k = "baseUrl" -> "url" [] k = "allow" -> "list"
       [] k = "logLevel" -> "level" [] k = "maxConcurrency" -> "number" [] k = "dryRun" -> "flag"
       [] k = "identity" -> "optional_flag" [] k = "typo" -> "unknown"
       [] k \in {"allowAlternateHost", "name"} -> "loose"]

MCAbove ==
  [k \in MCKey |->
     CASE k \in {"apiTokenSecretRef", "baseUrl", "allowAlternateHost"} -> {"drata"}
       [] k = "name" -> {"drata", "apiTokenSecretRef"}
       [] k \in {"logLevel", "maxConcurrency", "dryRun"} -> {"runtime"}
       [] OTHER -> {}]

Sample(dry) ==
  [k \in MCKey |->
     CASE k \in {"drata", "runtime"} -> "object" [] k = "apiTokenSecretRef" -> "ref"
       [] k = "baseUrl" -> "home" [] k = "allow" -> "list" [] k \in {"name", "logLevel"} -> "text"
       [] k = "maxConcurrency" -> "number" [] k = "dryRun" -> dry
       [] k \in {"typo", "decisions", "identity", "allowAlternateHost"} -> "missing"]

Elsewhere(v) == [Sample("false") EXCEPT !["baseUrl"] = "elsewhere", !["allowAlternateHost"] = v]

OverrideValue == {"text", "secret", "secrets", "elsewhere", "true", "false", "number"}

MCSetups ==
  [file : {Unreadable}, env : {{}}]
  \cup {[file |-> [Sample("false") EXCEPT ![k] = v], env |-> {}] : k \in MCKey, v \in Value}
  \cup {[file |-> f, env |-> {[key |-> k, value |-> v]}] :
          f \in {Sample("true"), Sample("false"), Elsewhere("null"), Elsewhere("false")}, k \in MCKey, v \in OverrideValue}
  \cup {[file |-> Elsewhere("true"), env |-> {[key |-> k, value |-> "text"], o}] :
          k \in {"drata", "runtime"},
          o \in {[key |-> "baseUrl", value |-> "home"], [key |-> "dryRun", value |-> "true"]}}
=============================================================================
