--------------------------- MODULE ProviderConfig ---------------------------
(***************************************************************************)
(* From the command line and the environment to a provider: presets        *)
(* (src/src/summary/provider.rs) and settings (src/src/config.rs), as pure *)
(* functions. Strings are told apart as far as the functions tell them     *)
(* apart: a key is the place it was found in, a URL is what origin_of and  *)
(* host_of make of it, a model is given or not.                            *)
(***************************************************************************)
CONSTANTS
    BaseUrl,      \* what --base-url may say
    LoopbackIp,   \* the hosts that std::net takes for loopback addresses
    Malformed,    \* a URL that does not split
    None

(* The scheme and the authority, in lower case, and the rest. *)
Url(scheme, user, host, port, path) ==
    [scheme |-> scheme, user |-> user, host |-> host, port |-> port, path |-> path]

-----------------------------------------------------------------------------
(* Presets. *)

ProviderId ==
    {"openrouter", "openai", "anthropic", "ollama", "lmstudio",
     "openai-compatible", "anthropic-compatible"}

(* The preset table: what the user need not say, and whether a key must be *)
(* found.                                                                  *)
VendorUrl(host, path) == Url("https", None, host, None, path)
LocalUrl(port) == Url("http", None, "localhost", port, "/v1")

DefaultUrl(id) ==
    CASE id = "openrouter" -> VendorUrl("openrouter.ai", "/api/v1")
      [] id = "openai"     -> VendorUrl("api.openai.com", "/v1")
      [] id = "anthropic"  -> VendorUrl("api.anthropic.com", "")
      [] id = "ollama"     -> LocalUrl("11434")
      [] id = "lmstudio"   -> LocalUrl("1234")
      [] OTHER             -> None

Vendor == {"openrouter", "openai", "anthropic"}

HasDefaultModel(id) == id \in Vendor
NeedsKey(id) == id \in Vendor

(* ProviderId::env_var *)
EnvVar(id) ==
    CASE id = "openrouter" -> "OPENROUTER_API_KEY"
      [] id = "openai"     -> "OPENAI_API_KEY"
      [] id = "anthropic"  -> "ANTHROPIC_API_KEY"
      [] OTHER             -> None

(* Userinfo and port count; a URL that does not split has no origin. *)
SameOrigin(a, b) ==
    /\ a # Malformed
    /\ b # Malformed
    /\ [a EXCEPT !.path = None] = [b EXCEPT !.path = None]

IsLoopbackUrl(url) ==
    /\ url # Malformed
    /\ url.host \in {"localhost", "::1"} \cup LoopbackIp

-----------------------------------------------------------------------------
(* Settings. *)

KeyFile  == "~/.openrouter-key"
KeyPlace == {"HERDASH_API_KEY", "OPENROUTER_API_KEY", "OPENAI_API_KEY", "ANTHROPIC_API_KEY",
             KeyFile}

ASSUME NoneIsNoPlace == None \notin KeyPlace

(* What each place holds; white space alone counts as nothing. *)
Environment == [KeyPlace -> {"unset", "blank", "set"}]
Holding(env) == {k \in KeyPlace : env[k] = "set"}

Flags ==
    [noSummaries : BOOLEAN,
     provider    : ProviderId \cup {None},
     baseUrl     : BaseUrl \cup {None},
     model       : BOOLEAN,
     noMouse     : BOOLEAN,
     noToken     : BOOLEAN]

(* Mutated form: the vendor's key goes wherever --base-url points. *)
ResolveApiKeyAnywhere(id, url, env) ==
    CASE "HERDASH_API_KEY" \in Holding(env) -> "HERDASH_API_KEY"
      [] "HERDASH_API_KEY" \notin Holding(env) /\ EnvVar(id) \in Holding(env) -> EnvVar(id)
      [] OTHER -> None

(* The key named for the run goes anywhere; a vendor's own only to the     *)
(* origin of its preset.                                                   *)
ResolveApiKey(id, url, env) ==
    IF "HERDASH_API_KEY" \in Holding(env) THEN "HERDASH_API_KEY"
    ELSE IF DefaultUrl(id) = None \/ ~SameOrigin(DefaultUrl(id), url) THEN None
    ELSE IF EnvVar(id) \in Holding(env) THEN EnvVar(id)
    ELSE IF id = "openrouter" /\ KeyFile \in Holding(env) THEN KeyFile
    ELSE None

(* resolve_provider, by the provider it would settle on. *)
IdOf(flags)  == IF flags.provider = None THEN "openrouter" ELSE flags.provider
UrlOf(flags) == IF flags.baseUrl = None THEN DefaultUrl(IdOf(flags)) ELSE flags.baseUrl

(* "--base-url is required", "--model is required" *)
Refused(flags) ==
    /\ ~flags.noSummaries
    /\ UrlOf(flags) = None \/ ~(flags.model \/ HasDefaultModel(IdOf(flags)))

Provider ==
    [id  : ProviderId,
     url : (BaseUrl \cup {DefaultUrl(id) : id \in ProviderId}) \ {None},
     key : KeyPlace \cup {None}]

Resolved(flags, env) ==
    [id |-> IdOf(flags), url |-> UrlOf(flags),
     key |-> ResolveApiKey(IdOf(flags), UrlOf(flags), env)]

NeedsMissingKey(p) == NeedsKey(p.id) /\ p.key = None

(* summaries_status: the mode, and what the header adds to it. *)
SummariesStatus(flags, env) ==
    LET p == Resolved(flags, env)
    IN CASE flags.noSummaries -> [mode |-> "OffByFlag", detail |-> None]
         [] ~flags.noSummaries /\ NeedsMissingKey(p) ->
              [mode   |-> "OffNoKey",
               detail |-> IF EnvVar(p.id) \in Holding(env) THEN "not sent" ELSE "not set"]
         [] OTHER -> [mode |-> IF IsLoopbackUrl(p.url) THEN "OnLocal" ELSE "On",
                      detail |-> "name"]

(* Mutated form: a provider whose key is missing is handed on. *)
UsableProviderAnyway(flags, env) ==
    IF flags.noSummaries THEN None ELSE Resolved(flags, env)

(* from_cli keeps no provider that has no usable key. *)
UsableProvider(flags, env) ==
    IF flags.noSummaries \/ NeedsMissingKey(Resolved(flags, env))
    THEN None
    ELSE Resolved(flags, env)
=============================================================================
