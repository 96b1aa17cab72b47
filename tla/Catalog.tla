------------------------------ MODULE Catalog -------------------------------
(***************************************************************************)
(* The catalog of providers and models (infuse/registry/): records are     *)
(* validated as they came, normalised, then kept, each call under one      *)
(* lock.  Seeding looks a record up and registers it under two locks.      *)
(*                                                                         *)
(* A submitted name is its text and whether blanks surround it; a call     *)
(* that raises changes nothing.                                            *)
(***************************************************************************)
EXTENDS Integers, Sequences, FiniteSets

CONSTANTS
    SubmittedProviders, SubmittedModels, \* the records administrators send
    Lowered,                             \* the texts that lower() changes
    MaxChanges                           \* bound: administrators' changes

VARIABLES
    providers, \* _providers: at most one record of an id
    models,    \* _models: at most one record of a provider and a model id
    seeding,   \* _seed_defaults: the record it is at, and what it found
    changes    \* administrators' changes so far

catalog_vars == <<providers, models, seeding, changes>>

lower(text) == IF text \in DOMAIN Lowered THEN Lowered[text] ELSE text

_clean_list(names) == {lower(n.text) : n \in {n \in names : n.text # ""}}

-----------------------------------------------------------------------------
\* A record carries, beside its fields, the keys of its free-form metadata.
_FORBIDDEN_SECRET_KEYS ==
    {"api_key", "apikey", "secret", "secret_key", "password", "token",
     "access_token", "auth_token", "private_key", "bearer_token", "credentials"}

_check_secrets(record) == record.keys \cap _FORBIDDEN_SECRET_KEYS = {}

validate_provider_record(p) ==
    /\ _check_secrets(p)
    /\ "" \notin {p.provider_id.text, p.name.text, p.version.text}

validate_model_record(m) ==
    /\ _check_secrets(m)
    /\ "" \notin {m.model_id.text, m.provider_id.text, m.name.text}
    /\ m.context_window > 0 /\ m.max_output_tokens > 0

normalize_provider_record(p) ==
    [provider_id |-> p.provider_id.text, provider_type |-> lower(p.provider_type.text),
     supported_protocols |-> _clean_list(p.supported_protocols), status |-> p.status]

normalize_model_record(m) ==
    [provider_id |-> m.provider_id.text, model_id |-> m.model_id.text,
     context_window |-> m.context_window, max_output_tokens |-> m.max_output_tokens,
     supports |-> m.supports, declared |-> _clean_list(m.declared), status |-> m.status]

-----------------------------------------------------------------------------
(***************************************************************************)
(* The reference catalog: four active providers of one model each.         *)
(***************************************************************************)
Plain(text) == [text |-> text, padded |-> FALSE]

ProviderRecord(id, protocols) ==
    [provider_id |-> Plain(id), name |-> Plain(id), version |-> Plain("1.0.0"),
     provider_type |-> Plain("cloud"),
     supported_protocols |-> {Plain(t) : t \in protocols}, keys |-> {}, status |-> "ACTIVE"]

ModelRecord(id, provider, window, output, supports, declared) ==
    [model_id |-> Plain(id), provider_id |-> Plain(provider), name |-> Plain(id),
     context_window |-> window, max_output_tokens |-> output, supports |-> supports,
     declared |-> {Plain(t) : t \in declared}, keys |-> {}, status |-> "ACTIVE"]

DefaultProviders ==
    <<ProviderRecord("anthropic", {"http", "sse"}), ProviderRecord("openai", {"http", "sse"}),
      ProviderRecord("google", {"http", "grpc"}), ProviderRecord("deepseek", {"http"})>>

DefaultModels ==
    LET all == {"tools", "vision", "structured_output"} IN
    <<ModelRecord("claude-3-7-sonnet", "anthropic", 200000, 8192, all,
                  {"tools", "vision", "caching", "reasoning", "coding"}),
      ModelRecord("gpt-4o", "openai", 128000, 4096, all,
                  {"tools", "vision", "json", "streaming"}),
      ModelRecord("gemini-2.0-flash", "google", 1000000, 8192, all,
                  {"tools", "vision", "audio", "long_context"}),
      ModelRecord("deepseek-v3", "deepseek", 64000, 4096, all \ {"vision"},
                  {"tools", "coding", "json"})>>

-----------------------------------------------------------------------------
ProviderIds == {p.provider_id : p \in providers}
Key(m) == <<m.provider_id, m.model_id>>
ModelKeys == {Key(m) : m \in models}

register_provider(p) ==
    LET normalized == normalize_provider_record(p) IN
    /\ validate_provider_record(p)
    /\ normalized.provider_id \notin ProviderIds
    /\ providers' = providers \cup {normalized}
    /\ UNCHANGED models

update_provider(p) ==
    LET normalized == normalize_provider_record(p) IN
    /\ validate_provider_record(p)
    /\ normalized.provider_id \in ProviderIds
    /\ providers' = {q \in providers : q.provider_id # normalized.provider_id} \cup {normalized}
    /\ UNCHANGED models

\* Mutant: the models of a deleted provider stay.
Mut_delete_provider(pid) ==
    /\ pid \in ProviderIds
    /\ providers' = {q \in providers : q.provider_id # pid}
    /\ UNCHANGED models

\* The provider goes with its models.
delete_provider(pid) ==
    /\ pid \in ProviderIds
    /\ providers' = {q \in providers : q.provider_id # pid}
    /\ models' = {m \in models : m.provider_id # pid}

register_model(m) ==
    LET normalized == normalize_model_record(m) IN
    /\ validate_model_record(m)
    /\ normalized.provider_id \in ProviderIds
    /\ Key(normalized) \notin ModelKeys
    /\ models' = models \cup {normalized}
    /\ UNCHANGED providers

update_model(m) ==
    LET normalized == normalize_model_record(m) IN
    /\ validate_model_record(m)
    /\ Key(normalized) \in ModelKeys
    /\ models' = {x \in models : Key(x) # Key(normalized)} \cup {normalized}
    /\ UNCHANGED providers

\* Unqualified, the model goes from every provider that has it.
delete_model(mid, pid) ==
    LET gone == {m \in models : m.model_id = mid /\ (pid # {} => m.provider_id \in pid)} IN
    /\ gone # {}
    /\ models' = models \ gone
    /\ UNCHANGED providers

get_model(mid, pid) == {m \in models : m.model_id = mid /\ (pid # {} => m.provider_id \in pid)}

-----------------------------------------------------------------------------
(***************************************************************************)
(* _seed_defaults: providers, then models; what is missing is registered.  *)
(* Registering what another registered meanwhile raises, and so does a     *)
(* model whose provider another deleted: the rest is then not seeded.      *)
(***************************************************************************)
Seeds == DefaultProviders \o DefaultModels
IsProvider(i) == i <= Len(DefaultProviders)

Held(i) == IF IsProvider(i) THEN Seeds[i].provider_id.text \in ProviderIds
           ELSE get_model(Seeds[i].model_id.text, {Seeds[i].provider_id.text}) # {}

SeedLooks ==
    /\ seeding.at <= Len(Seeds) /\ ~seeding.missing
    /\ seeding' = IF Held(seeding.at) THEN [seeding EXCEPT !.at = @ + 1]
                  ELSE [seeding EXCEPT !.missing = TRUE]
    /\ UNCHANGED <<providers, models, changes>>

SeedRegisters ==
    /\ seeding.missing
    /\ \/ /\ IF IsProvider(seeding.at) THEN register_provider(Seeds[seeding.at])
             ELSE register_model(Seeds[seeding.at])
          /\ seeding' = [at |-> seeding.at + 1, missing |-> FALSE]
       \/ /\ Held(seeding.at) \/ (~IsProvider(seeding.at)
                                  /\ Seeds[seeding.at].provider_id.text \notin ProviderIds)
          /\ seeding' = [at |-> Len(Seeds) + 1, missing |-> FALSE]
          /\ UNCHANGED <<providers, models>>
    /\ UNCHANGED changes

Seeded == seeding.at > Len(Seeds)

Administer ==
    /\ changes < MaxChanges /\ changes' = changes + 1 /\ UNCHANGED seeding
    /\ \/ \E p \in SubmittedProviders : register_provider(p) \/ update_provider(p)
       \/ \E m \in SubmittedModels : register_model(m) \/ update_model(m)
       \/ \E pid \in ProviderIds : delete_provider(pid)
       \/ \E m \in models : \E pid \in {{}, {m.provider_id}} : delete_model(m.model_id, pid)

CatalogInit ==
    /\ providers = {} /\ models = {} /\ changes = 0
    /\ seeding = [at |-> 1, missing |-> FALSE]

CatalogNext == SeedLooks \/ SeedRegisters \/ Administer

CatalogSpec == CatalogInit /\ [][CatalogNext]_catalog_vars

-----------------------------------------------------------------------------
\* The catalog is whole: no model is listed whose provider is gone and no
\* provider or model is listed twice, whatever deletions, updates and a
\* seeding (registry/repository.py, registry/service.py) ran in between.
CatalogIsWhole ==
    /\ \A m \in models : m.provider_id \in ProviderIds
    /\ \A p, q \in providers : p.provider_id = q.provider_id => p = q
    /\ \A m, n \in models : Key(m) = Key(n) => m = n
=============================================================================
