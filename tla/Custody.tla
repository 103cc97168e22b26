-------------------------------- MODULE Custody --------------------------------
(***************************************************************************)
(* keycustody/resolver.py and the manifest rules of config_schema.py, as   *)
(* operators: the resolver keeps no state, it asks the machine again on    *)
(* every call.  A world is what it can ask about: whether the public half  *)
(* of a local key exists, whether a keychain CLI is on PATH, and which     *)
(* cloud or HSM SDKs can be imported.                                      *)
(***************************************************************************)
EXTENDS Naturals, Sequences

Profiles == {"dev", "prod"}

SdkProviders == {"pkcs11", "windows_cng", "azure_key_vault", "aws_kms",
                 "gcp_kms", "hashicorp_vault"}
CustodyProviders == {"local_file", "os_keychain"} \cup SdkProviders

WorldsWith(providers) ==
  [pub : BOOLEAN, keychain : BOOLEAN, sdks : SUBSET (SdkProviders \cap providers)]

(* is_available, per provider class; the local filesystem always is. *)
IsAvailable(provider, world) ==
  CASE provider = "local_file"   -> TRUE
    [] provider = "os_keychain"  -> world.keychain
    [] provider \in SdkProviders -> provider \in world.sdks

(* resolve_handle, per provider class: only a local key is looked for, a    *)
(* keychain item or a cloud key is taken to exist once its store is there.  *)
ResolvesHandle(provider, world) ==
  IsAvailable(provider, world) /\ (provider = "local_file" => world.pub)

(* resolve(...).usable; the prod profile refuses a local key (CA/B CSC-17). *)
ForbiddenInProd(profile, provider) == profile = "prod" /\ provider = "local_file"

Usable(profile, provider, world) ==
  ~ForbiddenInProd(profile, provider) /\ ResolvesHandle(provider, world)

------------------------------------------------------------------------------
(* A manifest, as the loader sees it before it validates.  supported: its   *)
(* contract_version is the build's; handle: a target's ref is a handle, and *)
(* not inline key material.                                                 *)
HandleOnly(target) == target.handle

(* _prod_requires_hardware_handle, with a loop that stops too early and as  *)
(* it is.                                                                   *)
FirstRequiresHardware(manifest) ==
  manifest.targets # <<>> =>
    ~ForbiddenInProd(manifest.profile, manifest.targets[1].provider)

ProdRequiresHardware(manifest) ==
  \A i \in DOMAIN manifest.targets :
    ~ForbiddenInProd(manifest.profile, manifest.targets[i].provider)

(* SigningConfig.model_validate succeeds. *)
Validates(manifest) ==
  /\ manifest.supported
  /\ \A i \in DOMAIN manifest.targets : HandleOnly(manifest.targets[i])
  /\ ProdRequiresHardware(manifest)

==============================================================================
