-------------------------- MODULE ConfigProcessor --------------------------
(***************************************************************************)
(* Configuration resolution of tardis/src/config/config_processor.rs:      *)
(* TardisConfig::init runs do_init once over the local files and the       *)
(* environment and, when that first result enables a config center, runs   *)
(* it a second time with the two remote documents layered in between.      *)
(* do_init adds its sources to a config-rs builder in priority order,       *)
(* builds (reading every source in that order), extracts cs/csm/fw and,     *)
(* when a salt is set, decrypts ENC(...) tokens in the serialized result.  *)
(*                                                                         *)
(* A document is a partial function from dotted leaf keys to values; the   *)
(* builder overlays documents leaf by leaf, a later source winning.         *)
(* A remote administrator publishes and deletes documents concurrently     *)
(* (publish_config/delete_config of the test tooling).                     *)
(***************************************************************************)
EXTENDS Integers, Sequences, SequencesExt, FiniteSets, TLC

CONSTANTS
  WorkspaceKeys,   \* leaves under cs / csm.<module>: free-form values
  FwUrlKeys,       \* fw leaves of type Url (CacheModuleConfig.url)
  FwStrKeys,       \* other fw leaves of type String
  PlainVals,       \* values that are not ENC tokens; valid for every type
  QuotedVals,      \* plaintexts that contain a '"' (only ever decrypted)
  EncOf,           \* ENC(<hex>) token -> its plaintext, or Corrupt
  PaddedTokens,    \* ENC(...) texts whose payload has a '=': no regex match
  AppIds,          \* non-empty values of fw.app.id
  Salt16,          \* salts of 16 bytes
  SaltOther,       \* non-empty salts of another length
  Missing,         \* model value: file absent / document never published
  Malformed,       \* model value: content that fails to parse
  Corrupt,         \* model value: a token that does not decrypt
  NoConfig,        \* model value: nothing installed process-wide yet
  DefaultCands,    \* possible contents of conf-default.<fmt>
  ProfileCands,    \* possible contents of conf-<profile>.<fmt>
  EnvCands,        \* possible documents built from TARDIS_* variables
  RemoteCands,     \* documents an administrator may publish
  Profiles,        \* values of the PROFILE variable at init
  NetOutcomes,     \* subset of {"ok","status","transport","stall"}
  RelativePath,    \* init(Some(path)) when TRUE, init(None) when FALSE
  Crypto,          \* the crate is built with the "crypto" feature
  MaxInits,        \* bound on calls of TardisConfig::init
  MaxPublish       \* bound on remote publish/delete operations

ASSUME NetOutcomes \subseteq {"ok", "status", "transport", "stall"}
ASSUME {Missing, Malformed, Corrupt, NoConfig} \cap (PlainVals \cup DOMAIN EncOf) = {}
ASSUME RelativePath \in BOOLEAN /\ Crypto \in BOOLEAN
ASSUME MaxInits \in Nat /\ MaxPublish \in Nat

(* The fw leaves whose values steer control flow (names as in the code). *)
KindKey   == "fw.conf_center.kind"
FormatKey == "fw.conf_center.format"
AppIdKey  == "fw.app.id"
SaltKey   == "fw.adv.salt"
BacktraceKey == "fw.adv.backtrace"
CtlKeys   == {KindKey, FormatKey, AppIdKey, SaltKey, BacktraceKey}

Keys      == WorkspaceKeys \cup FwUrlKeys \cup FwStrKeys \cup CtlKeys
Tokens    == DOMAIN EncOf
Values    == PlainVals \cup Tokens \cup PaddedTokens \cup AppIds \cup Salt16 \cup SaltOther
             \cup {"", "nacos", "Nacos", "apollo", "toml", "TOML", "json", "yaml", "xml",
                "true", "false"}

LocalNames  == {"local_default", "local_profile"}
RemoteNames == {"remote_default", "remote_profile"}
SourceNames == LocalNames \cup RemoteNames \cup {"env"}

IsDoc(d) == DOMAIN d \subseteq Keys /\ \A k \in DOMAIN d : d[k] \in Values
EmptyDoc == [k \in {} |-> ""]

None == [cause |-> "none", code |-> ""]   \* outcome before any init
Ok   == [cause |-> "ok", code |-> ""]     \* outcome of a successful init

VARIABLES
  local,      \* the local files, fixed for the run
  envDoc,     \* the TARDIS_* environment, fixed for the run
  remote,     \* the config center's documents
  profile,    \* PROFILE read by the running init
  pc,         \* "idle" | "add" | "build" | "after" | "stalled" | "crashed"
  pass,       \* 1: local-only do_init, 2: do_init with the config center
  pending,    \* sources added to the builder and not yet read by build()
  layers,     \* documents read so far by build(), in reading order
  result,     \* configuration returned by the last do_init
  outcome,    \* [cause, code] of the last init: None, Ok or an error
  published,  \* process-wide configuration, or NoConfig
  pubLayers,  \* layers of the pass that produced published (history)
  watchers,   \* polling tasks spawned by do_init
  inits,      \* init calls so far
  publishes,  \* remote publish/delete operations so far
  backtrace,  \* the process's RUST_BACKTRACE: "unset", "0" or "1"
  snapshots   \* states of the config center since the running init began (history)

vars == <<local, envDoc, remote, profile, pc, pass, pending, layers, result,
          outcome, published, pubLayers, watchers, inits, publishes, backtrace,
          snapshots>>

-----------------------------------------------------------------------------
(* Helpers *)

Get(d, k, default) == IF k \in DOMAIN d THEN d[k] ELSE default

(* config-rs overlays a later source on the merged earlier ones. *)
Overlay(acc, d) == d @@ acc

Merged(ls) == FoldLeft(Overlay, EmptyDoc, [i \in DOMAIN ls |-> ls[i].doc])

(* The ENC regex replacement applied to one string value. *)
Decrypt(v) == IF v \in Tokens THEN EncOf[v] ELSE v

Fail(cause, code) ==
  /\ outcome' = [cause |-> cause, code |-> code]
  /\ pc' = "idle"
  /\ UNCHANGED <<published, pubLayers>>

Append1(name, d) == layers' = Append(layers, [src |-> name, doc |-> d])

-----------------------------------------------------------------------------
Init ==
  /\ local \in [local_default : DefaultCands, local_profile : ProfileCands]
  /\ envDoc \in EnvCands
  /\ remote \in [RemoteNames -> RemoteCands \cup {Missing}]
  /\ profile \in Profiles
  /\ pc = "idle"
  /\ pass = 1
  /\ pending = <<>>
  /\ layers = <<>>
  /\ result = EmptyDoc
  /\ outcome = None
  /\ published = NoConfig
  /\ pubLayers = <<>>
  /\ watchers = 0
  /\ inits = 0
  /\ publishes = 0
  /\ backtrace = "unset"
  /\ snapshots = {remote}

(* TardisConfig::init entry: profile = fetch_profile(), then do_init(None). *)
StartInit ==
  /\ pc = "idle"
  /\ inits < MaxInits
  /\ \E p \in Profiles : profile' = p
  /\ inits' = inits + 1
  /\ pc' = "add"
  /\ pass' = 1
  /\ layers' = <<>>
  /\ snapshots' = {remote}
  /\ UNCHANGED <<local, backtrace, envDoc, remote, pending, result, outcome, published,
                 pubLayers, watchers, publishes>>

(* do_init, pass 1: local files when a relative path is given, then env. *)
LocalSources ==
  IF RelativePath
  THEN <<"local_default">> \o (IF profile # "" THEN <<"local_profile">> ELSE <<>>)
  ELSE <<>>

(* Mutant: the polling task spawned outside `if let Some(conf_center)`. *)
AddSourcesSpawnAlways ==
  /\ pc = "add"
  /\ pass = 1
  /\ pending' = LocalSources \o <<"env">>
  /\ watchers' = watchers + 1
  /\ pc' = "build"
  /\ UNCHANGED <<local, backtrace, snapshots, envDoc, remote, profile, pass, layers, result, outcome,
                 published, pubLayers, inits, publishes>>

AddSources ==
  /\ pc = "add"
  /\ pass = 1
  /\ pending' = LocalSources \o <<"env">>
  /\ pc' = "build"
  /\ UNCHANGED <<local, backtrace, snapshots, envDoc, remote, profile, pass, layers, result, outcome,
                 published, pubLayers, watchers, inits, publishes>>

(* do_init, pass 2: the config center of the pass-1 result is checked,    *)
(* its document urls are added after the local files, the polling task   *)
(* is spawned, and env is added last.                                     *)
(* to_lowercase() of the kind and the format, over the values used. *)
LowerCase == ("Nacos" :> "nacos") @@ ("TOML" :> "toml")
Lower(v) == IF v \in DOMAIN LowerCase THEN LowerCase[v] ELSE v

CenterFormat == Lower(Get(result, FormatKey, "toml"))
CenterKind   == Lower(Get(result, KindKey, ""))

RejectConfCenter ==
  /\ pc = "add"
  /\ pass = 2
  /\ \/ /\ CenterFormat \notin {"toml", "json", "yaml"}
        /\ Fail("bad_format", "FormatError")
     \/ /\ CenterFormat \in {"toml", "json", "yaml"}
        /\ CenterKind # "nacos"
        /\ Fail("bad_kind", "FormatError")
  /\ UNCHANGED <<local, backtrace, snapshots, envDoc, remote, profile, pass, pending, layers, result,
                 watchers, inits, publishes>>

(* Mutant: the TARDIS_* source added before the remote documents. *)
AddSourcesWithConfCenterEnvFirst ==
  /\ pc = "add"
  /\ pass = 2
  /\ CenterFormat \in {"toml", "json", "yaml"}
  /\ CenterKind = "nacos"
  /\ pending' = LocalSources \o <<"env">> \o <<"remote_default", "remote_profile">>
  /\ watchers' = watchers + 1
  /\ pc' = "build"
  /\ UNCHANGED <<local, backtrace, snapshots, envDoc, remote, profile, pass, layers, result, outcome,
                 published, pubLayers, inits, publishes>>

AddSourcesWithConfCenter ==
  /\ pc = "add"
  /\ pass = 2
  /\ CenterFormat \in {"toml", "json", "yaml"}
  /\ CenterKind = "nacos"
  /\ pending' = LocalSources \o <<"remote_default", "remote_profile">> \o <<"env">>
  /\ watchers' = watchers + 1
  /\ pc' = "build"
  /\ UNCHANGED <<local, backtrace, snapshots, envDoc, remote, profile, pass, layers, result, outcome,
                 published, pubLayers, inits, publishes>>

(* build(): File source with required(true). A missing file is a Foreign  *)
(* error (Wrapped), a parse error a FileParse error (FormatError).         *)
CollectLocal ==
  /\ pc = "build"
  /\ pending # <<>>
  /\ Head(pending) \in LocalNames
  /\ LET src == local[Head(pending)] IN
       \/ src = Missing /\ Fail("local_missing", "Wrapped") /\ UNCHANGED layers
       \/ src = Malformed /\ Fail("local_malformed", "FormatError") /\ UNCHANGED layers
       \/ /\ src \notin {Missing, Malformed}
          /\ Append1(Head(pending), src)
          /\ UNCHANGED <<pc, outcome, published, pubLayers>>
  /\ pending' = Tail(pending)
  /\ UNCHANGED <<local, backtrace, snapshots, envDoc, remote, profile, pass, result, watchers, inits,
                 publishes>>

(* build(): HttpSource::collect. 404 yields an empty map, 200 is parsed   *)
(* (a parse error is Foreign), another status is a Message error, and a   *)
(* transport error is Foreign; all three are Wrapped by From<ConfigError>. *)
(* reqwest::get has no timeout: a stalled server leaves the await pending  *)
(* forever.                                                                *)
HttpCollect(name, net) ==
  LET doc == remote[name] IN
  /\ pending' = Tail(pending)
  /\ \/ /\ net = "ok" /\ doc = Missing
        /\ Append1(name, EmptyDoc)
        /\ UNCHANGED <<pc, outcome, published, pubLayers>>
     \/ /\ net = "ok" /\ doc = Malformed
        /\ Fail("remote_malformed", "Wrapped") /\ UNCHANGED layers
     \/ /\ net = "ok" /\ doc \notin {Missing, Malformed}
        /\ Append1(name, doc)
        /\ UNCHANGED <<pc, outcome, published, pubLayers>>
     \/ net = "status" /\ Fail("remote_status", "Wrapped") /\ UNCHANGED layers
     \/ net = "transport" /\ Fail("remote_transport", "Wrapped") /\ UNCHANGED layers
     \/ /\ net = "stall" /\ pc' = "stalled"
        /\ UNCHANGED <<layers, outcome, published, pubLayers>>

(* The builder awaits the remote sources one after the other. *)
CollectRemote ==
  /\ pc = "build"
  /\ pending # <<>>
  /\ Head(pending) \in RemoteNames
  /\ \E net \in NetOutcomes : HttpCollect(Head(pending), net)
  /\ UNCHANGED <<local, backtrace, snapshots, envDoc, remote, profile, pass, result, watchers, inits,
                 publishes>>

(* build(): Environment::with_prefix("TARDIS"), always last. *)
CollectEnv ==
  /\ pc = "build"
  /\ pending # <<>>
  /\ Head(pending) = "env"
  /\ Append1("env", envDoc)
  /\ pending' = Tail(pending)
  /\ UNCHANGED <<local, backtrace, snapshots, envDoc, remote, profile, pc, pass, result, outcome,
                 published, pubLayers, watchers, inits, publishes>>

(* After build(): cs, csm and fw are extracted; fw is deserialized into   *)
(* FrameworkConfig, so a Url field holding anything but a URL fails with   *)
(* a Type error (FormatError). With a non-empty salt the crypto feature is needed, *)
(* the salt must be 16 bytes, and decryption() runs on the JSON of the     *)
(* workspace map and of the typed FrameworkConfig; a token that does not   *)
(* decrypt hits .expect() and panics; a plaintext with a '"' breaks the    *)
(* JSON that str_to_obj parses back.                                       *)
(* env::set_var("RUST_BACKTRACE", ..) from fw.adv.backtrace, done as soon  *)
(* as fw is typed, before the salt checks and decryption.                 *)
Backtrace(conf) == IF Get(conf, BacktraceKey, "false") = "true" THEN "1" ELSE "0"

(* A `url: Url` field of the component DTOs (CacheModuleConfig,           *)
(* MQModuleConfig) deserializes only from a string that parses as a URL;   *)
(* an ENC(...) text does not.                                              *)
UrlTyped(v) == v \in PlainVals

TypedOK(conf) == \A k \in FwUrlKeys \cap DOMAIN conf : UrlTyped(conf[k])

(* decryption() over obj_to_string of the workspace map and of the fw. *)
Decrypted(conf) == [k \in DOMAIN conf |-> Decrypt(conf[k])]

(* Mutant: RUST_BACKTRACE set by the first do_init only. *)
ExtractBacktraceOnce ==
  /\ pc = "build"
  /\ pending = <<>>
  /\ LET conf == Merged(layers)
         salt == Get(conf, SaltKey, "")
         dec  == Decrypted(conf)
     IN CASE ~TypedOK(conf) -> Fail("typed_field", "FormatError") /\ UNCHANGED result
          [] salt = "" -> result' = conf /\ pc' = "after"
                          /\ UNCHANGED <<outcome, published, pubLayers>>
          [] ~Crypto -> Fail("no_crypto", "FormatError") /\ UNCHANGED result
          [] salt \notin Salt16 -> Fail("salt_len", "FormatError") /\ UNCHANGED result
          [] \E k \in DOMAIN conf : dec[k] = Corrupt ->
               pc' = "crashed" /\ UNCHANGED <<result, outcome, published, pubLayers>>
          [] \E k \in DOMAIN conf : dec[k] \in QuotedVals ->
               Fail("reparse", "FormatError") /\ UNCHANGED result
          [] OTHER -> result' = dec /\ pc' = "after"
                      /\ UNCHANGED <<outcome, published, pubLayers>>
  /\ backtrace' = IF TypedOK(Merged(layers)) /\ pass = 1 THEN Backtrace(Merged(layers)) ELSE backtrace
  /\ UNCHANGED <<local, snapshots, envDoc, remote, profile, pass, pending, layers, watchers,
                 inits, publishes>>

Extract ==
  /\ pc = "build"
  /\ pending = <<>>
  /\ LET conf == Merged(layers)
         salt == Get(conf, SaltKey, "")
         dec  == Decrypted(conf)
     IN CASE ~TypedOK(conf) -> Fail("typed_field", "FormatError") /\ UNCHANGED result
          [] salt = "" -> result' = conf /\ pc' = "after"
                          /\ UNCHANGED <<outcome, published, pubLayers>>
          [] ~Crypto -> Fail("no_crypto", "FormatError") /\ UNCHANGED result
          [] salt \notin Salt16 -> Fail("salt_len", "FormatError") /\ UNCHANGED result
          [] \E k \in DOMAIN conf : dec[k] = Corrupt ->
               pc' = "crashed" /\ UNCHANGED <<result, outcome, published, pubLayers>>
          [] \E k \in DOMAIN conf : dec[k] \in QuotedVals ->
               Fail("reparse", "FormatError") /\ UNCHANGED result
          [] OTHER -> result' = dec /\ pc' = "after"
                      /\ UNCHANGED <<outcome, published, pubLayers>>
  /\ backtrace' = IF TypedOK(Merged(layers)) THEN Backtrace(Merged(layers)) ELSE backtrace
  /\ UNCHANGED <<local, snapshots, envDoc, remote, profile, pass, pending, layers, watchers,
                 inits, publishes>>

(* init, after the first do_init: a config center needs a non-empty       *)
(* fw.app.id, and then do_init runs again with it.                         *)
CenterEnabled(conf) == KindKey \in DOMAIN conf

(* Mutant: a center without app id falls back to the local-only result. *)
RejectNoAppIdFallBack ==
  /\ pc = "after"
  /\ pass = 1
  /\ CenterEnabled(result)
  /\ Get(result, AppIdKey, "") = ""
  /\ published' = result
  /\ pubLayers' = layers
  /\ outcome' = Ok
  /\ pc' = "idle"
  /\ UNCHANGED <<local, backtrace, snapshots, envDoc, remote, profile, pass, pending, layers, result,
                 watchers, inits, publishes>>

RejectNoAppId ==
  /\ pc = "after"
  /\ pass = 1
  /\ CenterEnabled(result)
  /\ Get(result, AppIdKey, "") = ""
  /\ Fail("no_app_id", "FormatError")
  /\ UNCHANGED <<local, backtrace, snapshots, envDoc, remote, profile, pass, pending, layers, result,
                 watchers, inits, publishes>>

StartSecondPass ==
  /\ pc = "after"
  /\ pass = 1
  /\ CenterEnabled(result)
  /\ Get(result, AppIdKey, "") # ""
  /\ pass' = 2
  /\ layers' = <<>>
  /\ pc' = "add"
  /\ UNCHANGED <<local, backtrace, snapshots, envDoc, remote, profile, pending, result, outcome,
                 published, pubLayers, watchers, inits, publishes>>

(* Mutant: only the local-only branch of `config = if let ...` returns. *)
PublishLocalOnly ==
  /\ pc = "after"
  /\ pass = 1 /\ ~CenterEnabled(result)
  /\ published' = result
  /\ pubLayers' = layers
  /\ outcome' = Ok
  /\ pc' = "idle"
  /\ UNCHANGED <<local, backtrace, snapshots, envDoc, remote, profile, pass, pending, layers, result,
                 watchers, inits, publishes>>

(* init returns Ok(config); TardisFuns::init installs it process-wide. *)
Publish ==
  /\ pc = "after"
  /\ pass = 2 \/ ~CenterEnabled(result)
  /\ published' = result
  /\ pubLayers' = layers
  /\ outcome' = Ok
  /\ pc' = "idle"
  /\ UNCHANGED <<local, backtrace, snapshots, envDoc, remote, profile, pass, pending, layers, result,
                 watchers, inits, publishes>>

(* The administrator publishes or deletes a remote document. *)
RemoteWrite ==
  /\ publishes < MaxPublish
  /\ \E r \in RemoteNames, d \in RemoteCands \cup {Missing} :
       /\ d # remote[r]
       /\ remote' = [remote EXCEPT ![r] = d]
  /\ publishes' = publishes + 1
  /\ snapshots' = snapshots \cup {remote'}
  /\ UNCHANGED <<local, backtrace, envDoc, profile, pc, pass, pending, layers, result,
                 outcome, published, pubLayers, watchers, inits>>

(* The spawned polling task only sleeps (its loop body is commented out), *)
(* so it has no step that changes state.                                   *)

ResolverStep ==
  \/ AddSources \/ RejectConfCenter \/ AddSourcesWithConfCenter
  \/ CollectLocal \/ CollectRemote \/ CollectEnv \/ Extract
  \/ RejectNoAppId \/ StartSecondPass \/ Publish

Next == StartInit \/ ResolverStep \/ RemoteWrite

(* A running init is a future polled by the tokio runtime until it        *)
(* returns; the caller's init calls and the administrator are not forced. *)
Spec == Init /\ [][Next]_vars /\ WF_vars(ResolverStep)

-----------------------------------------------------------------------------
(* Properties *)

TypeOK ==
  /\ \A n \in LocalNames : local[n] \in {Missing, Malformed} \/ IsDoc(local[n])
  /\ IsDoc(envDoc)
  /\ \A r \in RemoteNames : remote[r] \in {Missing, Malformed} \/ IsDoc(remote[r])
  /\ profile \in Profiles
  /\ pc \in {"idle", "add", "build", "after", "stalled", "crashed"}
  /\ pass \in {1, 2}
  /\ pending \in Seq(SourceNames)
  /\ \A i \in DOMAIN layers : layers[i].src \in SourceNames /\ IsDoc(layers[i].doc)
  /\ IsDoc(result)
  /\ outcome \in [cause : STRING, code : {"", "Wrapped", "FormatError"}]
  /\ published = NoConfig \/ IsDoc(published)
  /\ watchers \in 0..MaxInits
  /\ inits \in 0..MaxInits
  /\ publishes \in 0..MaxPublish
  /\ backtrace \in {"unset", "0", "1"}
  /\ snapshots \subseteq [RemoteNames -> RemoteCands \cup {Missing}]

(* The documented fetch priority (doc comment of TardisConfig): local      *)
(* default < local profile < remote default < remote profile < TARDIS_*    *)
(* environment. Every leaf of the installed configuration carries the     *)
(* value of the highest-priority source of its pass that defines it, and   *)
(* no leaf appears that no source defines.                                 *)
Rank == [local_default |-> 1, local_profile |-> 2, remote_default |-> 3,
         remote_profile |-> 4, env |-> 5]

TopValue(ls, k) ==
  LET defining == {i \in DOMAIN ls : k \in DOMAIN ls[i].doc}
      top == CHOOSE i \in defining : \A j \in defining : Rank[ls[j].src] <= Rank[ls[i].src]
  IN ls[top].doc[k]

PublishedHonoursPriority ==
  published # NoConfig =>
    /\ DOMAIN published = UNION {DOMAIN pubLayers[i].doc : i \in DOMAIN pubLayers}
    /\ \A k \in DOMAIN published :
         LET v == TopValue(pubLayers, k) IN
         published[k] = IF Get(published, SaltKey, "") = "" THEN v ELSE Decrypt(v)

(* init never installs a configuration that enables a config center but    *)
(* was built without the config center's documents: the second do_init    *)
(* must have read both remote documents (a 404 counts as read, empty).     *)
ConfigCenterNeverLocalOnly ==
  published # NoConfig /\ CenterEnabled(published) =>
    RemoteNames \subseteq {pubLayers[i].src : i \in DOMAIN pubLayers}

(* Every init call returns (or the process panics): no await of do_init    *)
(* is left pending forever.                                                *)
InitTerminates == pc = "add" ~> pc \in {"idle", "crashed"}

(* After an init that succeeds, the process's RUST_BACKTRACE (set at line *)
(* 176 in every pass that types fw) is the fw.adv.backtrace of the         *)
(* configuration installed, not of the first pass or of an earlier init:  *)
(* the second pass, whose remote documents may change the flag, sets it    *)
(* again.                                                                  *)
InstalledBacktrace ==
  pc = "idle" /\ outcome = Ok => backtrace = Backtrace(published)

(* init implements ConfigResolution: a call either fails and leaves the   *)
(* installed configuration alone, or installs the local files, the         *)
(* remote documents as the center held them at one moment of the call,    *)
(* and the environment, in the documented order; and every call returns.  *)
(* The running init is busy, the history of center states is `seen`.     *)
(* torn_read.cfg finds it violated once the center is written twice      *)
(* during one init (see the README).                                      *)
Resolution == INSTANCE ConfigResolution
                WITH busy <- pc # "idle", seen <- snapshots, installed <- pubLayers

ImplementsResolution == Resolution!Spec

-----------------------------------------------------------------------------
(* Statements of spec.md that the code does not meet (violation runs). *)

(* spec 4.6: one polling task per process. do_init spawns a new endless   *)
(* task on every call that reaches the config center, and never stops one. *)
AtMostOneWatcher == watchers <= 1

(* spec 4.6 and test_config_with_remote.rs: while the polling task runs,  *)
(* a change of a remote document is eventually reflected in the installed *)
(* configuration.                                                          *)
AsServed(d) == IF d = Missing THEN EmptyDoc ELSE d

Stale(r) ==
  /\ published # NoConfig
  /\ remote[r] # Malformed
  /\ \E i \in DOMAIN pubLayers :
       pubLayers[i].src = r /\ pubLayers[i].doc # AsServed(remote[r])

RemoteChangeApplied == \A r \in RemoteNames : (watchers > 0 /\ Stale(r)) ~> ~Stale(r)

(* spec 4.3 and 8 (decryption round trip): with a 16-byte salt, sources   *)
(* whose ENC tokens all decrypt and whose other values are well typed      *)
(* resolve; decryption happens before typed parsing and yields the         *)
(* plaintext whatever characters it holds.                                 *)
Sound(v) == v \in PlainVals \/ (v \in Tokens /\ EncOf[v] # Corrupt)

DecryptRoundTrip ==
  LET conf == Merged(layers) IN
  outcome.cause \in {"typed_field", "reparse"} /\ Get(conf, SaltKey, "") \in Salt16
    => \E k \in (DOMAIN conf) \ CtlKeys : ~Sound(conf[k])

(* spec 7: every stage returns a typed failure; a token that fails to     *)
(* decrypt is a fatal error of the resolution, not a process panic.        *)
NoPanic == pc # "crashed"

(* spec 7: the error kind of each failure cause. *)
SpecKind == [local_missing |-> "NotFound", local_malformed |-> "FormatError",
             remote_transport |-> "IOError", remote_status |-> "IOError",
             remote_malformed |-> "FormatError", no_app_id |-> "BadRequest",
             salt_len |-> "BadRequest", typed_field |-> "FormatError",
             reparse |-> "FormatError"]

ErrorsClassifiedPerSpec ==
  outcome.cause \in DOMAIN SpecKind => outcome.code = SpecKind[outcome.cause]

(* spec 3: a malformed ENC token is a fatal parse error, never silently    *)
(* skipped: with a 16-byte salt no ENC(...) text survives resolution.      *)
NoTokenSurvives ==
  published # NoConfig /\ Get(published, SaltKey, "") \in Salt16 =>
    \A k \in DOMAIN published : published[k] \notin Tokens \cup PaddedTokens

(* spec 4.5 and 7: a failed resolution publishes nothing.  do_init sets    *)
(* the process-wide RUST_BACKTRACE as soon as fw is typed, before the salt *)
(* checks, decryption and the second pass, so the environment should and  *)
(* does not follow the installed configuration.                            *)
BacktraceFollowsInstalled ==
  pc = "idle" => backtrace = IF published = NoConfig THEN "unset" ELSE Backtrace(published)

=============================================================================
