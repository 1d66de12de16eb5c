-------------------------- MODULE ConfigResolution --------------------------
(***************************************************************************)
(* What TardisConfig::init promises, without its steps.  A call of init    *)
(* runs for a while and then either leaves the installed configuration as  *)
(* it was (it failed) or installs the layers of one resolution: the local  *)
(* files, the remote documents as the config center held them at one       *)
(* moment of the call (when a center is used) and the TARDIS_* variables,  *)
(* in the documented priority order (doc comment of TardisConfig, lines    *)
(* 25-33 of config_processor.rs).  The config center changes at any time.  *)
(*                                                                         *)
(* An installed configuration is a sequence of [src, doc] layers; the     *)
(* configuration itself is their overlay (see ConfigProcessor).            *)
(***************************************************************************)
EXTENDS Sequences

CONSTANTS
  DefaultCands, ProfileCands, EnvCands, RemoteCands, Profiles,
  Missing, RelativePath

RemoteNames == {"remote_default", "remote_profile"}

EmptyDoc == [k \in {} |-> ""]

VARIABLES
  local, envDoc, remote, profile,
  busy,       \* an init call is running
  seen,       \* the states of the config center since the call began
  installed   \* layers of the installed configuration; <<>> before any

avars == <<local, envDoc, remote, profile, busy, seen, installed>>

L(name, d) == [src |-> name, doc |-> d]

(* A document the center does not hold is served as an empty map. *)
Served(d) == IF d = Missing THEN EmptyDoc ELSE d

LocalLayers ==
  IF RelativePath
  THEN <<L("local_default", local.local_default)>>
       \o (IF profile # "" THEN <<L("local_profile", local.local_profile)>> ELSE <<>>)
  ELSE <<>>

LocalResolution == LocalLayers \o <<L("env", envDoc)>>

CenterResolution(r) ==
  LocalLayers
  \o <<L("remote_default", Served(r.remote_default)), L("remote_profile", Served(r.remote_profile))>>
  \o <<L("env", envDoc)>>

Init ==
  /\ local \in [local_default : DefaultCands, local_profile : ProfileCands]
  /\ envDoc \in EnvCands
  /\ remote \in [RemoteNames -> RemoteCands \cup {Missing}]
  /\ profile \in Profiles
  /\ busy = FALSE
  /\ seen = {remote}
  /\ installed = <<>>

Begin ==
  /\ ~busy
  /\ busy' = TRUE
  /\ profile' \in Profiles
  /\ seen' = {remote}
  /\ UNCHANGED <<local, envDoc, remote, installed>>

Change ==
  /\ remote' \in [RemoteNames -> RemoteCands \cup {Missing}]
  /\ remote' # remote
  /\ seen' = seen \cup {remote'}
  /\ UNCHANGED <<local, envDoc, profile, busy, installed>>

Finish ==
  /\ busy
  /\ busy' = FALSE
  /\ \/ UNCHANGED installed
     \/ installed' = LocalResolution
     \/ \E r \in seen : installed' = CenterResolution(r)
  /\ UNCHANGED <<local, envDoc, remote, profile, seen>>

Next == Begin \/ Change \/ Finish

(* Every call of init returns. *)
Spec == Init /\ [][Next]_avars /\ WF_avars(Finish)

=============================================================================
