------------------------ MODULE MCConfigProcessor ------------------------
(***************************************************************************)
(* Model values for ConfigProcessor: four leaves (a workspace value of     *)
(* the default module, one of module m1, a Url-typed cache url and a       *)
(* String-typed db url), one valid ENC token, one that does not decrypt,   *)
(* one whose plaintext holds a quote, and source contents chosen so that   *)
(* every branch of init/do_init is reachable: a missing or malformed       *)
(* file, a center without app id, a bad format or kind, a salt of the      *)
(* wrong length, tokens in typed and string fields.                        *)
(***************************************************************************)
EXTENDS ConfigProcessor, TLC

W == "cs.project_name"
M == "csm.m1.db_proj.url"
U == "fw.cache.modules.m1.url"
D == "fw.db.url"

TokS   == "ENC(9EE184E8)"      \* decrypts to "s"
TokBad == "ENC(00)"            \* hex, but not a ciphertext of this salt
TokQ   == "ENC(7F2A)"          \* decrypts to q" (contains a quote)
TokPad == "ENC(nOzb1w==)"      \* base64 with padding: outside [A-Za-z0-9+/]

MCWorkspaceKeys == {W, M}
MCFwUrlKeys     == {U}
MCFwStrKeys     == {D}
MCPlainVals     == {"a", "b", "s"}
MCQuotedVals    == {"q\""}
MCEncOf         == (TokS :> "s") @@ (TokBad :> Corrupt) @@ (TokQ :> "q\"")
MCPaddedTokens  == {TokPad}
MCSalt16        == {"0123456789abcdef"}
MCSaltOther     == {"0123456789abcde"}

Center  == ((W :> "a") @@ (M :> TokS) @@ (KindKey :> "Nacos") @@ (AppIdKey :> "app"))
NoAppId == ((W :> "a") @@ (KindKey :> "nacos") @@ (AppIdKey :> ""))
Apollo  == ((KindKey :> "apollo") @@ (AppIdKey :> "app"))

MCDefaultCands ==
  {Missing, Malformed, ((W :> "a") @@ (D :> TokS)), Center, NoAppId, Apollo}

MCProfileCands ==
  {Missing,
   ((W :> "b") @@ (SaltKey :> "0123456789abcdef")),
   (FormatKey :> "xml"),
   (SaltKey :> "0123456789abcde"),
   ((W :> TokBad) @@ (SaltKey :> "0123456789abcdef")),
   ((M :> TokQ) @@ (SaltKey :> "0123456789abcdef"))}

MCEnvCands == {EmptyDoc, ((D :> TokS) @@ (W :> "s")), (M :> TokPad)}

MCRemoteCands ==
  {Malformed, ((W :> "b") @@ (M :> "a") @@ (BacktraceKey :> "true")),
   ((D :> TokS) @@ (U :> "a")), (U :> TokS)}

(* The worlds of the two decryption round-trip runs: one without the     *)
(* quoted plaintext, one without a token in a Url-typed field.             *)
HoldsVal(d, v) == d \notin {Missing, Malformed} /\ v \in Range(d)
MCProfileCandsNoQuote == {d \in MCProfileCands : ~HoldsVal(d, TokQ)}
MCRemoteCandsNoTyped  == {d \in MCRemoteCands : ~HoldsVal(d, TokS) \/ U \notin DOMAIN d}

(* A smaller world for the liveness runs. *)
MCDefaultCandsSmall == {Missing, Center}
MCProfileCandsSmall == {((W :> "b") @@ (SaltKey :> "0123456789abcdef"))}
MCRemoteCandsSmall  == {((W :> "b") @@ (M :> "a")), (D :> TokS)}
MCEnvCandsSmall     == {EmptyDoc}

MCProfiles == {"", "remote"}

=============================================================================
