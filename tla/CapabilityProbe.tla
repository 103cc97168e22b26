---------------------------- MODULE CapabilityProbe ----------------------------
(***************************************************************************)
(* capability_probe() of the five backends beside the preconditions of     *)
(* their sign(), as operators: the two are written apart from each other,  *)
(* and a dry run's would_sign is the probe's can_sign.  A machine is what  *)
(* both ask about:                                                         *)
(*   tools     signing tools on PATH (on macOS and iOS: and running there) *)
(*   floor     osslsigncode, or cosign, is at its version floor            *)
(*   keychain  a keychain CLI is on PATH                                   *)
(*   secret    what the platform keeps besides the key: a Developer ID     *)
(*             identity, the keystore's password, a configured Match store *)
(***************************************************************************)
EXTENDS FiniteSets

ToolsOf ==
  [windows |-> {"signtool", "osslsigncode", "jsign"},
   macos   |-> {"codesign", "xcrun"},
   linux   |-> {"gpg", "minisign", "cosign"},
   android |-> {"apksigner", "jarsigner"},
   ios     |-> {"codesign"}]
AllPlatforms == DOMAIN ToolsOf

MachinesFor(platform) ==
  [tools : SUBSET ToolsOf[platform], floor : BOOLEAN, keychain : BOOLEAN, secret : BOOLEAN]

(* _preferred_tool of linux.py: gpg, minisign, cosign. *)
Prefers(m, tool) ==
  /\ tool \in m.tools
  /\ tool # "gpg" => "gpg" \notin m.tools
  /\ tool = "cosign" => "minisign" \notin m.tools

(* Presence of the tool as capability_probe() reports it, with a windows    *)
(* probe that forgets the floor, and as it is.                              *)
ToolPresentAnyVersion(platform, m) ==
  IF platform = "macos" THEN m.tools = ToolsOf["macos"] ELSE m.tools # {}
ToolPresent(platform, m) ==
  CASE platform = "windows" -> {"signtool", "jsign"} \cap m.tools # {}
                               \/ ("osslsigncode" \in m.tools /\ m.floor)
    [] platform = "macos"   -> m.tools = ToolsOf["macos"]
    [] OTHER                -> m.tools # {}

(* On windows no credential is looked for; minisign's is taken for granted. *)
CredentialPresent(platform, m) ==
  CASE platform = "windows" -> FALSE
    [] platform = "linux"   -> Prefers(m, "minisign") \/ (m.tools # {} /\ m.keychain)
    [] OTHER                -> m.secret

(* CapabilityReport.from_flags. *)
CanSign(platform, m) == ToolPresent(platform, m) /\ CredentialPresent(platform, m)

------------------------------------------------------------------------------
(* What sign() answers on that machine, up to its first signing tool and    *)
(* (on macOS) up to the notary service, when its key resolves, there is a   *)
(* file to sign and codesign succeeds.  A target is what sign() reads of    *)
(* it besides: whether its key is a local one, and whether it names a       *)
(* notarization profile.                                                    *)
SignTargets == [local : BOOLEAN, notary : BOOLEAN]

(* _detect_tool goes down its list; the others look for each tool.          *)
DetectsTool(m) ==
  \/ "signtool" \in m.tools
  \/ "osslsigncode" \in m.tools /\ m.floor
  \/ "jsign" \in m.tools

(* A local key on a machine without a Developer ID identity: ad hoc. *)
AdHoc(m, target) == target.local /\ ~m.secret

SignAnswer(platform, m, target) ==
  CASE platform = "windows" /\ ~DetectsTool(m)                   -> "skipped_tool_absent"
    [] platform = "macos" /\ "codesign" \notin m.tools           -> "skipped_tool_absent"
    [] platform = "macos" /\ "xcrun" \notin m.tools              -> "skipped_tool_absent"
    [] platform = "macos" /\ m.tools = ToolsOf["macos"]
       /\ ~AdHoc(m, target) /\ ~target.notary                    -> "skipped_no_credential"
    [] platform \in {"linux", "android", "ios"} /\ m.tools = {}  -> "skipped_tool_absent"
    [] platform \in {"android", "ios"} /\ m.tools # {} /\ ~m.secret
                                                                 -> "skipped_no_credential"
    [] platform = "linux" /\ Prefers(m, "cosign") /\ ~m.floor    -> "failed"
    [] OTHER                                                     -> "proceeds"

==============================================================================
