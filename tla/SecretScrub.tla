------------------------------ MODULE SecretScrub ------------------------------
(***************************************************************************)
(* scripts/pre_publish_secret_scrub.py, as operators: the scrubber keeps   *)
(* no state, it walks a tree once and exits.  A file is what the scan can  *)
(* tell of it:                                                             *)
(*   skipped   some directory on its path is in _SKIP_DIRS                 *)
(*   fixture   its path is allowlisted as a synthetic fixture              *)
(*   named     its path may name secrets (content is not read)             *)
(*   keyName   its suffix or name is that of key material                  *)
(*   readable  read_bytes() does not raise                                 *)
(*   body      "clean", "secret" (a content rule matches in the first      *)
(*             _MAX_READ_BYTES), or "late" (it matches after them only)    *)
(***************************************************************************)
EXTENDS FiniteSets

Files ==
  [skipped : BOOLEAN, fixture : BOOLEAN, named : BOOLEAN, keyName : BOOLEAN,
   readable : BOOLEAN, body : {"clean", "secret", "late"}]

(* What _build_parser knows; argparse exits with 2 on any other option.     *)
ScrubOptions == {"--root", "--json"}

(* _scan_content: a file that cannot be read has no finding, and only the   *)
(* first _MAX_READ_BYTES are looked at.                                     *)
ContentFinding(file) == file.readable /\ file.body = "secret"

(* One file of scan_tree's loop, with the allowlist of paths that may name  *)
(* secrets asked before the name of the file is, and as it is.              *)
FindingNamedFirst(file) ==
  /\ ~file.skipped
  /\ ~file.fixture
  /\ ~file.named
  /\ file.keyName \/ ContentFinding(file)

Finding(file) ==
  /\ ~file.skipped
  /\ ~file.fixture
  /\ file.keyName \/ (~file.named /\ ContentFinding(file))

ScanTree(tree) == {file \in tree : Finding(file)}

(* main(): the process's exit code. *)
ScrubExit(flags, tree) ==
  IF ~(flags \subseteq ScrubOptions) THEN 2
  ELSE IF ScanTree(tree) # {} THEN 1
  ELSE 0

==============================================================================
