---------------------------- MODULE AtomicFile ----------------------------
(***************************************************************************)
(* What "writes the config atomically" promises of the file given with     *)
(* `deploy --to`: it does not exist, or it holds one whole configuration,  *)
(* and a step replaces all of it.  The promise is kept to deploys that     *)
(* write one after the other: once two have overlapped the file is Void.   *)
(* Publish is shown to implement this.                                     *)
(***************************************************************************)
CONSTANTS
    Texts,     \* whole configurations
    NoFile,    \* the file does not exist
    Void       \* nothing is promised any more

VARIABLE file

Init == file = NoFile

Replace(text) == file # Void /\ file' = text

Disturb == file' = Void

Next == (\E text \in Texts : Replace(text)) \/ Disturb

Spec == Init /\ [][Next]_file
=============================================================================
