---------------------------- MODULE DurableHistory ----------------------------
(***************************************************************************)
(* DurableFs with a history variable: what a caller knows of the calls     *)
(* since the disk was last as certain as after a power loss.               *)
(***************************************************************************)
EXTENDS DurableFs

VARIABLE clean   \* every call since then returned true, and nothing is left of older ones

history == <<vars, clean>>

HInit == Init /\ clean = TRUE

HNext ==
    \/ Step /\ UNCHANGED clean
    \/ Reply /\ clean' = (clean /\ call.ok)
    \/ Crash /\ clean' = FALSE
    \/ PowerLoss /\ clean' = (temps' = 0)

HSpec == HInit /\ [][HNext]_history

-------------------------------------------------------------------------------
(* Properties.                                                             *)

\* Between calls, whatever a power loss could still undo, and every copy of a
\* secret left in a temporary file, is owed to a call that was killed or that
\* reported failure: the steps skipped on a second try (a directory made but not
\* synced, a file unlinked but not synced) were always reported on the first.
DurableUnlessReported ==
    pc = "idle" /\ clean =>
        dirOnDisk = {dir} /\ fileOnDisk = {file} /\ tempsOnDisk = 0
===============================================================================
