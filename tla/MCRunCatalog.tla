---------------------------- MODULE MCRunCatalog ----------------------------
(* Two plans of one release and three commands. *)
EXTENDS RunCatalog, TLC

CONSTANTS planA, planB, journalA, journalB, theRelease

MCReleaseOf      == planA :> theRelease @@ planB :> theRelease
MCDefaultJournal == planA :> journalA @@ planB :> journalB

Symmetric == Permutations(Command)
=============================================================================
