---------------------------- MODULE RepositoryPath ----------------------------
(***************************************************************************)
(* Paths of files in a repository, as providers accept them in a           *)
(* configuration.  A path is the sequence of the components between its    *)
(* slashes ("" between two slashes) and what is wrong with its characters. *)
(***************************************************************************)
EXTENDS Naturals, Sequences, SequencesExt

(* No path that is accepted is empty.                                      *)
Refused == <<>>

PathOf(parts) == [parts |-> parts, absolute |-> FALSE, odd |-> FALSE]

(* path.Clean of a relative path.  The empty sequence is ".".              *)
CleanStep(done, part) ==
    CASE part \in {"", "."} -> done
      [] part = ".." /\ done # <<>> /\ Last(done) # ".." -> Front(done)
      [] OTHER -> Append(done, part)

Clean(parts) ==
    LET done[n \in 0 .. Len(parts)] ==
            IF n = 0 THEN <<>> ELSE CleanStep(done[n - 1], parts[n])
    IN  done[Len(parts)]

NormalizeRepoPath(path) ==
    LET cleaned == Clean(path.parts)
    IN  IF \/ path.absolute \/ path.odd \/ path.parts = <<>>
           \/ cleaned = <<>> \/ Head(cleaned) = ".."
        THEN Refused
        ELSE cleaned

=============================================================================
