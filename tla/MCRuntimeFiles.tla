--------------------------- MODULE MCRuntimeFiles ---------------------------
(***************************************************************************)
(* RuntimeFiles instantiated for TLC.                                      *)
(***************************************************************************)
EXTENDS RuntimeFiles, TLC

CONSTANTS p1, p2, p3

TwoProcs   == {p1, p2}
ThreeProcs == {p1, p2, p3}

\* Processes differ only by name.
SymTwo   == Permutations(TwoProcs)
SymThree == Permutations(ThreeProcs)

\* Files of up to three lines over two pids, a time and a tag.
SomeLines == PF!PidFileLines({p1, p2}, {"now"}, {"tag"})

\* readPIDFile returns, for every such file, the error of its first
\* rejected line or else the last value of each field: what the loop over
\* the lines does agrees with what the record of a file is.  And the record
\* claimPlaygroundPIDFile wrote reads back as the pid of the process that
\* wrote it, which is the pid the cleanup of another process then probes.
ParserAgrees ==
    /\ PF!ParserMatchesReference(SomeLines, 3)
    /\ pidFile # None /\ pidFile.st = "full" => ReadPID = pidFile.by

=============================================================================
