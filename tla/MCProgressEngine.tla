-------------------------- MODULE MCProgressEngine --------------------------
(* Instances of ProgressEngine for model checking. *)
EXTENDS ProgressEngine

\* What the task and group handles emit, and a status no handle knows.
HandleStatuses == (Statuses \ {"pending"}) \cup {"unknown"}

\* What a replayed event log may hold.
ReplayStatuses == Statuses

OneId     == {1}
TwoIds    == {1, 2}
OneLabel  == {"a"}
NoBytes   == {}
SomeBytes == {-1, 2}
OnlyError == {"error"}
Nothing   == {}
AnyKind   == Kinds \cup {"unknown"}
StartsCounted == StartLines
=============================================================================
