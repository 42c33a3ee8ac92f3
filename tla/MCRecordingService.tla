-------------------------- MODULE MCRecordingService --------------------------
(* RecordingService with clients, IDs and paths that are interchangeable.    *)
EXTENDS RecordingService, TLC

Interchangeable == Permutations(Client) \cup Permutations(Id) \cup Permutations(Path)
==============================================================================
