------------------------------ MODULE NucSync ------------------------------
(* Preparing a release: scripts/sync_nuc.py on a workstation and            *)
(* scripts/_nuc_sync_remote.py, which it runs over SSH on the NUC, or in    *)
(* its own process for build-local.  An invocation freezes the worktree in  *)
(* a release directory, has an image of it built on the host of the daemon, *)
(* installs the client of the same release, and reports.                    *)
(*                                                                          *)
(* A tree stands for the contents of a release in one variant, the hash     *)
(* that names it, and the schema in it.  The frozen tree is any tree: files *)
(* are copied one by one from a worktree that may change meanwhile, and the *)
(* bytes copied are what is hashed.                                         *)
(*                                                                          *)
(* Nothing locks a workstation or a host: any invocations may overlap.      *)
EXTENDS Naturals, FiniteSets

CONSTANTS
    Workstations,
    NUC,
    Trees,
    Commits,
    Runs,      \* the invocations, of all workstations together
    Old,       \* what the deployment interpreter imports at first
    None

ASSUME NucSyncAssumption == /\ NUC \notin Workstations
                            /\ Old \notin Trees
                            /\ None \notin Trees \union Commits \union Workstations \union {Old}
                            /\ None \notin [commit : Commits, sound : BOOLEAN]

Hosts == Workstations \union {NUC}

Actions == {"check", "build", "build-local"}

VARIABLES
    releases,    \* the release directories of every host, with their manifests
    images,      \* the images of every host, one tag per tree
    control,     \* on which hosts a control program runs
    client,      \* what each deployment interpreter imports
    run,         \* the invocations
    job,         \* what runs on the build host for each, also after SSH is lost
    latest,      \* latest.json of each workstation
    overtaken,   \* invocations since whose last look at the client another changed it
    loose        \* workstations whose client no report accounts for

vars == <<releases, images, control, client, run, job, latest, overtaken, loose>>

Unused == [pc |-> "unused", ws |-> None, action |-> "check", tree |-> None,
           commit |-> None, previous |-> None, kept |-> None, ok |-> FALSE]

Idle == [step |-> "none", commit |-> None]

NoReport == [status |-> "none", tree |-> None, previous |-> None]

Init ==
    /\ releases = [h \in Hosts |-> [t \in Trees |-> None]]
    /\ images = [h \in Hosts |-> [t \in Trees |-> None]]
    /\ control \in [Hosts -> BOOLEAN]
    /\ client = [w \in Workstations |-> Old]
    /\ run = [r \in Runs |-> Unused]
    /\ job = [r \in Runs |-> Idle]
    /\ latest = [w \in Workstations |-> NoReport]
    /\ overtaken = {}
    /\ loose = {}

(* Where the image of an invocation is built *)
Host(r) == IF run[r].action = "build-local" THEN run[r].ws ELSE NUC

Active(r) == run[r].pc \notin {"unused", "done"}

(* The other invocations under way on the same workstation                 *)
Others(r) == {s \in Runs \ {r} : Active(s) /\ run[s].ws = run[r].ws}

(* An invocation goes on to pc; from "reporting" it only writes its report. *)
Goto(r, pc) == run' = [run EXCEPT ![r].pc = pc]

Ends(r, ok) == run' = [run EXCEPT ![r] = [@ EXCEPT !.pc = "reporting", !.ok = ok]]

(* A directory passes verify_tree() when nothing was lost, added or edited. *)
Verified(h, t) == releases[h][t] # None /\ releases[h][t].sound

(* inspect() finds the containers and the processes that may control the   *)
(* robot.                                                                  *)
Inspected(h) == control[h]

(* require_build_ready(), when architecture and disk suffice               *)
BuildReady(h) == ~Inspected(h)

-----------------------------------------------------------------------------
(* The workstation *)

Asked(w, a) == [Unused EXCEPT !.pc = "inspecting", !.ws = w, !.action = a]

(* settings() refuses the configuration before anything is contacted, or   *)
(* the version or the interpreter of a build is refused: the report says   *)
(* nothing of the client.                                                  *)
Refused(r, w, a) ==
    /\ run[r].pc = "unused"
    /\ run' = [run EXCEPT ![r] = [Asked(w, a) EXCEPT !.pc = "reporting"]]
    /\ UNCHANGED <<releases, images, control, client, job, latest, overtaken, loose>>

(* A build notes the client it finds, previous_client of the report.       *)
Begin(r, w, a) ==
    /\ run[r].pc = "unused"
    /\ run' = [run EXCEPT ![r] = [Asked(w, a) EXCEPT !.previous = IF a = "check" THEN None ELSE client[w]]]
    /\ UNCHANGED <<releases, images, control, client, job, latest, overtaken, loose>>

(* SSH or Docker fail, or the build host is inspected.                     *)
Inspects(r) ==
    /\ run[r].pc = "inspecting"
    /\ \/ Ends(r, FALSE)
       \/ Goto(r, IF run[r].action # "check" /\ Inspected(Host(r)) THEN "blocked" ELSE "looking")
    /\ UNCHANGED <<releases, images, control, client, job, latest, overtaken, loose>>

(* The client goes into the report once more, or for a check at first, if  *)
(* its interpreter is configured; only a build minds what was inspected.   *)
Looks(r) ==
    /\ run[r].pc \in {"looking", "blocked"}
    /\ \/ Ends(r, FALSE) /\ UNCHANGED overtaken
       \/ run[r].action = "check" /\ Ends(r, TRUE) /\ UNCHANGED overtaken
       \/ \E pc \in {"snapshot", "reporting"}, ok \in BOOLEAN :
             /\ pc = "snapshot" <=> run[r].pc = "looking" /\ run[r].action # "check"
             /\ ok <=> run[r].action = "check"
             /\ run' = [run EXCEPT ![r] = [@ EXCEPT !.pc = pc, !.ok = ok, !.previous = client[run[r].ws]]]
             /\ overtaken' = overtaken \ {r}
    /\ UNCHANGED <<releases, images, control, client, job, latest, loose>>

(* The frozen release is moved to the directory named by its hash; an      *)
(* existing directory is verified, and its manifest is the one that counts.*)
Snapshot(r, t, c) ==
    LET w == run[r].ws
        kept == releases[w][t] # None
        local == run[r].action = "build-local" IN
    /\ run[r].pc = "snapshot"
    /\ kept => Verified(w, t)
    /\ releases' = IF kept THEN releases
                   ELSE [releases EXCEPT ![w][t] = [commit |-> c, sound |-> TRUE]]
    /\ run' = [run EXCEPT ![r] = [@ EXCEPT !.tree = t, !.commit = releases'[w][t].commit,
                                           !.pc = IF local THEN "building" ELSE "uploading"]]
    /\ job' = [job EXCEPT ![r].step = IF local THEN "build" ELSE "upload"]
    /\ UNCHANGED <<images, control, client, latest, overtaken, loose>>

(* A file is missing or excluded, the existing directory is damaged, or    *)
(* another invocation has moved the same tree there first.                 *)
SnapshotFails(r) ==
    /\ run[r].pc = "snapshot"
    /\ Ends(r, FALSE)
    /\ UNCHANGED <<releases, images, control, client, job, latest, overtaken, loose>>

(* The receipt of upload() or build() arrives.                             *)
Receipt(r) ==
    /\ run[r].pc \in {"uploading", "building"} /\ job[r].step \in {"done", "error"}
    /\ IF job[r].step = "error" THEN Ends(r, FALSE) /\ job' = [job EXCEPT ![r] = Idle]
       ELSE IF run[r].pc = "uploading"
       THEN Goto(r, "building") /\ job' = [job EXCEPT ![r] = [Idle EXCEPT !.step = "build"]]
       ELSE /\ Goto(r, IF run[r].action = "build-local" THEN "saving" ELSE "installing")
            /\ job' = [job EXCEPT ![r] = Idle]
    /\ UNCHANGED <<releases, images, control, client, latest, overtaken, loose>>

(* SSH ends without a receipt; what it started on the NUC may go on.       *)
ConnectionLost(r) ==
    /\ run[r].pc \in {"uploading", "building"} /\ run[r].action = "build"
    /\ Ends(r, FALSE)
    /\ UNCHANGED <<releases, images, control, client, job, latest, overtaken, loose>>

(* build-local exports the image: docker image save, then a rename.        *)
SavesImage(r) ==
    /\ run[r].pc = "saving"
    /\ Goto(r, "installing") \/ Ends(r, FALSE)
    /\ UNCHANGED <<releases, images, control, client, job, latest, overtaken, loose>>

(* The present client is kept for the rollback, unless it is not editable  *)
(* or its dependencies are broken.                                         *)
Keeps(r) ==
    /\ run[r].pc = "installing"
    /\ \/ Ends(r, FALSE)
       \/ run' = [run EXCEPT ![r] = [@ EXCEPT !.pc = "replacing", !.kept = client[run[r].ws]]]
    /\ UNCHANGED <<releases, images, control, client, job, latest, overtaken, loose>>

(* uv installs the release, which another SDK on the import path may still *)
(* mask, or fails, before or after it replaced the client.                 *)
Installs(r) ==
    LET w == run[r].ws IN
    /\ run[r].pc = "replacing"
    /\ Goto(r, "verifying") \/ Goto(r, "rollback")
    /\ \E now \in {client[w], run[r].tree} : client' = [client EXCEPT ![w] = now]
    /\ overtaken' = overtaken \union Others(r)
    /\ UNCHANGED <<releases, images, control, job, latest, loose>>

(* Mutant of VerifiesClient: only the dependencies are checked.            *)
VerifiesDependencies(r) ==
    /\ run[r].pc = "verifying"
    /\ \/ Ends(r, TRUE) /\ overtaken' = overtaken \ {r}
       \/ Goto(r, "rollback") /\ UNCHANGED overtaken
    /\ UNCHANGED <<releases, images, control, client, job, latest, loose>>

(* The dependencies hold and the interpreter imports the module and the    *)
(* schema of the release; or the old client is brought back.               *)
VerifiesClient(r) ==
    /\ run[r].pc = "verifying"
    /\ \/ client[run[r].ws] = run[r].tree /\ Ends(r, TRUE) /\ overtaken' = overtaken \ {r}
       \/ Goto(r, "rollback") /\ UNCHANGED overtaken
    /\ UNCHANGED <<releases, images, control, client, job, latest, loose>>

(* The rollback is an installation of the client that was kept, which is   *)
(* the one reported if nobody was in between.  It may fail too: nobody     *)
(* tries again.                                                            *)
RollsBack(r) ==
    LET w == run[r].ws
        back == IF run[r].kept = run[r].previous THEN {r} ELSE {} IN
    /\ run[r].pc = "rollback"
    /\ \/ /\ client' = [client EXCEPT ![w] = run[r].kept]
          /\ overtaken' = (overtaken \union Others(r)) \ back
       \/ client' = client /\ overtaken' = overtaken \union {r}
    /\ Ends(r, FALSE)
    /\ UNCHANGED <<releases, images, control, job, latest, loose>>

StatusOf(r) == IF ~run[r].ok THEN "blocked_or_failed"
               ELSE IF run[r].action = "check" THEN "checked"
               ELSE IF run[r].action = "build" THEN "paired" ELSE "local"

(* write_json(): a report is written beside latest.json and moved over it. *)
Written(w, report) == latest' = [latest EXCEPT ![w] = report]

(* Every invocation that comes to its end reports, whatever became of it.  *)
Reports(r) ==
    LET w == run[r].ws IN
    /\ run[r].pc = "reporting"
    /\ Written(w, [status |-> StatusOf(r), tree |-> run[r].tree, previous |-> run[r].previous])
    /\ loose' = IF r \in overtaken THEN loose \union {w} ELSE loose \ {w}
    /\ Goto(r, "done")
    /\ overtaken' = overtaken \ {r}
    /\ UNCHANGED <<releases, images, control, client, job>>

(* An invocation has replaced the client and not reported yet.             *)
Touched(r) == run[r].pc \in {"verifying", "rollback"} \/ (run[r].pc = "reporting" /\ run[r].kept # None)

(* Ctrl-C or a crash of the workstation: main() catches neither, so there  *)
(* is no report, and install_client() does not roll back.  A local build   *)
(* ends with its process.                                                  *)
Interrupted(r) ==
    /\ Active(r)
    /\ Goto(r, "done")
    /\ job' = IF run[r].action = "build-local" THEN [job EXCEPT ![r] = Idle] ELSE job
    /\ loose' = IF Touched(r) THEN loose \union {run[r].ws} ELSE loose
    /\ overtaken' = overtaken \ {r}
    /\ UNCHANGED <<releases, images, control, client, latest>>

-----------------------------------------------------------------------------
(* The build host: upload() and build() of _nuc_sync_remote.py             *)

JobEnds(r, step) == job' = [job EXCEPT ![r].step = step]

(* upload(): a release that is there is verified and used again.           *)
UploadChecks(r) ==
    LET t == run[r].tree IN
    /\ job[r].step = "upload"
    /\ \/ JobEnds(r, "error")
       \/ BuildReady(NUC) /\ releases[NUC][t] = None /\ JobEnds(r, "receiving")
       \/ BuildReady(NUC) /\ Verified(NUC, t) /\ JobEnds(r, "done")
    /\ UNCHANGED <<releases, images, control, client, run, latest, overtaken, loose>>

(* Mutant of Receives: the release replaces what is there.                 *)
ReceivesOver(r) ==
    /\ job[r].step = "receiving"
    /\ releases' = [releases EXCEPT ![NUC][run[r].tree] = [commit |-> run[r].commit, sound |-> TRUE]]
    /\ JobEnds(r, "done")
    /\ UNCHANGED <<images, control, client, run, latest, overtaken, loose>>

(* The archive is unpacked beside the releases, verified, and moved to its *)
(* place: the move fails when another upload was there first.  An archive  *)
(* that is cut off or refused leaves nothing.                              *)
Receives(r) ==
    LET t == run[r].tree IN
    /\ job[r].step = "receiving"
    /\ \/ /\ releases[NUC][t] = None
          /\ releases' = [releases EXCEPT ![NUC][t] = [commit |-> run[r].commit, sound |-> TRUE]]
          /\ JobEnds(r, "done")
       \/ JobEnds(r, "error") /\ UNCHANGED releases
    /\ UNCHANGED <<images, control, client, run, latest, overtaken, loose>>

(* build(): nothing controls the robot, ...                                *)
BuildInspects(r) ==
    /\ job[r].step = "build"
    /\ JobEnds(r, "error") \/ (BuildReady(Host(r)) /\ JobEnds(r, "inspected"))
    /\ UNCHANGED <<releases, images, control, client, run, latest, overtaken, loose>>

(* Mutant of BuildVerifies: the release is built from as it is found.      *)
BuildUnverified(r) ==
    LET release == releases[Host(r)][run[r].tree] IN
    /\ job[r].step = "inspected"
    /\ \/ JobEnds(r, "error")
       \/ release # None /\ job' = [job EXCEPT ![r] = [step |-> "verified", commit |-> release.commit]]
    /\ UNCHANGED <<releases, images, control, client, run, latest, overtaken, loose>>

(* ... the release is sound, and the labels come from its manifest, ...    *)
BuildVerifies(r) ==
    LET h == Host(r)
        t == run[r].tree IN
    /\ job[r].step = "inspected"
    /\ \/ JobEnds(r, "error")
       \/ /\ Verified(h, t)
          /\ job' = [job EXCEPT ![r] = [step |-> "verified", commit |-> releases[h][t].commit]]
    /\ UNCHANGED <<releases, images, control, client, run, latest, overtaken, loose>>

(* ... and the image is built if there is none; one that has the tag and   *)
(* other labels is left alone.                                             *)
BuildLooks(r) ==
    LET image == images[Host(r)][run[r].tree] IN
    /\ job[r].step = "verified"
    /\ \/ JobEnds(r, "error")
       \/ image = None /\ JobEnds(r, "docker")
       \/ image # None /\ image.commit = job[r].commit /\ JobEnds(r, "validate")
    /\ UNCHANGED <<releases, images, control, client, run, latest, overtaken, loose>>

(* docker build fails, or the image is tagged at its end.                  *)
DockerBuilds(r) ==
    LET h == Host(r)
        t == run[r].tree IN
    /\ job[r].step = "docker"
    /\ \/ /\ images' = [images EXCEPT ![h][t] = [commit |-> job[r].commit, sound |-> releases[h][t].sound]]
          /\ JobEnds(r, "validate")
       \/ JobEnds(r, "error") /\ UNCHANGED images
    /\ UNCHANGED <<releases, control, client, run, latest, overtaken, loose>>

(* The labels are read again, and the image runs --help without devices.   *)
Validates(r) ==
    /\ job[r].step = "validate"
    /\ \/ images[Host(r)][run[r].tree].commit = job[r].commit /\ JobEnds(r, "done")
       \/ JobEnds(r, "error")
    /\ UNCHANGED <<releases, images, control, client, run, latest, overtaken, loose>>

-----------------------------------------------------------------------------
(* What others do on a host *)

(* A control program is started, or ended.                                 *)
Operator(h) ==
    /\ control' = [control EXCEPT ![h] = ~@]
    /\ UNCHANGED <<releases, images, client, run, job, latest, overtaken, loose>>

(* Somebody edits a release, or removes one from the NUC; but not while it *)
(* is built from: that nobody does so is assumed, nothing would notice.    *)
Meddling(h, t) ==
    /\ Verified(h, t)
    /\ ~\E r \in Runs : job[r].step \in {"verified", "docker"} /\ Host(r) = h /\ run[r].tree = t
    /\ \/ releases' = [releases EXCEPT ![h][t].sound = FALSE]
       \/ h = NUC /\ releases' = [releases EXCEPT ![h][t] = None]
    /\ UNCHANGED <<images, control, client, run, job, latest, overtaken, loose>>

Next ==
    \/ \E r \in Runs :
          \/ \E w \in Workstations, a \in Actions : Begin(r, w, a) \/ Refused(r, w, a)
          \/ \E t \in Trees, c \in Commits : Snapshot(r, t, c)
          \/ Inspects(r) \/ Looks(r) \/ SnapshotFails(r) \/ Receipt(r) \/ ConnectionLost(r) \/ SavesImage(r)
          \/ Keeps(r) \/ Installs(r) \/ VerifiesClient(r) \/ RollsBack(r) \/ Reports(r) \/ Interrupted(r)
          \/ UploadChecks(r) \/ Receives(r)
          \/ BuildInspects(r) \/ BuildVerifies(r) \/ BuildLooks(r) \/ DockerBuilds(r) \/ Validates(r)
    \/ \E h \in Hosts : Operator(h)
    \/ \E h \in Hosts, t \in Trees : Meddling(h, t)

Spec == Init /\ [][Next]_vars

-----------------------------------------------------------------------------
(* Properties *)

(* The client the last report names: the release of a prepared pair, or    *)
(* else the client it found; None if it says nothing of the client.        *)
Reported(w) ==
    IF latest[w].status \in {"paired", "local"} THEN latest[w].tree ELSE latest[w].previous

(* What an interpreter imports is what the last report says, while nobody  *)
(* is between replacing the client and reporting, however the invocations  *)
(* of a workstation overlap, with three exceptions: the invocation that    *)
(* replaced the client was interrupted before its report; its rollback     *)
(* failed; or another replaced the client after the one that reports has   *)
(* looked at it last.                                                      *)
ClientIsAsReported ==
    \A w \in Workstations \ loose :
        /\ latest[w].status # "none" /\ Reported(w) # None
        /\ ~\E r \in Runs : run[r].ws = w /\ Touched(r)
        => client[w] = Reported(w)

(* An image holds the tree it is named after, and a pair that was reported *)
(* has its image on the host it was prepared for.                          *)
ImagesAreTheirTree ==
    /\ \A h \in Hosts, t \in Trees : images[h][t] # None => images[h][t].sound
    /\ \A w \in Workstations :
          /\ latest[w].status = "paired" => images[NUC][latest[w].tree] # None
          /\ latest[w].status = "local" => images[w][latest[w].tree] # None

(* A release keeps the manifest it was put there with, and an image its    *)
(* labels, whoever uploads or builds the same tree from another commit.    *)
ReleasesStand ==
    [][\A h \in Hosts, t \in Trees :
          /\ releases[h][t] # None /\ releases'[h][t] # None =>
                releases'[h][t].commit = releases[h][t].commit
          /\ images[h][t] # None => images'[h][t] # None /\ images'[h][t].commit = images[h][t].commit]_vars

=============================================================================
