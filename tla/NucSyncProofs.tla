---------------------------- MODULE NucSyncProofs ----------------------------
(* The properties of the synchronisation for any workstations, trees,        *)
(* commits and invocations.                                                  *)
(*                                                                           *)
(* Inv says what each place of an invocation, and each step of what it       *)
(* started on the build host, may rely on.  Nothing of that is looked up     *)
(* again when it is used: the receipt of a build is believed after the       *)
(* connection may have been lost and others have worked on the same tree,    *)
(* and the report names a client that was looked at some steps before.       *)
EXTENDS NucSync, TLAPS

(* The places of an invocation before it touches the client *)
Early == {"inspecting", "looking", "blocked", "snapshot", "uploading", "building", "saving",
          "installing", "replacing"}

Manifest(m) == DOMAIN m = {"commit", "sound"} /\ m.commit \in Commits /\ m.sound \in BOOLEAN

(* The form of what is kept, as far as steps change parts of it *)
Shapes ==
  /\ DOMAIN run = Runs /\ DOMAIN job = Runs
  /\ DOMAIN latest = Workstations /\ DOMAIN client = Workstations
  /\ DOMAIN releases = Hosts /\ DOMAIN images = Hosts
  /\ \A h \in Hosts : DOMAIN releases[h] = Trees /\ DOMAIN images[h] = Trees
  /\ \A r \in Runs :
       /\ DOMAIN run[r] = {"pc", "ws", "action", "tree", "commit", "previous", "kept", "ok"}
       /\ DOMAIN job[r] = {"step", "commit"}
       /\ run[r].pc # "unused" => run[r].ws \in Workstations /\ run[r].action \in Actions
       /\ job[r].step # "none" =>
            run[r].pc # "unused" /\ run[r].tree \in Trees /\ run[r].commit \in Commits
  /\ \A h \in Hosts, t \in Trees : releases[h][t] # None => Manifest(releases[h][t])

(* How far an invocation is, and what runs for it *)
Staged ==
  \A r \in Runs :
    /\ run[r].pc \in Early \cup {"unused", "verifying", "rollback", "reporting", "done"}
    /\ run[r].pc \in {"unused", "inspecting", "looking", "blocked", "snapshot"} =>
         job[r].step = "none"
    /\ run[r].pc \in (Early \ {"inspecting", "looking"}) \cup {"verifying", "rollback"} =>
         run[r].action # "check"
    /\ run[r].pc = "building" =>
         job[r].step \in {"build", "inspected", "verified", "docker", "validate", "done", "error"}
    /\ run[r].pc = "saving" => run[r].action = "build-local"
    /\ run[r].ok => run[r].pc \in {"reporting", "done"}

(* A build is of a sound release with the manifest it was verified with, and *)
(* nobody builds the image from another commit meanwhile.                    *)
Building ==
  \A r \in Runs : job[r].step \in {"verified", "docker"} =>
    LET h == Host(r)
        t == run[r].tree IN
    /\ Verified(h, t) /\ releases[h][t].commit = job[r].commit
    /\ job[r].step = "docker" => images[h][t] = None \/ images[h][t].commit = job[r].commit

HasImage(r) == run[r].tree \in Trees /\ images[Host(r)][run[r].tree] # None

(* Images are sound; who was told that his image is there has it. *)
Built ==
  /\ \A h \in Hosts, t \in Trees : images[h][t] # None => images[h][t].sound
  /\ \A r \in Runs :
       \/ job[r].step = "validate"
       \/ run[r].pc = "building" /\ job[r].step = "done"
       \/ run[r].pc \in {"saving", "installing", "replacing", "verifying", "rollback"}
       \/ run[r].pc = "reporting" /\ run[r].ok /\ run[r].action # "check"
       => HasImage(r)
  /\ \A w \in Workstations :
       /\ latest[w].status = "paired" =>
            latest[w].tree \in Trees /\ images[NUC][latest[w].tree] # None
       /\ latest[w].status = "local" =>
            latest[w].tree \in Trees /\ images[w][latest[w].tree] # None

(* What an invocation knows of the client: until it replaces it, and when it *)
(* reports, the client is the one it says, unless another was overtaking.    *)
Knows(r) ==
  LET client_of == client[run[r].ws]
      paired == run[r].ok /\ run[r].action # "check" IN
  /\ run[r].pc \in Early \cup {"verifying", "rollback"} /\ run[r].action # "check" =>
       run[r].previous # None
  /\ run[r].pc \in {"replacing", "verifying", "rollback"} => run[r].kept # None
  /\ r \notin overtaken =>
       /\ run[r].pc \in Early /\ run[r].previous # None => client_of = run[r].previous
       /\ run[r].pc \in {"replacing", "verifying", "rollback"} => run[r].kept = run[r].previous
       /\ run[r].pc = "reporting" /\ paired => client_of = run[r].tree
       /\ run[r].pc = "reporting" /\ ~paired /\ run[r].previous # None =>
            client_of = run[r].previous

Clients ==
  /\ \A w \in Workstations : client[w] # None
  /\ \A r \in Runs : Knows(r)
  /\ ClientIsAsReported

Inv == Shapes /\ Staged /\ Building /\ Built /\ Clients

-----------------------------------------------------------------------------
(* Lemmas about single steps *)

(* What a manifest or an image says.                                         *)
LEMMA Records ==
  ASSUME NEW c, NEW b \in BOOLEAN
  PROVE  /\ [commit |-> c, sound |-> b].commit = c /\ [commit |-> c, sound |-> b].sound = b
         /\ c \in Commits => [commit |-> c, sound |-> b] \in [commit : Commits, sound : BOOLEAN]
OBVIOUS

(* A step leaves a build alone that it neither starts nor disturbs.          *)
LEMMA BuildingKept ==
  ASSUME Building, UNCHANGED <<releases, images>>,
         \A s \in Runs : job'[s].step \in {"verified", "docker"} =>
            job'[s] = job[s] /\ run'[s].tree = run[s].tree /\ Host(s)' = Host(s)
  PROVE  Building'
BY DEF Building, Verified

(* A step of an invocation leaves the others alone, and of its own record    *)
(* what was asked and frozen.                                                *)
Moved(r) ==
  /\ DOMAIN run' = Runs
  /\ \A s \in Runs : s # r => run'[s] = run[s]
  /\ DOMAIN run'[r] = DOMAIN run[r]
  /\ run'[r].ws = run[r].ws /\ run'[r].action = run[r].action
  /\ run'[r].tree = run[r].tree /\ run'[r].commit = run[r].commit

(* Goto() and Ends() move an invocation so. *)
LEMMA Moves ==
  ASSUME Shapes, NEW r \in Runs
  PROVE  /\ \A pc : Goto(r, pc) =>
              /\ Moved(r) /\ run'[r].pc = pc /\ run'[r].ok = run[r].ok
              /\ run'[r].previous = run[r].previous /\ run'[r].kept = run[r].kept
         /\ \A ok \in BOOLEAN : Ends(r, ok) =>
              /\ Moved(r) /\ run'[r].pc = "reporting" /\ (run'[r].ok <=> ok)
              /\ run'[r].previous = run[r].previous /\ run'[r].kept = run[r].kept
<1>1. ASSUME NEW pc, Goto(r, pc)
      PROVE  /\ Moved(r) /\ run'[r].pc = pc /\ run'[r].ok = run[r].ok
             /\ run'[r].previous = run[r].previous /\ run'[r].kept = run[r].kept
  BY <1>1 DEF Shapes, Goto, Moved
<1>2. ASSUME NEW ok \in BOOLEAN, Ends(r, ok)
      PROVE  /\ Moved(r) /\ run'[r].pc = "reporting" /\ (run'[r].ok <=> ok)
             /\ run'[r].previous = run[r].previous /\ run'[r].kept = run[r].kept
  <2> DEFINE m == [run[r] EXCEPT !.pc = "reporting", !.ok = ok]
  <2>1. run' = [run EXCEPT ![r] = m]
    BY <1>2 DEF Ends
  <2>2. /\ DOMAIN run = Runs
        /\ DOMAIN run[r] = {"pc", "ws", "action", "tree", "commit", "previous", "kept", "ok"}
    BY DEF Shapes
  <2>3. /\ DOMAIN m = DOMAIN run[r] /\ m.pc = "reporting" /\ m.ok = ok /\ m.ws = run[r].ws
        /\ m.action = run[r].action /\ m.tree = run[r].tree /\ m.commit = run[r].commit
        /\ m.previous = run[r].previous /\ m.kept = run[r].kept
    BY <2>2
  <2> HIDE DEF m
  <2> QED BY <2>1, <2>2, <2>3 DEF Moved
<1> QED BY <1>1, <1>2

(* A step that neither replaces a client nor reports.                        *)
LEMMA ClientsMove ==
  ASSUME Clients, NEW r \in Runs, \A s \in Runs : s # r => run'[s] = run[s],
         UNCHANGED <<client, latest, loose>>, overtaken \ {r} \subseteq overtaken', Knows(r)',
         Touched(r) => Touched(r)' /\ run'[r].ws = run[r].ws
  PROVE  Clients'
<1>1. ASSUME NEW s \in Runs PROVE Knows(s)'
  <2>1. CASE s = r
    BY <2>1
  <2>2. CASE s # r
    <3>1. run'[s] = run[s] /\ Knows(s) /\ (s \notin overtaken' => s \notin overtaken)
      BY <2>2 DEF Clients
    <3> QED BY <3>1 DEF Knows
  <2> QED BY <2>1, <2>2
<1>2. ASSUME NEW w, ~\E s \in Runs : run'[s].ws = w /\ Touched(s)'
      PROVE  ~\E s \in Runs : run[s].ws = w /\ Touched(s)
  BY <1>2 DEF Touched
<1>3. ClientIsAsReported'
  BY <1>2 DEF Clients, ClientIsAsReported, Reported
<1> QED BY <1>1, <1>3 DEF Clients

(* A step of a host. *)
LEMMA ClientsStay ==
  ASSUME Clients, UNCHANGED <<run, client, latest, overtaken, loose>>
  PROVE  Clients'
BY DEF Clients, Knows, ClientIsAsReported, Reported, Touched

(* A step that replaces a client, which overtakes the other invocations.     *)
LEMMA ClientsChange ==
  ASSUME Clients, NEW r \in Runs, Moved(r), run[r].ws \in Workstations,
         UNCHANGED <<latest, loose>>, Touched(r)', Knows(r)',
         \A v \in Workstations : client'[v] # None /\ (v # run[r].ws => client'[v] = client[v]),
         \A s \in Runs : Active(s) => run[s].ws \in Workstations,
         (overtaken \cup Others(r)) \ {r} \subseteq overtaken'
  PROVE  Clients'
<1>1. ASSUME NEW s \in Runs PROVE Knows(s)'
  <2>1. CASE s = r
    BY <2>1
  <2>2. CASE s # r /\ Active(s)
    <3>1. run'[s] = run[s] /\ Knows(s) /\ run[s].ws \in Workstations
      BY <2>2 DEF Clients, Moved
    <3>2. s \notin overtaken' => s \notin overtaken /\ run[s].ws # run[r].ws
      BY <2>2 DEF Others
    <3> QED BY <3>1, <3>2 DEF Knows
  <2>3. CASE s # r /\ ~Active(s)
    <3>1. run'[s] = run[s] /\ run[s].pc \in {"unused", "done"}
      BY <2>3 DEF Active, Moved
    <3> QED BY <3>1 DEF Knows, Early
  <2> QED BY <2>1, <2>2, <2>3
<1>2. run'[r].ws = run[r].ws /\ \A s \in Runs : s # r => run'[s] = run[s]
  BY DEF Moved
<1>3. ASSUME NEW w \in Workstations, ~\E s \in Runs : run'[s].ws = w /\ Touched(s)'
      PROVE  /\ client'[w] = client[w]
             /\ ~\E s \in Runs : run[s].ws = w /\ Touched(s)
  BY <1>2, <1>3 DEF Touched
<1>4. ClientIsAsReported'
  BY <1>3 DEF Clients, ClientIsAsReported, Reported
<1> QED BY <1>1, <1>4 DEF Clients

(* An invocation that ends, with or without a report.                        *)
LEMMA ClientsEnd ==
  ASSUME Clients, NEW r \in Runs, \A s \in Runs : s # r => run'[s] = run[s],
         run'[r].pc = "done", client' = client, overtaken' = overtaken \ {r},
         NEW v \in Workstations, v = run[r].ws,
         \A u \in Workstations : u # v => latest'[u] = latest[u] /\ (u \in loose => u \in loose'),
         \/ v \in loose' \/ Reported(v)' = None \/ client[v] = Reported(v)'
         \/ latest' = latest /\ v \notin loose /\ ~Touched(r)
  PROVE  Clients'
<1>1. ASSUME NEW s \in Runs PROVE Knows(s)'
  <2>1. CASE s = r
    BY <2>1 DEF Knows, Early
  <2>2. CASE s # r
    <3>1. run'[s] = run[s] /\ Knows(s) /\ (s \notin overtaken' => s \notin overtaken)
      BY <2>2 DEF Clients
    <3> QED BY <3>1 DEF Knows
  <2> QED BY <2>1, <2>2
<1>2. ASSUME NEW w \in Workstations, w \notin loose', latest'[w].status # "none",
             Reported(w)' # None, ~\E s \in Runs : run'[s].ws = w /\ Touched(s)'
      PROVE  client'[w] = Reported(w)'
  <2>1. ASSUME latest'[w] = latest[w], w \notin loose,
               ~\E s \in Runs : run[s].ws = w /\ Touched(s)
        PROVE  client'[w] = Reported(w)'
    BY <1>2, <2>1 DEF Clients, ClientIsAsReported, Reported
  <2>2. ASSUME NEW s \in Runs, s # r, Touched(s) PROVE run[s].ws # w
    BY <1>2, <2>2 DEF Touched
  <2>3. CASE w # v
    BY <1>2, <2>1, <2>2, <2>3
  <2>4. CASE w = v
    <3>1. CASE latest' = latest /\ v \notin loose /\ ~Touched(r)
      BY <1>2, <2>1, <2>2, <2>4, <3>1
    <3> QED BY <1>2, <2>4, <3>1
  <2> QED BY <2>3, <2>4
<1> QED BY <1>1, <1>2 DEF Clients, ClientIsAsReported

(* The steps that only move an invocation on: it is inspected, saves its     *)
(* image, looks at the client or gives up.                                   *)
LEMMA OnlyMoves ==
  ASSUME Inv, NEW r \in Runs, Moved(r), ~run[r].ok, Knows(r)', Touched(r) => Touched(r)',
         UNCHANGED <<releases, images, control, client, job, latest, loose>>,
         overtaken \ {r} \subseteq overtaken',
         \/ /\ run[r].pc \in Early \cup {"verifying"} /\ run'[r].pc = "reporting"
            /\ run'[r].ok => run[r].action = "check" \/ run[r].pc = "verifying"
         \/ /\ ~run'[r].ok
            /\ \/ run[r].pc = "inspecting" /\ run'[r].pc = "looking"
               \/ run[r].pc = "inspecting" /\ run'[r].pc = "blocked" /\ run[r].action # "check"
               \/ run[r].pc = "looking" /\ run'[r].pc = "snapshot" /\ run[r].action # "check"
               \/ run[r].pc = "saving" /\ run'[r].pc = "installing"
               \/ run[r].pc = "installing" /\ run'[r].pc = "replacing"
               \/ run[r].pc = "verifying" /\ run'[r].pc = "rollback"
  PROVE  Inv'
<1> USE NucSyncAssumption DEF Hosts, Actions, Host, Early
<1>1. Shapes'
  BY DEF Inv, Shapes, Moved
<1>2. Staged'
  BY DEF Inv, Staged, Moved, Shapes
<1>3. Building'
  <2>1. \A s \in Runs : run'[s].tree = run[s].tree /\ Host(s)' = Host(s)
    BY DEF Moved
  <2> QED BY <2>1, BuildingKept DEF Inv
<1>4. Built'
  BY DEF Inv, Shapes, Staged, Built, HasImage, Moved
<1>5. Clients'
  BY ClientsMove DEF Inv, Moved
<1> QED BY <1>1, <1>2, <1>3, <1>4, <1>5 DEF Inv

(* The steps of build() that only move it on. *)
LEMMA JobMoves ==
  ASSUME Inv, NEW r \in Runs, Building', run[r].pc # "unused",
         job[r].step \in {"build", "inspected", "verified"},
         UNCHANGED <<releases, images, control, client, run, latest, overtaken, loose>>,
         DOMAIN job' = Runs, DOMAIN job'[r] = DOMAIN job[r],
         \A s \in Runs : s # r => job'[s] = job[s],
         \/ job'[r].step \in {"error", "inspected", "verified", "docker"}
         \/ job'[r].step = "validate" /\ HasImage(r)
  PROVE  Inv'
<1> USE NucSyncAssumption DEF Hosts, Actions, Host, Early
<1>1. Shapes'
  BY DEF Inv, Shapes
<1>2. Staged'
  BY DEF Inv, Staged
<1>3. Built'
  BY DEF Inv, Built, HasImage
<1> QED BY <1>1, <1>2, <1>3, ClientsStay DEF Inv

-----------------------------------------------------------------------------
(* Every step preserves the invariant. *)
LEMMA NextInvariant == Inv /\ [Next]_vars => Inv'
<1> SUFFICES ASSUME Inv, [Next]_vars PROVE Inv'
  OBVIOUS
<1> USE NucSyncAssumption DEF Hosts, Actions
<1> USE DEF Goto, Ends, JobEnds, Host, Early
<1>1. ASSUME NEW r \in Runs, NEW w \in Workstations, NEW a \in Actions,
             Begin(r, w, a) \/ Refused(r, w, a)
      PROVE  Inv'
  <2>1. /\ DOMAIN run' = Runs /\ DOMAIN run'[r] = DOMAIN run[r] /\ run[r].pc = "unused"
        /\ \A s \in Runs : s # r => run'[s] = run[s]
        /\ UNCHANGED <<releases, images, control, client, job, latest, overtaken, loose>>
    <3>1. DOMAIN run = Runs /\ DOMAIN run[r] = DOMAIN Unused
      BY <1>1 DEF Inv, Shapes, Unused
    <3>2. run[r].pc = "unused" /\ UNCHANGED <<releases, images, control, client, job, latest, overtaken, loose>>
      BY <1>1, Zenon DEF Begin, Refused
    <3>3. ASSUME NEW x, DOMAIN x = DOMAIN Unused, run' = [run EXCEPT ![r] = x]
          PROVE  DOMAIN run' = Runs /\ DOMAIN run'[r] = DOMAIN run[r] /\ \A s \in Runs : s # r => run'[s] = run[s]
      BY <3>1, <3>3
    <3>4. CASE Begin(r, w, a)
      <4> DEFINE x == [Asked(w, a) EXCEPT !.previous = IF a = "check" THEN None ELSE client[w]]
      <4>1. DOMAIN x = DOMAIN Unused /\ run' = [run EXCEPT ![r] = x]
        BY <3>4 DEF Begin, Asked
      <4> HIDE DEF x
      <4> QED BY <4>1, <3>2, <3>3
    <3>5. CASE Refused(r, w, a)
      <4> DEFINE x == [Asked(w, a) EXCEPT !.pc = "reporting"]
      <4>1. DOMAIN x = DOMAIN Unused /\ run' = [run EXCEPT ![r] = x]
        BY <3>5 DEF Refused, Asked
      <4> HIDE DEF x
      <4> QED BY <4>1, <3>2, <3>3
    <3> QED BY <1>1, <3>4, <3>5
  <2>2. /\ run'[r].ws = w /\ run'[r].action = a /\ ~run'[r].ok
        /\ \/ run'[r].pc = "reporting" /\ run'[r].previous = None
           \/ /\ run'[r].pc = "inspecting"
              /\ run'[r].previous = IF a = "check" THEN None ELSE client[w]
    <3>1. CASE Begin(r, w, a)
      <4> DEFINE m == [Asked(w, a) EXCEPT !.previous = IF a = "check" THEN None ELSE client[w]]
      <4>1. run'[r] = m
        BY <3>1 DEF Inv, Shapes, Begin
      <4>2. /\ m.ws = w /\ m.action = a /\ ~m.ok /\ m.pc = "inspecting"
            /\ m.previous = IF a = "check" THEN None ELSE client[w]
        BY DEF Asked, Unused
      <4> HIDE DEF m
      <4> QED BY <4>1, <4>2
    <3>2. CASE Refused(r, w, a)
      BY <3>2 DEF Inv, Shapes, Refused, Asked, Unused
    <3> QED BY <1>1, <3>1, <3>2
  <2>3. job[r].step = "none"
    BY <2>1 DEF Inv, Staged
  <2>4. Shapes'
    BY <2>1, <2>2, <2>3 DEF Inv, Shapes
  <2>5. Staged'
    BY <2>1, <2>2, <2>3 DEF Inv, Staged
  <2>6. Building'
    BY <2>1, <2>2, <2>3 DEF Inv, Building, Verified
  <2>7. Built'
    BY <2>1, <2>2, <2>3 DEF Inv, Built, HasImage
  <2>8. Clients'
    <3>1. Knows(r)'
      BY <2>1, <2>2 DEF Inv, Clients, Knows
    <3>2. ~Touched(r)
      BY <2>1 DEF Touched
    <3> QED BY <2>1, <3>1, <3>2, ClientsMove DEF Inv
  <2> QED BY <2>4, <2>5, <2>6, <2>7, <2>8 DEF Inv
<1>2. ASSUME NEW r \in Runs, NEW t \in Trees, NEW c \in Commits, Snapshot(r, t, c) PROVE Inv'
  <2> DEFINE w == run[r].ws
  <2>1. /\ w \in Workstations /\ run[r].pc = "snapshot"
        /\ job[r].step = "none" /\ run[r].action # "check"
    BY <1>2 DEF Inv, Shapes, Staged, Snapshot
  <2>2. /\ DOMAIN releases' = Hosts
        /\ \A h \in Hosts : DOMAIN releases'[h] = Trees
        /\ \A h \in Hosts, u \in Trees :
              \/ releases'[h][u] = releases[h][u]
              \/ releases[h][u] = None /\ releases'[h][u] = [commit |-> c, sound |-> TRUE]
    BY <1>2, <2>1 DEF Inv, Shapes, Snapshot
  <2>3. releases'[w][t].commit \in Commits
    BY <1>2, <2>1 DEF Inv, Shapes, Manifest, Snapshot
  <2>4. /\ DOMAIN run' = Runs /\ DOMAIN job' = Runs
        /\ \A s \in Runs : s # r => run'[s] = run[s] /\ job'[s] = job[s]
        /\ DOMAIN run'[r] = DOMAIN run[r] /\ DOMAIN job'[r] = DOMAIN job[r]
    BY <1>2 DEF Inv, Shapes, Snapshot
  <2>5. /\ run'[r].ws = run[r].ws /\ run'[r].action = run[r].action /\ run'[r].ok = run[r].ok
        /\ run'[r].previous = run[r].previous /\ run'[r].kept = run[r].kept /\ run'[r].tree = t
        /\ run'[r].commit = releases'[w][t].commit
    BY <1>2 DEF Inv, Shapes, Snapshot
  <2>6. \/ run'[r].pc = "building" /\ job'[r].step = "build"
        \/ run'[r].pc = "uploading" /\ job'[r].step = "upload"
    BY <1>2 DEF Inv, Shapes, Snapshot
  <2>7. UNCHANGED <<images, control, client, latest, overtaken, loose>>
    BY <1>2 DEF Snapshot
  <2> HIDE DEF w
  <2>8. Shapes'
    <3>1. \A h \in Hosts, u \in Trees : releases'[h][u] # None => Manifest(releases'[h][u])
      <4>1. Manifest([commit |-> c, sound |-> TRUE])
        BY Records, TRUE \in BOOLEAN DEF Manifest
      <4> QED BY <2>2, <4>1, Zenon DEF Inv, Shapes
    <3> QED BY <3>1, <2>1, <2>2, <2>3, <2>4, <2>5, <2>6, <2>7 DEF Inv, Shapes, w
  <2>9. Staged'
    BY <2>1, <2>2, <2>3, <2>4, <2>5, <2>6, <2>7, SMTT(30) DEF Inv, Staged, w
  <2>10. Building'
    <3> SUFFICES ASSUME NEW s \in Runs, job'[s].step \in {"verified", "docker"}
                 PROVE  LET h == Host(s)
                            u == run[s].tree IN
                        /\ releases'[h][u] # None /\ releases'[h][u].sound
                        /\ releases'[h][u].commit = job[s].commit
                        /\ job[s].step = "docker" =>
                             images[h][u] = None \/ images[h][u].commit = job[s].commit
      BY <2>4, <2>6, <2>7 DEF Building, Verified
    <3>1. /\ job[s].step \in {"verified", "docker"} /\ s # r
          /\ Host(s) \in Hosts /\ run[s].tree \in Trees
      BY <2>4, <2>6 DEF Inv, Shapes
    <3>2. /\ Verified(Host(s), run[s].tree)
          /\ releases'[Host(s)][run[s].tree] = releases[Host(s)][run[s].tree]
      BY <2>2, <3>1 DEF Inv, Building, Verified
    <3> QED BY <2>4, <2>7, <3>1, <3>2, Zenon DEF Inv, Building, Verified
  <2>11. Built'
    BY <2>1, <2>4, <2>5, <2>6, <2>7 DEF Inv, Built, HasImage, Staged
  <2>12. Clients'
    <3>1. Knows(r)'
      BY <2>1, <2>5, <2>6, <2>7 DEF Inv, Clients, Knows
    <3>2. ~Touched(r)
      BY <2>1 DEF Touched
    <3> QED BY <2>4, <2>7, <3>1, <3>2, ClientsMove DEF Inv
  <2> QED BY <2>8, <2>9, <2>10, <2>11, <2>12 DEF Inv
<1>3. ASSUME NEW r \in Runs, Inspects(r) PROVE Inv'
  <2>1. run[r].pc = "inspecting" /\ ~run[r].ok /\ Shapes /\ Knows(r)
    BY <1>3 DEF Inv, Staged, Clients, Inspects
  <2>2. /\ Moved(r) /\ run'[r].previous = run[r].previous /\ run'[r].kept = run[r].kept
        /\ ~run'[r].ok
        /\ \/ run'[r].pc \in {"reporting", "looking"}
           \/ run'[r].pc = "blocked" /\ run[r].action # "check"
    <3> HIDE DEF Goto, Ends
    <3> QED BY <1>3, <2>1, Moves, Zenon DEF Inspects, Inspected
  <2>3. UNCHANGED <<releases, images, control, client, job, latest, overtaken, loose>>
    BY <1>3 DEF Inspects
  <2>4. Knows(r)' /\ ~Touched(r)
    BY <2>1, <2>2, <2>3 DEF Knows, Touched, Moved
  <2> QED BY <2>1, <2>2, <2>3, <2>4, OnlyMoves
<1>4. ASSUME NEW r \in Runs, Looks(r) PROVE Inv'
  <2>1. /\ run[r].pc \in {"looking", "blocked"} /\ ~run[r].ok /\ Shapes /\ Knows(r)
        /\ run[r].ws \in Workstations /\ (run[r].pc = "blocked" => run[r].action # "check")
        /\ client[run[r].ws] # None
    BY <1>4 DEF Inv, Shapes, Staged, Clients, Looks
  <2>2. UNCHANGED <<releases, images, control, client, job, latest, loose>>
    BY <1>4 DEF Looks
  <2>3. ~Touched(r)
    BY <2>1 DEF Touched
  <2>4. CASE Ends(r, FALSE) /\ UNCHANGED overtaken
    <3>1. /\ Moved(r) /\ run'[r].pc = "reporting" /\ ~run'[r].ok
          /\ run'[r].previous = run[r].previous /\ run'[r].kept = run[r].kept
      <4> HIDE DEF Ends
      <4> QED BY <2>1, <2>4, Moves
    <3>2. Knows(r)'
      BY <2>1, <2>2, <2>4, <3>1 DEF Knows, Moved
    <3> QED BY <2>1, <2>2, <2>3, <2>4, <3>1, <3>2, OnlyMoves
  <2>5. CASE run[r].action = "check" /\ Ends(r, TRUE) /\ UNCHANGED overtaken
    <3>1. /\ Moved(r) /\ run'[r].pc = "reporting"
          /\ run'[r].previous = run[r].previous /\ run'[r].kept = run[r].kept
      <4> HIDE DEF Ends
      <4> QED BY <2>1, <2>5, Moves
    <3>2. Knows(r)'
      BY <2>1, <2>2, <2>5, <3>1 DEF Knows, Moved
    <3> QED BY <2>1, <2>2, <2>3, <2>5, <3>1, <3>2, OnlyMoves
  <2>6. ASSUME NEW pc \in {"snapshot", "reporting"}, NEW ok \in BOOLEAN,
               pc = "snapshot" <=> run[r].pc = "looking" /\ run[r].action # "check",
               ok <=> run[r].action = "check",
               run' = [run EXCEPT ![r] =
                         [@ EXCEPT !.pc = pc, !.ok = ok, !.previous = client[run[r].ws]]],
               overtaken' = overtaken \ {r}
        PROVE  Inv'
    <3> DEFINE m == [run[r] EXCEPT !.pc = pc, !.ok = ok, !.previous = client[run[r].ws]]
    <3>1. run' = [run EXCEPT ![r] = m]
      BY <2>6
    <3>2. /\ DOMAIN run = Runs
          /\ DOMAIN run[r] = {"pc", "ws", "action", "tree", "commit", "previous", "kept", "ok"}
      BY <2>1 DEF Shapes
    <3>3. /\ DOMAIN m = DOMAIN run[r] /\ m.pc = pc /\ m.ok = ok /\ m.ws = run[r].ws
          /\ m.action = run[r].action /\ m.tree = run[r].tree /\ m.commit = run[r].commit
          /\ m.previous = client[run[r].ws]
      BY <3>2
    <3> HIDE DEF m
    <3>4. /\ Moved(r) /\ run'[r].pc = pc /\ run'[r].ok = ok
          /\ run'[r].previous = client[run[r].ws]
      BY <3>1, <3>2, <3>3 DEF Moved
    <3>5. Knows(r)'
      BY <2>1, <2>2, <2>6, <3>4 DEF Knows, Moved
    <3> QED BY <2>1, <2>2, <2>3, <2>6, <3>4, <3>5, OnlyMoves
  <2> QED BY <1>4, <2>4, <2>5, <2>6, Zenon DEF Looks
<1>5. ASSUME NEW r \in Runs, SnapshotFails(r) PROVE Inv'
  <2>1. run[r].pc = "snapshot" /\ ~run[r].ok /\ Shapes /\ Knows(r)
    BY <1>5 DEF Inv, Staged, Clients, SnapshotFails
  <2>2. /\ Moved(r) /\ run'[r].previous = run[r].previous /\ run'[r].kept = run[r].kept
        /\ run'[r].pc = "reporting" /\ ~run'[r].ok
    <3> HIDE DEF Goto, Ends
    <3> QED BY <1>5, <2>1, Moves DEF SnapshotFails
  <2>3. UNCHANGED <<releases, images, control, client, job, latest, overtaken, loose>>
    BY <1>5 DEF SnapshotFails
  <2>4. Knows(r)' /\ ~Touched(r)
    BY <2>1, <2>2, <2>3 DEF Knows, Touched, Moved
  <2> QED BY <2>1, <2>2, <2>3, <2>4, OnlyMoves
<1>6. ASSUME NEW r \in Runs, Receipt(r) PROVE Inv'
  <2>1. /\ run[r].pc \in {"uploading", "building"} /\ job[r].step \in {"done", "error"}
        /\ ~run[r].ok /\ Shapes
    BY <1>6 DEF Inv, Staged, Receipt
  <2>2. /\ Moved(r)
        /\ run'[r].previous = run[r].previous /\ run'[r].kept = run[r].kept /\ ~run'[r].ok
        /\ \/ run'[r].pc = "reporting" /\ job' = [job EXCEPT ![r] = Idle]
           \/ /\ run'[r].pc = "building"
              /\ job' = [job EXCEPT ![r] = [Idle EXCEPT !.step = "build"]]
           \/ /\ run[r].pc = "building" /\ job[r].step = "done" /\ job' = [job EXCEPT ![r] = Idle]
              /\ run'[r].pc = IF run[r].action = "build-local" THEN "saving" ELSE "installing"
    <3> HIDE DEF Goto, Ends
    <3> QED BY <1>6, <2>1, Moves DEF Receipt
  <2>3. UNCHANGED <<releases, images, control, client, latest, overtaken, loose>>
    BY <1>6 DEF Receipt
  <2>4. Shapes'
    BY <2>1, <2>2, <2>3 DEF Inv, Shapes, Moved, Idle
  <2>5. Staged'
    BY <2>1, <2>2, <2>3 DEF Inv, Staged, Moved, Shapes, Idle
  <2>6. Building'
    <3>1. \A s \in Runs : job'[s].step \in {"verified", "docker"} =>
             job'[s] = job[s] /\ run'[s].tree = run[s].tree /\ Host(s)' = Host(s)
      BY <2>1, <2>2, <2>3 DEF Inv, Shapes, Idle, Moved
    <3> QED BY <2>3, <3>1, BuildingKept DEF Inv
  <2>7. Built'
    BY <2>1, <2>2, <2>3 DEF Inv, Shapes, Staged, Built, HasImage, Moved, Idle
  <2>8. Clients'
    <3>1. Knows(r)' /\ ~Touched(r)
      BY <2>1, <2>2, <2>3 DEF Inv, Staged, Clients, Knows, Touched, Moved
    <3> QED BY <2>2, <2>3, <3>1, ClientsMove DEF Inv, Moved
  <2> QED BY <2>4, <2>5, <2>6, <2>7, <2>8 DEF Inv
<1>7. ASSUME NEW r \in Runs, ConnectionLost(r) PROVE Inv'
  <2>1. run[r].pc \in {"uploading", "building"} /\ ~run[r].ok /\ Shapes /\ Knows(r)
    BY <1>7 DEF Inv, Staged, Clients, ConnectionLost
  <2>2. /\ Moved(r) /\ run'[r].previous = run[r].previous /\ run'[r].kept = run[r].kept
        /\ run'[r].pc = "reporting" /\ ~run'[r].ok
    <3> HIDE DEF Goto, Ends
    <3> QED BY <1>7, <2>1, Moves DEF ConnectionLost
  <2>3. UNCHANGED <<releases, images, control, client, job, latest, overtaken, loose>>
    BY <1>7 DEF ConnectionLost
  <2>4. Knows(r)' /\ ~Touched(r)
    BY <2>1, <2>2, <2>3 DEF Knows, Touched, Moved
  <2> QED BY <2>1, <2>2, <2>3, <2>4, OnlyMoves
<1>8. ASSUME NEW r \in Runs, SavesImage(r) PROVE Inv'
  <2>1. run[r].pc = "saving" /\ ~run[r].ok /\ Shapes /\ Knows(r)
    BY <1>8 DEF Inv, Staged, Clients, SavesImage
  <2>2. /\ Moved(r) /\ run'[r].previous = run[r].previous /\ run'[r].kept = run[r].kept
        /\ run'[r].pc \in {"installing", "reporting"} /\ ~run'[r].ok
    <3> HIDE DEF Goto, Ends
    <3> QED BY <1>8, <2>1, Moves DEF SavesImage
  <2>3. UNCHANGED <<releases, images, control, client, job, latest, overtaken, loose>>
    BY <1>8 DEF SavesImage
  <2>4. Knows(r)' /\ ~Touched(r)
    BY <2>1, <2>2, <2>3 DEF Knows, Touched, Moved
  <2> QED BY <2>1, <2>2, <2>3, <2>4, OnlyMoves
<1>9. ASSUME NEW r \in Runs, Keeps(r) PROVE Inv'
  <2>1. /\ run[r].pc = "installing" /\ ~run[r].ok /\ Shapes /\ Knows(r)
        /\ run[r].ws \in Workstations /\ client[run[r].ws] # None /\ run[r].action # "check"
    BY <1>9 DEF Inv, Shapes, Staged, Clients, Keeps
  <2>2. UNCHANGED <<releases, images, control, client, job, latest, overtaken, loose>>
    BY <1>9 DEF Keeps
  <2>3. ~Touched(r)
    BY <2>1 DEF Touched
  <2>4. CASE Ends(r, FALSE)
    <3>1. /\ Moved(r) /\ run'[r].pc = "reporting" /\ ~run'[r].ok
          /\ run'[r].previous = run[r].previous /\ run'[r].kept = run[r].kept
      <4> HIDE DEF Ends
      <4> QED BY <2>1, <2>4, Moves
    <3>2. Knows(r)'
      BY <2>1, <2>2, <3>1 DEF Knows, Moved
    <3> QED BY <2>1, <2>2, <2>3, <3>1, <3>2, OnlyMoves
  <2>5. CASE run' = [run EXCEPT ![r] = [@ EXCEPT !.pc = "replacing", !.kept = client[run[r].ws]]]
    <3> DEFINE m == [run[r] EXCEPT !.pc = "replacing", !.kept = client[run[r].ws]]
    <3>1. run' = [run EXCEPT ![r] = m]
      BY <2>5
    <3>2. /\ DOMAIN run = Runs
          /\ DOMAIN run[r] = {"pc", "ws", "action", "tree", "commit", "previous", "kept", "ok"}
      BY <2>1 DEF Shapes
    <3>3. /\ DOMAIN m = DOMAIN run[r] /\ m.pc = "replacing" /\ m.ok = run[r].ok
          /\ m.ws = run[r].ws /\ m.action = run[r].action /\ m.tree = run[r].tree
          /\ m.commit = run[r].commit /\ m.previous = run[r].previous
          /\ m.kept = client[run[r].ws]
      BY <3>2
    <3> HIDE DEF m
    <3>4. /\ Moved(r) /\ run'[r].pc = "replacing" /\ ~run'[r].ok
          /\ run'[r].previous = run[r].previous /\ run'[r].kept = client[run[r].ws]
      BY <2>1, <3>1, <3>2, <3>3 DEF Moved
    <3>5. Knows(r)'
      BY <2>1, <2>2, <3>4 DEF Knows, Moved
    <3> QED BY <2>1, <2>2, <2>3, <3>4, <3>5, OnlyMoves
  <2> QED BY <1>9, <2>4, <2>5 DEF Keeps
<1>10. ASSUME NEW r \in Runs, Installs(r) PROVE Inv'
  <2>1. /\ run[r].pc = "replacing" /\ ~run[r].ok /\ Shapes /\ Knows(r)
        /\ run[r].ws \in Workstations /\ run[r].tree \in Trees
        /\ client[run[r].ws] # None /\ run[r].action # "check"
    BY <1>10 DEF Inv, Shapes, Staged, Built, HasImage, Clients, Installs
  <2>2. /\ Moved(r) /\ run'[r].previous = run[r].previous /\ run'[r].kept = run[r].kept
        /\ ~run'[r].ok /\ run'[r].pc \in {"verifying", "rollback"}
    <3> HIDE DEF Goto
    <3> QED BY <1>10, <2>1, Moves DEF Installs
  <2>3. /\ DOMAIN client' = Workstations
        /\ client'[run[r].ws] \in {client[run[r].ws], run[r].tree}
        /\ \A v \in Workstations : v # run[r].ws => client'[v] = client[v]
    BY <1>10, <2>1 DEF Shapes, Installs
  <2>4. /\ UNCHANGED <<releases, images, control, job, latest, loose>>
        /\ overtaken' = overtaken \cup Others(r)
    BY <1>10 DEF Installs
  <2>5. Shapes'
    BY <2>1, <2>2, <2>3, <2>4 DEF Inv, Shapes, Moved
  <2>6. Staged'
    BY <2>1, <2>2, <2>4 DEF Inv, Staged, Moved
  <2>7. Building'
    <3>1. \A s \in Runs : run'[s].tree = run[s].tree /\ Host(s)' = Host(s)
      BY <2>2 DEF Moved
    <3> QED BY <2>4, <3>1, BuildingKept DEF Inv
  <2>8. Built'
    BY <2>1, <2>2, <2>4 DEF Inv, Shapes, Staged, Built, HasImage, Moved
  <2>9. Clients'
    <3>1. Knows(r)'
      BY <2>1, <2>2, <2>4 DEF Knows, Moved
    <3>2. Touched(r)'
      BY <2>2 DEF Touched
    <3>3. \A v \in Workstations : client'[v] # None /\ (v # run[r].ws => client'[v] = client[v])
      BY <2>1, <2>3 DEF Inv, Clients
    <3>4. \A s \in Runs : Active(s) => run[s].ws \in Workstations
      BY DEF Inv, Shapes, Active
    <3> QED BY <2>1, <2>2, <2>4, <3>1, <3>2, <3>3, <3>4, ClientsChange DEF Inv
  <2> QED BY <2>5, <2>6, <2>7, <2>8, <2>9 DEF Inv
<1>11. ASSUME NEW r \in Runs, VerifiesClient(r) PROVE Inv'
  <2>1. run[r].pc = "verifying" /\ ~run[r].ok /\ Shapes /\ Knows(r) /\ run[r].action # "check"
    BY <1>11 DEF Inv, Staged, Clients, VerifiesClient
  <2>2. /\ Moved(r) /\ run'[r].previous = run[r].previous /\ run'[r].kept = run[r].kept
        /\ \/ /\ run'[r].pc = "reporting" /\ run'[r].ok /\ client[run[r].ws] = run[r].tree
              /\ overtaken' = overtaken \ {r}
           \/ run'[r].pc = "rollback" /\ ~run'[r].ok /\ overtaken' = overtaken
    <3> HIDE DEF Goto, Ends
    <3> QED BY <1>11, <2>1, Moves DEF VerifiesClient
  <2>3. UNCHANGED <<releases, images, control, client, job, latest, loose>>
    BY <1>11 DEF VerifiesClient
  <2>4. Knows(r)' /\ Touched(r)'
    BY <2>1, <2>2, <2>3 DEF Knows, Touched, Moved
  <2> QED BY <2>1, <2>2, <2>3, <2>4, OnlyMoves
<1>12. ASSUME NEW r \in Runs, RollsBack(r) PROVE Inv'
  <2>1. /\ run[r].pc = "rollback" /\ ~run[r].ok /\ Shapes /\ Knows(r)
        /\ run[r].ws \in Workstations /\ run[r].kept # None /\ run[r].action # "check"
    BY <1>12 DEF Inv, Shapes, Staged, Clients, Knows, RollsBack
  <2>2. /\ Moved(r) /\ run'[r].previous = run[r].previous /\ run'[r].kept = run[r].kept
        /\ ~run'[r].ok /\ run'[r].pc = "reporting"
    <3> HIDE DEF Ends
    <3> QED BY <1>12, <2>1, Moves DEF RollsBack
  <2>3. /\ DOMAIN client' = Workstations
        /\ \A v \in Workstations : v # run[r].ws => client'[v] = client[v]
    BY <1>12, <2>1 DEF Shapes, RollsBack
  <2>4. \/ /\ client'[run[r].ws] = run[r].kept
           /\ overtaken' = (overtaken \cup Others(r))
                             \ (IF run[r].kept = run[r].previous THEN {r} ELSE {})
        \/ client' = client /\ overtaken' = overtaken \cup {r}
    BY <1>12, <2>1 DEF Shapes, RollsBack
  <2>5. UNCHANGED <<releases, images, control, job, latest, loose>>
    BY <1>12 DEF RollsBack
  <2>6. Shapes'
    BY <2>1, <2>2, <2>3, <2>5 DEF Inv, Shapes, Moved
  <2>7. Staged'
    BY <2>1, <2>2, <2>5 DEF Inv, Staged, Moved
  <2>8. Building'
    <3>1. \A s \in Runs : run'[s].tree = run[s].tree /\ Host(s)' = Host(s)
      BY <2>2 DEF Moved
    <3> QED BY <2>5, <3>1, BuildingKept DEF Inv
  <2>9. Built'
    BY <2>1, <2>2, <2>5 DEF Inv, Shapes, Staged, Built, HasImage, Moved
  <2>10. Clients'
    <3>1. Touched(r)'
      BY <2>1, <2>2 DEF Touched
    <3>2. Knows(r)'
      BY <2>1, <2>2, <2>4 DEF Knows, Moved
    <3>3. CASE client' = client /\ overtaken' = overtaken \cup {r}
      BY <2>2, <2>5, <3>1, <3>2, <3>3, ClientsMove DEF Inv, Moved
    <3>4. CASE client'[run[r].ws] = run[r].kept /\ ~(client' = client /\ overtaken' = overtaken \cup {r})
      <4>1. \A v \in Workstations : client'[v] # None /\ (v # run[r].ws => client'[v] = client[v])
        BY <2>1, <2>3, <3>4 DEF Inv, Clients
      <4>2. \A s \in Runs : Active(s) => run[s].ws \in Workstations
        BY DEF Inv, Shapes, Active
      <4>3. (overtaken \cup Others(r)) \ {r} \subseteq overtaken'
        BY <2>4, <3>4
      <4> QED BY <2>1, <2>2, <2>5, <3>1, <3>2, <4>1, <4>2, <4>3, ClientsChange DEF Inv
    <3> QED BY <2>4, <3>3, <3>4
  <2> QED BY <2>6, <2>7, <2>8, <2>9, <2>10 DEF Inv
<1>13. ASSUME NEW r \in Runs, Reports(r) PROVE Inv'
  <2>1. Shapes'
    BY <1>13 DEF Inv, Shapes, Staged, Reports, Written, StatusOf
  <2>2. Staged'
    BY <1>13 DEF Inv, Shapes, Staged, Reports, Written, StatusOf
  <2>3. Building'
    <3>1. \A s \in Runs : job'[s].step \in {"verified", "docker"} =>
             job'[s] = job[s] /\ run'[s].tree = run[s].tree /\ Host(s)' = Host(s)
      BY <1>13 DEF Inv, Shapes, Staged, Reports, Written, StatusOf
    <3>2. UNCHANGED <<releases, images>>
      BY <1>13 DEF Reports
    <3> QED BY <3>1, <3>2, BuildingKept DEF Inv
  <2>4. Built'
    BY <1>13 DEF Inv, Shapes, Staged, Built, Reports, Written, StatusOf, HasImage
  <2>5. Clients'
    <3>0. PICK v \in Workstations : v = run[r].ws
      BY <1>13 DEF Inv, Shapes, Reports
    <3>1. run[r].action \in Actions /\ run[r].pc = "reporting" /\ Knows(r)
      BY <1>13 DEF Inv, Shapes, Clients, Reports
    <3>2. run'[r].pc = "done" /\ \A s \in Runs : s # r => run'[s] = run[s]
      BY <1>13 DEF Inv, Shapes, Reports
    <3>3. /\ latest'[v] = [status |-> StatusOf(r), tree |-> run[r].tree,
                          previous |-> run[r].previous]
          /\ \A u \in Workstations : u # v => latest'[u] = latest[u]
      BY <1>13, <3>0 DEF Inv, Shapes, Reports, Written
    <3>4. /\ client' = client /\ overtaken' = overtaken \ {r}
          /\ loose' = IF r \in overtaken THEN loose \cup {v} ELSE loose \ {v}
      BY <1>13, <3>0 DEF Reports
    <3>5. run[r].ok /\ run[r].action # "check" <=> StatusOf(r) \in {"paired", "local"}
      BY <3>1 DEF StatusOf
    <3>6. Reported(v)' =
            IF StatusOf(r) \in {"paired", "local"} THEN run[r].tree ELSE run[r].previous
      BY <3>3 DEF Reported
    <3>7. v \in loose' \/ Reported(v)' = None \/ client[v] = Reported(v)'
      BY <3>0, <3>1, <3>4, <3>5, <3>6 DEF Knows
    <3> QED BY <3>0, <3>2, <3>3, <3>4, <3>7, ClientsEnd DEF Inv
  <2> QED BY <2>1, <2>2, <2>3, <2>4, <2>5 DEF Inv
<1>14. ASSUME NEW r \in Runs, Interrupted(r) PROVE Inv'
  <2>1. Shapes'
    BY <1>14 DEF Inv, Shapes, Staged, Active, Interrupted, Idle
  <2>2. Staged'
    BY <1>14 DEF Inv, Shapes, Staged, Active, Interrupted, Idle
  <2>3. Building'
    <3>1. \A s \in Runs : job'[s].step \in {"verified", "docker"} =>
             job'[s] = job[s] /\ run'[s].tree = run[s].tree /\ Host(s)' = Host(s)
      BY <1>14 DEF Inv, Shapes, Staged, Active, Interrupted, Idle
    <3>2. UNCHANGED <<releases, images>>
      BY <1>14 DEF Interrupted
    <3> QED BY <3>1, <3>2, BuildingKept DEF Inv
  <2>4. Built'
    BY <1>14 DEF Inv, Shapes, Staged, Built, Interrupted, Idle, HasImage
  <2>5. Clients'
    <3>0. PICK v \in Workstations : v = run[r].ws
      BY <1>14 DEF Inv, Shapes, Interrupted, Active
    <3>1. run'[r].pc = "done" /\ \A s \in Runs : s # r => run'[s] = run[s]
      BY <1>14 DEF Inv, Shapes, Interrupted
    <3>2. /\ UNCHANGED <<client, latest>> /\ overtaken' = overtaken \ {r}
          /\ loose' = IF Touched(r) THEN loose \cup {v} ELSE loose
      BY <1>14, <3>0 DEF Interrupted
    <3> QED BY <3>0, <3>1, <3>2, ClientsEnd DEF Inv
  <2> QED BY <2>1, <2>2, <2>3, <2>4, <2>5 DEF Inv
<1>15. ASSUME NEW r \in Runs, UploadChecks(r) PROVE Inv'
  <2>1. Shapes'
    BY <1>15 DEF Inv, Shapes, Staged, UploadChecks, BuildReady, Verified
  <2>2. Staged'
    BY <1>15, SMTT(30) DEF Inv, Shapes, Staged, UploadChecks, BuildReady, Verified
  <2>3. Building'
    BY <1>15 DEF Inv, Shapes, Staged, Building, UploadChecks, BuildReady, Verified
  <2>4. Built'
    BY <1>15 DEF Inv, Shapes, Staged, Built, UploadChecks, BuildReady, Verified, HasImage
  <2>5. Clients'
    <3>1. UNCHANGED <<run, client, latest, overtaken, loose>>
      BY <1>15 DEF UploadChecks
    <3> QED BY <3>1, ClientsStay DEF Inv
  <2> QED BY <2>1, <2>2, <2>3, <2>4, <2>5 DEF Inv
<1>16. ASSUME NEW r \in Runs, Receives(r) PROVE Inv'
  <2>1. Shapes'
    <3>1. /\ DOMAIN releases' = Hosts
          /\ \A h \in Hosts : DOMAIN releases'[h] = Trees
          /\ \A h \in Hosts, t \in Trees :
               \/ releases'[h][t] = releases[h][t]
               \/ releases'[h][t] = [commit |-> run[r].commit, sound |-> TRUE]
      BY <1>16 DEF Inv, Shapes, Receives
    <3>2. run[r].commit \in Commits
      BY <1>16 DEF Inv, Shapes, Receives
    <3>3. \A h \in Hosts, t \in Trees :
             releases'[h][t] # None => Manifest(releases'[h][t])
      <4>1. Manifest([commit |-> run[r].commit, sound |-> TRUE])
        BY <3>2, Records, TRUE \in BOOLEAN DEF Manifest
      <4> QED BY <3>1, <4>1, Zenon DEF Inv, Shapes
    <3>4. /\ DOMAIN job' = Runs
          /\ \A s \in Runs : /\ DOMAIN job'[s] = DOMAIN job[s]
                             /\ job'[s].step # "none" => job[s].step # "none"
      BY <1>16 DEF Inv, Shapes, Receives
    <3>5. UNCHANGED <<images, control, client, run, latest>>
      BY <1>16 DEF Receives
    <3> QED BY <3>1, <3>3, <3>4, <3>5 DEF Inv, Shapes
  <2>2. Staged'
    BY <1>16, SMTT(30) DEF Inv, Shapes, Staged, Receives
  <2>3. Building'
    BY <1>16, SMTT(30) DEF Inv, Shapes, Staged, Building, Receives, Verified
  <2>4. Built'
    BY <1>16 DEF Inv, Shapes, Staged, Built, Receives, HasImage
  <2>5. Clients'
    <3>1. UNCHANGED <<run, client, latest, overtaken, loose>>
      BY <1>16 DEF Receives
    <3> QED BY <3>1, ClientsStay DEF Inv
  <2> QED BY <2>1, <2>2, <2>3, <2>4, <2>5 DEF Inv
<1>17. ASSUME NEW r \in Runs, BuildInspects(r) PROVE Inv'
  <2>1. /\ job[r].step = "build" /\ run[r].pc # "unused"
        /\ UNCHANGED <<releases, images, control, client, run, latest, overtaken, loose>>
    BY <1>17 DEF Inv, Staged, BuildInspects
  <2>2. /\ DOMAIN job' = Runs /\ DOMAIN job'[r] = DOMAIN job[r]
        /\ \A s \in Runs : s # r => job'[s] = job[s]
        /\ job'[r].step \in {"error", "inspected"}
    BY <1>17 DEF Inv, Shapes, BuildInspects
  <2>3. Building'
    BY <2>1, <2>2 DEF Inv, Building, Verified
  <2> QED BY <2>1, <2>2, <2>3, JobMoves
<1>18. ASSUME NEW r \in Runs, BuildVerifies(r) PROVE Inv'
  <2> DEFINE h == Host(r)
  <2> DEFINE t == run[r].tree
  <2>1. /\ job[r].step = "inspected" /\ run[r].pc # "unused"
        /\ UNCHANGED <<releases, images, control, client, run, latest, overtaken, loose>>
    BY <1>18 DEF Inv, Staged, BuildVerifies
  <2>2. /\ DOMAIN job' = Runs /\ DOMAIN job'[r] = DOMAIN job[r]
        /\ \A s \in Runs : s # r => job'[s] = job[s]
        /\ \/ job'[r].step = "error"
           \/ /\ job'[r].step = "verified" /\ job'[r].commit = releases[h][t].commit
              /\ Verified(h, t)
    <3> DEFINE m == [step |-> "verified", commit |-> releases[h][t].commit]
    <3>1. DOMAIN job = Runs /\ DOMAIN job[r] = {"step", "commit"}
      BY <1>18 DEF Inv, Shapes
    <3>2. CASE JobEnds(r, "error")
      BY <3>1, <3>2
    <3>3. CASE Verified(h, t) /\ job' = [job EXCEPT ![r] = m]
      <4>1. DOMAIN m = {"step", "commit"} /\ m.step = "verified" /\ m.commit = releases[h][t].commit
        OBVIOUS
      <4> HIDE DEF m
      <4> QED BY <3>1, <3>3, <4>1
    <3> QED BY <1>18, <3>2, <3>3 DEF BuildVerifies
  <2> HIDE DEF h, t
  <2>3. Building'
    <3>1. ASSUME NEW s \in Runs, s # r, job'[s].step \in {"verified", "docker"}
          PROVE  LET g == Host(s)
                     u == run[s].tree IN
                 /\ Verified(g, u) /\ releases[g][u].commit = job'[s].commit
                 /\ job'[s].step = "docker" =>
                      images[g][u] = None \/ images[g][u].commit = job'[s].commit
      BY <2>2, <3>1 DEF Inv, Building
    <3>2. job'[r].step \in {"verified", "docker"} =>
            /\ Verified(h, t) /\ releases[h][t].commit = job'[r].commit /\ job'[r].step # "docker"
      BY <2>2
    <3> QED BY <2>1, <3>1, <3>2 DEF Building, Verified, h, t
  <2> QED BY <2>1, <2>2, <2>3, JobMoves
<1>19. ASSUME NEW r \in Runs, BuildLooks(r) PROVE Inv'
  <2> DEFINE h == Host(r)
  <2> DEFINE t == run[r].tree
  <2>1. /\ job[r].step = "verified" /\ run[r].pc # "unused" /\ t \in Trees
        /\ UNCHANGED <<releases, images, control, client, run, latest, overtaken, loose>>
    BY <1>19 DEF Inv, Shapes, Staged, BuildLooks
  <2>2. /\ DOMAIN job' = Runs /\ DOMAIN job'[r] = DOMAIN job[r]
        /\ \A s \in Runs : s # r => job'[s] = job[s]
        /\ job'[r].commit = job[r].commit
        /\ \/ job'[r].step = "error"
           \/ job'[r].step = "docker" /\ images[h][t] = None
           \/ job'[r].step = "validate" /\ images[h][t] # None
    <3>1. DOMAIN job = Runs /\ DOMAIN job[r] = {"step", "commit"}
      BY <1>19 DEF Inv, Shapes
    <3>2. ASSUME NEW step, JobEnds(r, step)
          PROVE  /\ DOMAIN job' = Runs /\ DOMAIN job'[r] = DOMAIN job[r]
                 /\ \A s \in Runs : s # r => job'[s] = job[s]
                 /\ job'[r].commit = job[r].commit /\ job'[r].step = step
      BY <3>1, <3>2
    <3> HIDE DEF JobEnds
    <3> QED BY <1>19, <3>2 DEF BuildLooks
  <2> HIDE DEF h, t
  <2>3. Building'
    <3>1. Verified(h, t) /\ releases[h][t].commit = job[r].commit
      BY <2>1 DEF Inv, Building, h, t
    <3>2. ASSUME NEW s \in Runs, s # r, job'[s].step \in {"verified", "docker"}
          PROVE  LET g == Host(s)
                     u == run[s].tree IN
                 /\ Verified(g, u) /\ releases[g][u].commit = job'[s].commit
                 /\ job'[s].step = "docker" =>
                      images[g][u] = None \/ images[g][u].commit = job'[s].commit
      BY <2>2, <3>2 DEF Inv, Building
    <3>3. job'[r].step \in {"verified", "docker"} =>
            /\ Verified(h, t) /\ releases[h][t].commit = job'[r].commit /\ images[h][t] = None
      BY <2>2, <3>1
    <3> QED BY <2>1, <3>2, <3>3 DEF Building, Verified, h, t
  <2>4. \/ job'[r].step \in {"error", "inspected", "verified", "docker"}
        \/ job'[r].step = "validate" /\ HasImage(r)
    BY <2>1, <2>2 DEF HasImage, h, t
  <2> QED BY <2>1, <2>2, <2>3, <2>4, JobMoves
<1>20. ASSUME NEW r \in Runs, DockerBuilds(r) PROVE Inv'
  <2> DEFINE h == Host(r)
  <2> DEFINE t == run[r].tree
  <2>1. /\ run[r].pc # "unused" /\ t \in Trees /\ h \in Hosts /\ job[r].step = "docker"
        /\ Verified(h, t) /\ releases[h][t].commit = job[r].commit
        /\ releases[h][t].commit \in Commits /\ releases[h][t].sound \in BOOLEAN
    BY <1>20 DEF Inv, Shapes, Staged, Building, DockerBuilds, Verified, Manifest
  <2>2. /\ DOMAIN job' = Runs /\ DOMAIN images' = Hosts
        /\ \A g \in Hosts : DOMAIN images'[g] = Trees
        /\ \A s \in Runs : s # r => job'[s] = job[s]
        /\ DOMAIN job'[r] = {"step", "commit"}
    BY <1>20 DEF Inv, Shapes, DockerBuilds
  <2>3. \/ job'[r].step = "error" /\ images' = images
        \/ /\ job'[r].step = "validate"
           /\ images'[h][t] = [commit |-> job[r].commit, sound |-> releases[h][t].sound]
           /\ \A g \in Hosts, u \in Trees : (g = h /\ u = t) \/ images'[g][u] = images[g][u]
    BY <1>20, <2>1, SMTT(30) DEF Inv, Shapes, DockerBuilds
  <2>4. \/ images'[h][t] = images[h][t]
        \/ /\ images'[h][t] # None
           /\ images'[h][t].commit = job[r].commit /\ images'[h][t].sound
    <3>1. CASE images' = images
      BY <3>1
    <3>2. CASE images'[h][t] = [commit |-> job[r].commit, sound |-> releases[h][t].sound]
      <4>1. images'[h][t] \in [commit : Commits, sound : BOOLEAN]
        BY <3>2, <2>1, Records
      <4>2. images'[h][t] # None
        BY <4>1
      <4>3. images'[h][t].commit = job[r].commit /\ images'[h][t].sound = releases[h][t].sound
        BY <3>2
      <4>4. releases[h][t].sound
        BY <2>1 DEF Verified
      <4>5. images'[h][t].sound
        BY <4>3, <4>4
      <4> QED BY <4>2, <4>3, <4>5
    <3> QED BY <2>3, <3>1, <3>2
  <2>5. UNCHANGED <<releases, control, client, run, latest, overtaken, loose>>
    BY <1>20 DEF DockerBuilds
  <2> HIDE DEF h, t
  <2>6. Shapes'
    BY <2>1, <2>2, <2>3, <2>4, <2>5 DEF Inv, Shapes
  <2>7. Staged'
    BY <2>1, <2>2, <2>3, <2>4, <2>5 DEF Inv, Staged
  <2>8. Building'
    <3> SUFFICES ASSUME NEW s \in Runs, job'[s].step \in {"verified", "docker"}
                 PROVE  LET g == Host(s)
                            u == run[s].tree IN
                        /\ Verified(g, u) /\ releases[g][u].commit = job'[s].commit
                        /\ job'[s].step = "docker" =>
                             images'[g][u] = None \/ images'[g][u].commit = job'[s].commit
      BY <2>5 DEF Building, Verified
    <3>1. s # r /\ job'[s] = job[s]
      BY <2>2, <2>3
    <3>2. Host(s) \in Hosts /\ run[s].tree \in Trees
      BY <3>1 DEF Inv, Shapes
    <3>3. /\ Verified(Host(s), run[s].tree) /\ releases[Host(s)][run[s].tree].commit = job[s].commit
          /\ job[s].step = "docker" =>
               \/ images[Host(s)][run[s].tree] = None
               \/ images[Host(s)][run[s].tree].commit = job[s].commit
      BY <3>1 DEF Inv, Building
    <3>4. CASE Host(s) = h /\ run[s].tree = t
      BY <3>1, <3>3, <3>4, <2>1, <2>2, <2>3, <2>4, <2>5
    <3>5. CASE ~(Host(s) = h /\ run[s].tree = t)
      BY <3>1, <3>2, <3>3, <3>5, <2>1, <2>2, <2>3, <2>4, <2>5
    <3> QED BY <3>4, <3>5
  <2>9. Built'
    <3>1. \A g \in Hosts, u \in Trees :
             images'[g][u] = images[g][u] \/ (images'[g][u] # None /\ images'[g][u].sound)
      BY <2>1, <2>2, <2>3, <2>4, <2>5
    <3>2. HasImage(r)' \/ job'[r].step = "error"
      BY <2>1, <2>2, <2>3, <2>4, <2>5 DEF HasImage, h, t
    <3>3. ASSUME NEW s \in Runs, HasImage(s), run[s].pc # "unused" PROVE HasImage(s)'
      BY <3>1, <3>3, <2>5 DEF HasImage, Inv, Shapes
    <3>4. \A w \in Workstations :
            /\ latest[w].status = "paired" =>
                 latest[w].tree \in Trees /\ images'[NUC][latest[w].tree] # None
            /\ latest[w].status = "local" =>
                 latest[w].tree \in Trees /\ images'[w][latest[w].tree] # None
      BY <3>1 DEF Inv, Built
    <3>5. \A s \in Runs :
            \/ job'[s].step = "validate"
            \/ run'[s].pc = "building" /\ job'[s].step = "done"
            \/ run'[s].pc \in {"saving", "installing", "replacing", "verifying", "rollback"}
            \/ run'[s].pc = "reporting" /\ run'[s].ok /\ run'[s].action # "check"
            => HasImage(s)'
      <4> SUFFICES ASSUME NEW s \in Runs,
                       \/ job'[s].step = "validate"
                       \/ run[s].pc = "building" /\ job'[s].step = "done"
                       \/ run[s].pc \in {"saving", "installing", "replacing", "verifying", "rollback"}
                       \/ run[s].pc = "reporting" /\ run[s].ok /\ run[s].action # "check"
                   PROVE  HasImage(s)'
        BY <2>5
      <4>1. s # r \/ job'[r].step = "error" => HasImage(s)
        BY <2>1, <2>2, <2>3, <2>4, <2>5 DEF Inv, Built
      <4>2. run[s].pc # "unused"
        BY <2>1, <2>2 DEF Inv, Shapes
      <4> QED BY <3>2, <3>3, <4>1, <4>2
    <3>6. \A g \in Hosts, u \in Trees : images'[g][u] # None => images'[g][u].sound
      BY <3>1 DEF Inv, Built
    <3> QED BY <3>4, <3>5, <3>6, <2>5 DEF Built
  <2>10. Clients'
    BY <2>5, ClientsStay DEF Inv
  <2> QED BY <2>6, <2>7, <2>8, <2>9, <2>10, SMTT(30) DEF Inv
<1>21. ASSUME NEW r \in Runs, Validates(r) PROVE Inv'
  <2>1. Shapes'
    BY <1>21 DEF Inv, Shapes, Staged, Validates
  <2>2. Staged'
    BY <1>21, SMTT(30) DEF Inv, Shapes, Staged, Validates
  <2>3. Building'
    BY <1>21, SMTT(30) DEF Inv, Shapes, Staged, Building, Validates, Verified
  <2>4. Built'
    BY <1>21, SMTT(30) DEF Inv, Shapes, Staged, Built, Validates, HasImage
  <2>5. Clients'
    <3>1. UNCHANGED <<run, client, latest, overtaken, loose>>
      BY <1>21 DEF Validates
    <3> QED BY <3>1, ClientsStay DEF Inv
  <2> QED BY <2>1, <2>2, <2>3, <2>4, <2>5 DEF Inv
<1>22. ASSUME NEW h \in Hosts, Operator(h) PROVE Inv'
  <2>1. Shapes'
    BY <1>22 DEF Inv, Shapes, Staged, Operator
  <2>2. Staged'
    BY <1>22 DEF Inv, Shapes, Staged, Operator
  <2>3. Building'
    BY <1>22 DEF Inv, Shapes, Staged, Building, Operator, Verified
  <2>4. Built'
    BY <1>22 DEF Inv, Shapes, Staged, Built, Operator, HasImage
  <2>5. Clients'
    <3>1. UNCHANGED <<run, client, latest, overtaken, loose>>
      BY <1>22 DEF Operator
    <3> QED BY <3>1, ClientsStay DEF Inv
  <2> QED BY <2>1, <2>2, <2>3, <2>4, <2>5 DEF Inv
<1>23. ASSUME NEW h \in Hosts, NEW t \in Trees, Meddling(h, t) PROVE Inv'
  <2>1. Shapes'
    <3>1. Manifest(releases[h][t])
      BY <1>23 DEF Inv, Shapes, Meddling, Verified
    <3>2. /\ DOMAIN releases' = Hosts
          /\ \A g \in Hosts : DOMAIN releases'[g] = Trees
          /\ \A g \in Hosts, u \in Trees : (g = h /\ u = t) \/ releases'[g][u] = releases[g][u]
      BY <1>23 DEF Inv, Shapes, Meddling
    <3>3. \/ releases'[h][t] = None
          \/ releases'[h][t] = [releases[h][t] EXCEPT !.sound = FALSE]
      <4> DEFINE edited == [releases[h][t] EXCEPT !.sound = FALSE]
      <4>1. \/ releases' = [releases EXCEPT ![h] = [releases[h] EXCEPT ![t] = edited]]
            \/ releases' = [releases EXCEPT ![h] = [releases[h] EXCEPT ![t] = None]]
        BY <1>23, Zenon DEF Meddling
      <4>2. h \in DOMAIN releases /\ t \in DOMAIN releases[h]
        BY <1>23 DEF Inv, Shapes
      <4> HIDE DEF edited
      <4>3. releases'[h][t] = edited \/ releases'[h][t] = None
        BY <4>1, <4>2
      <4> QED BY <4>3 DEF edited
    <3>4. releases'[h][t] # None => Manifest(releases'[h][t])
      BY <3>1, <3>3 DEF Manifest
    <3>5. \A g \in Hosts, u \in Trees : releases'[g][u] # None => Manifest(releases'[g][u])
      <4> SUFFICES ASSUME NEW g \in Hosts, NEW u \in Trees, releases'[g][u] # None
                   PROVE  Manifest(releases'[g][u])
        OBVIOUS
      <4>1. CASE g = h /\ u = t
        BY <4>1, <3>4
      <4>2. CASE ~(g = h /\ u = t)
        <5>1. releases'[g][u] = releases[g][u]
          BY <4>2, <3>2
        <5> QED BY <5>1, Zenon DEF Inv, Shapes
      <4> QED BY <4>1, <4>2
    <3>6. UNCHANGED <<images, control, client, run, job, latest>>
      BY <1>23 DEF Meddling
    <3> QED BY <3>2, <3>5, <3>6 DEF Inv, Shapes
  <2>2. Staged'
    BY <1>23, SMTT(30) DEF Inv, Shapes, Staged, Meddling, Verified
  <2>3. Building'
    BY <1>23 DEF Inv, Shapes, Staged, Building, Meddling, Verified
  <2>4. Built'
    BY <1>23 DEF Inv, Shapes, Staged, Built, Meddling, Verified, HasImage
  <2>5. Clients'
    <3>1. UNCHANGED <<run, client, latest, overtaken, loose>>
      BY <1>23 DEF Meddling
    <3> QED BY <3>1, ClientsStay DEF Inv
  <2> QED BY <2>1, <2>2, <2>3, <2>4, <2>5 DEF Inv
<1>24. CASE UNCHANGED vars
  <2>1. Clients'
    BY <1>24, ClientsStay DEF vars, Inv
  <2> QED BY <1>24, <2>1 DEF vars, Inv, Shapes, Staged, Building, Verified, Built, HasImage
<1> QED BY <1>1, <1>2, <1>3, <1>4, <1>5, <1>6, <1>7, <1>8, <1>9, <1>10, <1>11, <1>12, <1>13, <1>14, <1>15, <1>16, <1>17, <1>18, <1>19, <1>20, <1>21, <1>22, <1>23, <1>24 DEF Next

-----------------------------------------------------------------------------
(* It holds at first. *)
LEMMA InitInvariant == Init => Inv
<1> SUFFICES ASSUME Init PROVE Inv
  OBVIOUS
<1>1. \A r \in Runs : run[r] = Unused /\ job[r] = Idle
  BY DEF Init
<1>2. Shapes
  BY <1>1 DEF Init, Shapes, Unused, Idle, Hosts
<1>3. Staged /\ Building
  BY <1>1 DEF Staged, Building, Unused, Idle, Early
<1>4. Built
  BY <1>1 DEF Init, Built, Unused, Idle, NoReport
<1>5. Clients
  BY <1>1, NucSyncAssumption DEF Init, Clients, Knows, ClientIsAsReported, Unused, NoReport, Early
<1> QED BY <1>2, <1>3, <1>4, <1>5 DEF Inv

(* It holds always. *)
LEMMA Invariant == Spec => []Inv
BY InitInvariant, NextInvariant, PTL DEF Spec

(* For any workstations, trees and invocations, however they overlap: what   *)
(* an interpreter imports is what the last report says, unless it was left   *)
(* loose or is just being replaced.                                          *)
THEOREM ClientCorrect == Spec => []ClientIsAsReported
<1>1. Inv => ClientIsAsReported
  BY DEF Inv, Clients
<1> QED BY <1>1, Invariant, PTL

(* For any workstations, trees and invocations: an image holds the tree it   *)
(* is named after, and what is reported as prepared has its image.           *)
THEOREM ImagesCorrect == Spec => []ImagesAreTheirTree
<1>1. Inv => ImagesAreTheirTree
  BY DEF Inv, Built, ImagesAreTheirTree
<1> QED BY <1>1, Invariant, PTL

(* Releases keep their manifests and images their labels.                    *)
THEOREM ReleasesKept == Spec => ReleasesStand
<1> DEFINE Stand == \A h \in Hosts, t \in Trees :
                      /\ releases[h][t] # None /\ releases'[h][t] # None =>
                            releases'[h][t].commit = releases[h][t].commit
                      /\ images[h][t] # None =>
                            images'[h][t] # None /\ images'[h][t].commit = images[h][t].commit
<1>1. Inv /\ [Next]_vars => [Stand]_vars
  <2> SUFFICES ASSUME Inv, Next PROVE Stand \/ UNCHANGED <<releases, images>>
    BY DEF vars
  <2>1. ASSUME NEW r \in Runs, NEW t \in Trees, NEW c \in Commits, Snapshot(r, t, c) PROVE Stand
    <3>1. \A h \in Hosts, u \in Trees : releases[h][u] # None => releases'[h][u] = releases[h][u]
      BY <2>1 DEF Inv, Shapes, Snapshot
    <3> QED BY <2>1, <3>1 DEF Snapshot
  <2>2. ASSUME NEW r \in Runs, Receives(r) PROVE Stand
    <3>1. \A h \in Hosts, u \in Trees : releases[h][u] # None => releases'[h][u] = releases[h][u]
      BY <2>2, NucSyncAssumption DEF Inv, Shapes, Receives, Hosts
    <3> QED BY <2>2, <3>1 DEF Receives
  <2>3. ASSUME NEW r \in Runs, DockerBuilds(r) PROVE Stand
    <3> DEFINE g == Host(r)
    <3> DEFINE u == run[r].tree
    <3>1. /\ g \in Hosts /\ u \in Trees
          /\ images[g][u] = None \/ images[g][u].commit = job[r].commit
          /\ job[r].commit \in Commits /\ releases[g][u].sound \in BOOLEAN
      BY <2>3 DEF Inv, Shapes, Manifest, Building, Verified, DockerBuilds, Host, Hosts, Actions
    <3>2. \/ images' = images
          \/ /\ images'[g][u] = [commit |-> job[r].commit, sound |-> releases[g][u].sound]
             /\ \A h \in Hosts, t \in Trees : (h = g /\ t = u) \/ images'[h][t] = images[h][t]
      BY <2>3, <3>1 DEF Inv, Shapes, DockerBuilds
    <3>3. UNCHANGED releases
      BY <2>3 DEF DockerBuilds
    <3>4. [commit |-> job[r].commit, sound |-> releases[g][u].sound] # None
      <4>1. [commit |-> job[r].commit, sound |-> releases[g][u].sound]
              \in [commit : Commits, sound : BOOLEAN]
        BY <3>1, Records
      <4> QED BY <4>1, NucSyncAssumption
    <3>5. [commit |-> job[r].commit, sound |-> releases[g][u].sound].commit = job[r].commit
      OBVIOUS
    <3> HIDE DEF g, u
    <3> QED BY <3>1, <3>2, <3>3, <3>4, <3>5, SMTT(30)
  <2>4. ASSUME NEW h \in Hosts, NEW t \in Trees, Meddling(h, t) PROVE Stand
    <3>1. \A g \in Hosts, u \in Trees :
             releases'[g][u] # None => releases'[g][u].commit = releases[g][u].commit
      BY <2>4, SMTT(30) DEF Inv, Shapes, Manifest, Meddling, Verified
    <3> QED BY <2>4, <3>1 DEF Meddling
  <2>5. ASSUME NEW r \in Runs,
               \/ \E w \in Workstations, a \in Actions : Begin(r, w, a) \/ Refused(r, w, a)
               \/ Inspects(r) \/ SnapshotFails(r) \/ Receipt(r)
               \/ ConnectionLost(r) \/ SavesImage(r)
               \/ Looks(r) \/ Keeps(r) \/ Installs(r) \/ VerifiesClient(r) \/ RollsBack(r) \/ Reports(r) \/ Interrupted(r)
               \/ UploadChecks(r) \/ Validates(r)
               \/ BuildInspects(r) \/ BuildVerifies(r) \/ BuildLooks(r)
        PROVE  UNCHANGED <<releases, images>>
    BY <2>5 DEF Begin, Refused, Inspects, SnapshotFails, Receipt, ConnectionLost, SavesImage,
       Looks, Keeps, Installs, VerifiesClient, RollsBack, Reports, Interrupted, UploadChecks,
       Validates, BuildInspects, BuildVerifies, BuildLooks
  <2>6. ASSUME NEW h \in Hosts, Operator(h) PROVE UNCHANGED <<releases, images>>
    BY <2>6 DEF Operator
  <2> QED BY <2>1, <2>2, <2>3, <2>4, <2>5, <2>6 DEF Next
<1> QED BY <1>1, Invariant, PTL DEF Spec, ReleasesStand
==============================================================================
