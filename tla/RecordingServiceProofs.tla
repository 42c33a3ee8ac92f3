------------------------ MODULE RecordingServiceProofs ------------------------
(***************************************************************************)
(* Proofs about RecordingService, for any clients, IDs, paths and calls:   *)
(* what a client was answered stays true.  The argument: an answer that is *)
(* on its way (Told, Endings) already has all that the client may rely on, *)
(* and what makes it true cannot be undone, because a recording that is    *)
(* not current any more never is again, its ID being used.                 *)
(***************************************************************************)
EXTENDS RecordingService, TLAPS

Pending(c, action) == reply[c] # Nothing /\ waiting[c].action = action

(* What is written in requests, and the domains of what is kept per client.  *)
Shapes ==
  /\ DOMAIN waiting = Client /\ DOMAIN reply = Client
  /\ DOMAIN myId = Client /\ DOMAIN previous = Client /\ DOMAIN mine = Client
  /\ \A r \in wire \cup {inHand} : r # Nothing =>
       /\ r.action \in {"start", "stop"} => r.id \in Id
       /\ r.action = "start" => r.path \in Path
       /\ r.action = "stop" => r.id \in asked
  /\ calls \in Nat
  /\ current \in Id \cup {NoId}
  /\ current \in Id => current \in used
  /\ \A c \in Client : reply[c] # Nothing => waiting[c] # Nothing

(* What the manager is doing is what the request in hand asks for.           *)
InService ==
  /\ phase \in {"idle", "starting", "active", "stopping"}
  /\ phase = "starting" => Asks("start") /\ current = inHand.id /\ path = inHand.path
  /\ phase = "stopping" => inHand = Nothing \/ (Asks("stop") /\ current = inHand.id)
  /\ phase = "stopping" /\ inHand = Nothing => ~serving
  /\ ~serving => inHand = Nothing

(* r was confirmed: what the client may rely on.                             *)
Runs(r) ==
  /\ r.id \in used
  /\ r.id \in asked \/ ~serving \/ (current = r.id /\ phase = "active")
  /\ current = r.id => path = r.path

Asked(c) == [id |-> waiting[c].id, path |-> waiting[c].path]

Told == confirmed \cup {Asked(c) : c \in {d \in Client : Pending(d, "start") /\ Confirms(d)}}

Confirmations ==
  /\ \A r \in Told : Runs(r)
  /\ \A r, s \in Told : r.id = s.id => r.path = s.path

Over(id) == id \in used /\ ~(current = id /\ phase \in {"starting", "active"})

Endings ==
  /\ \A id \in ended : Over(id)
  /\ \A c \in Client : Pending(c, "stop") /\ reply[c].accepted => Over(waiting[c].id)

(* current is an ID of c's no more, for good; or i is that ID.               *)
Mine(c, i) == c \in unsure \/ mine[c] = NoId \/ current # mine[c] \/ i = mine[c]

Defaults ==
  \A c \in Client :
    /\ mine[c] = NoId \/ mine[c] \in used
    /\ waiting[c] = Nothing \/ waiting[c].action # "start" => Mine(c, myId[c])
    /\ waiting[c] # Nothing /\ waiting[c].action = "start" =>
         myId[c] = waiting[c].id /\ Mine(c, previous[c])
    /\ Pending(c, "start") /\ ~Confirms(c) /\ (reply[c].accepted \/ reply[c].status.id = waiting[c].id)
         => Mine(c, waiting[c].id)

Inv == Shapes /\ InService /\ Confirmations /\ Endings /\ Defaults

(* Every step keeps it: what the conjuncts relate, a step seldom changes;    *)
(* where a start is answered, the new confirmation joins those there were.   *)
LEMMA NextInvariant == Inv /\ [Next]_vars => Inv'
<1> SUFFICES ASSUME Inv, [Next]_vars PROVE Inv'
  OBVIOUS
<1> USE NoneAssumption
<1> USE DEF manager, session, service, clients, history
<1> USE DEF Inv, Shapes, InService, Confirmations, Told, Asked, Runs, Endings, Over, Defaults, Mine,
   Pending, Confirms, Asks
<1>1. ASSUME NEW c \in Client, NEW id \in Id, NEW p \in Path, CallStart(c, id, p) PROVE Inv'
  <2> HIDE DEF Inv, Shapes, InService, Confirmations, Told, Asked, Runs, Endings, Over, Defaults,
     Mine, Pending, Confirms, Asks
  <2>1. Shapes' /\ InService' /\ Confirmations' /\ Endings'
    BY <1>1 DEF Inv, CallStart, Call, Shapes, Asks, InService, Confirmations, Told, Asked, Runs,
       Pending, Confirms, Endings, Over
  <2>2. Defaults'
    <3>1. ASSUME NEW d \in Client, d # c PROVE waiting'[d] = waiting[d] /\ myId'[d] = myId[d] /\ previous'[d] = previous[d]
      BY <1>1, <3>1 DEF Inv, Shapes, CallStart, Call
    <3>2. waiting'[c].action = "start" /\ waiting'[c].id = id /\ myId'[c] = id /\ previous'[c] = myId[c]
      BY <1>1 DEF Inv, Shapes, CallStart, Call
    <3>3. reply[c] = Nothing /\ waiting[c] = Nothing
      BY <1>1 DEF Inv, Shapes, CallStart, Call
    <3>4. UNCHANGED <<reply, mine, used, current, unsure>>
      BY <1>1 DEF CallStart
    <3>5. waiting'[c] # Nothing
      <4> DEFINE r == [n |-> calls + 1, client |-> c, action |-> "start", id |-> id, path |-> p]
      <4>1. r \in Request
        BY <1>1, MaxCallsAssumption DEF Inv, Shapes, CallStart, Call, Request
      <4>2. waiting'[c] = r
        BY <1>1 DEF Inv, Shapes, CallStart, Call
      <4> QED BY <4>1, <4>2, NothingAssumption
    <3> QED BY <3>1, <3>2, <3>3, <3>4, <3>5 DEF Inv, Defaults, Mine, Pending, Confirms
  <2> QED BY <2>1, <2>2 DEF Inv
<1>2. ASSUME NEW c \in Client, NEW id \in Id, CallStop(c, id) PROVE Inv'
  BY <1>2 DEF CallStop, Call
<1>3. ASSUME NEW c \in Client, CallStatus(c) PROVE Inv'
  BY <1>3 DEF CallStatus, Call
<1>4. ASSUME NEW c \in Client, TimesOut(c) PROVE Inv'
  BY <1>4 DEF TimesOut
<1>5. ASSUME NEW c \in Client, StartReturns(c) PROVE Inv'
  <2> HIDE DEF Inv, Shapes, InService, Confirmations, Told, Asked, Runs, Endings, Over, Defaults,
     Mine, Pending, Confirms, Asks
  <2>1. Shapes' /\ InService' /\ Confirmations' /\ Endings'
    BY <1>5 DEF Inv, StartReturns, Hangs, Shapes, Asks, InService, Confirmations, Told, Asked, Runs,
       Pending, Confirms, Endings, Over
  <2>2. Defaults'
    <3>1. ASSUME NEW d \in Client, d # c
          PROVE  waiting'[d] = waiting[d] /\ reply'[d] = reply[d] /\ mine'[d] = mine[d] /\ (d \in unsure' <=> d \in unsure)
      BY <1>5, <3>1 DEF Inv, Shapes, StartReturns, Hangs
    <3>2. waiting'[c] = Nothing /\ reply'[c] = Nothing /\ mine'[c] = waiting[c].id /\ myId[c] = waiting[c].id
      BY <1>5 DEF Inv, Shapes, Defaults, StartReturns, Hangs
    <3>3. waiting[c].id \in used
      BY <1>5 DEF Inv, Confirmations, Told, Asked, Runs, Pending, StartReturns
    <3>4. UNCHANGED <<myId, previous, used, current>>
      BY <1>5 DEF StartReturns
    <3> QED BY <3>1, <3>2, <3>3, <3>4 DEF Inv, Defaults, Mine, Pending, Confirms
  <2> QED BY <2>1, <2>2 DEF Inv
<1>6. ASSUME NEW c \in Client, StartRaises(c) PROVE Inv'
  BY <1>6 DEF StartRaises, Hangs
<1>7. ASSUME NEW c \in Client, StopReturns(c) PROVE Inv'
  BY <1>7 DEF StopReturns, Hangs
<1>8. ASSUME NEW c \in Client, StatusReturns(c) PROVE Inv'
  BY <1>8 DEF StatusReturns, Hangs
<1>9. ASSUME NEW r \in wire, Takes(r) PROVE Inv'
  BY <1>9 DEF Takes
<1>10. ASSUME AnswersStatus PROVE Inv'
  BY <1>10 DEF AnswersStatus, Answer, CurrentStatus
<1>11. ASSUME StartRepeats PROVE Inv'
  <2> HIDE DEF Inv, Shapes, InService, Confirmations, Told, Asked, Runs, Endings, Over, Defaults,
     Mine, Pending, Confirms, Asks
  <2>1. Shapes' /\ InService' /\ Endings' /\ Defaults'
    BY <1>11 DEF Inv, StartRepeats, Answer, CurrentStatus, Repeats, Shapes, Asks, InService,
       Endings, Over, Pending, Defaults, Mine, Confirms, Confirmations, Told, Runs, Asked
  <2>2. Confirmations'
    <3>1. CASE phase = "active" /\ ok
      <4> DEFINE it == [id |-> inHand.id, path |-> inHand.path]
      <4>1. Told' \subseteq Told \cup {it}
        <5>1. ASSUME NEW c \in Client, Pending(c, "start")', Confirms(c)'
              PROVE  Asked(c)' = it \/ (Pending(c, "start") /\ Confirms(c) /\ Asked(c)' = Asked(c))
          BY <1>11, <5>1 DEF Inv, Shapes, StartRepeats, Answer, CurrentStatus, Pending, Confirms,
             Asked, Asks
        <5>2. confirmed' = confirmed
          BY <1>11 DEF StartRepeats, Answer
        <5> QED BY <5>1, <5>2 DEF Told
      <4>2. /\ UNCHANGED <<path, serving, asked, used, current, phase>>
            /\ current = inHand.id /\ path = inHand.path /\ current \in used
        BY <1>11 DEF StartRepeats, Answer, Repeats, Inv, InService, Shapes, Asks
      <4>3. it.id = inHand.id /\ it.path = inHand.path
        OBVIOUS
      <4> HIDE DEF it
      <4>4. \A r \in Told \cup {it} : Runs(r)'
        BY <3>1, <4>2, <4>3 DEF Inv, Confirmations, Runs
      <4>5. \A r, s \in Told \cup {it} : r.id = s.id => r.path = s.path
        BY <4>2, <4>3 DEF Inv, Confirmations, Runs
      <4> QED BY <4>1, <4>4, <4>5 DEF Confirmations
    <3>2. CASE ~(phase = "active" /\ ok)
      <4>1. Told' \subseteq Told
        <5> SUFFICES ASSUME NEW c \in Client, Pending(c, "start")', Confirms(c)'
                     PROVE  Pending(c, "start") /\ Confirms(c) /\ Asked(c)' = Asked(c)
          BY <1>11 DEF StartRepeats, Answer, Told
        <5> QED BY <1>11, <3>2 DEF Inv, Shapes, StartRepeats, Answer, CurrentStatus,
                   Pending, Confirms, Asked, Asks
      <4>2. UNCHANGED <<path, serving, asked, used, current, phase>>
        BY <1>11 DEF StartRepeats, Answer
      <4> QED BY <4>1, <4>2 DEF Inv, Confirmations, Runs
    <3> QED BY <3>1, <3>2
  <2> QED BY <2>1, <2>2 DEF Inv
<1>12. ASSUME StartRefused PROVE Inv'
  BY <1>12 DEF StartRefused, Answer, CurrentStatus, Repeats, Acceptable
<1>13. ASSUME StartBegins PROVE Inv'
  BY <1>13 DEF StartBegins, Repeats, Acceptable
<1>14. ASSUME StartThrows PROVE Inv'
  BY <1>14 DEF StartThrows, Answer, CurrentStatus, Repeats, Acceptable
<1>15. ASSUME StartSucceeds PROVE Inv'
  <2> HIDE DEF Inv, Shapes, InService, Confirmations, Told, Asked, Runs, Endings, Over, Defaults,
     Mine, Pending, Confirms, Asks
  <2>1. Shapes' /\ InService' /\ Endings' /\ Defaults'
    BY <1>15, ZenonT(30) DEF Inv, StartSucceeds, Answer, CurrentStatus, Session!Started, Shapes, Asks,
       InService, Endings, Over, Pending, Defaults, Mine, Confirms, Confirmations, Told, Runs, Asked
  <2>2. Confirmations'
    <3> DEFINE it == [id |-> inHand.id, path |-> inHand.path]
    <3>1. Told' \subseteq Told \cup {it}
      <4>1. ASSUME NEW c \in Client, Pending(c, "start")', Confirms(c)'
            PROVE  Asked(c)' = it \/ (Pending(c, "start") /\ Confirms(c) /\ Asked(c)' = Asked(c))
        BY <1>15, <4>1 DEF Inv, Shapes, StartSucceeds, Session!Started, Answer, CurrentStatus,
           Pending, Confirms, Asked, Asks
      <4>2. confirmed' = confirmed
        BY <1>15 DEF StartSucceeds, Answer
      <4> QED BY <4>1, <4>2 DEF Told
    <3>2. /\ UNCHANGED <<path, serving, asked, used, current>> /\ phase = "starting" /\ phase' = "active"
          /\ current = inHand.id /\ path = inHand.path /\ current \in used
      BY <1>15 DEF StartSucceeds, Answer, Session!Started, Inv, InService, Shapes, Asks
    <3>3. it.id = inHand.id /\ it.path = inHand.path
      OBVIOUS
    <3> HIDE DEF it
    <3>4. \A r \in Told \cup {it} : Runs(r)'
      BY <3>2, <3>3 DEF Inv, Confirmations, Runs
    <3>5. \A r, s \in Told \cup {it} : r.id = s.id => r.path = s.path
      BY <3>2, <3>3 DEF Inv, Confirmations, Runs
    <3> QED BY <3>1, <3>4, <3>5 DEF Confirmations
  <2> QED BY <2>1, <2>2 DEF Inv
<1>16. ASSUME StartFails PROVE Inv'
  <2> HIDE DEF Inv, Shapes, InService, Confirmations, Told, Asked, Runs, Endings, Over, Defaults,
     Mine, Pending, Confirms, Asks
  <2>1. Shapes' /\ InService' /\ Endings' /\ Defaults'
    BY <1>16 DEF Inv, StartFails, Answer, CurrentStatus, Session!NotStarted, Shapes, Asks,
       InService, Endings, Over, Pending, Defaults, Mine, Confirms, Confirmations, Told, Runs, Asked
  <2>2. Confirmations'
    <3>1. Told' \subseteq Told
      <4> SUFFICES ASSUME NEW c \in Client, Pending(c, "start")', Confirms(c)'
                   PROVE  Pending(c, "start") /\ Confirms(c) /\ Asked(c)' = Asked(c)
        BY <1>16 DEF StartFails, Answer, Told
      <4> QED BY <1>16 DEF Inv, Shapes, StartFails, Answer, CurrentStatus, Session!NotStarted,
                 Pending, Confirms, Asked, Asks
    <3>2. UNCHANGED <<path, serving, asked, used, current>> /\ phase = "starting"
      BY <1>16 DEF StartFails, Answer, Session!NotStarted
    <3> QED BY <3>1, <3>2 DEF Inv, Confirmations, Runs
  <2> QED BY <2>1, <2>2 DEF Inv
<1>17. ASSUME StopRefused PROVE Inv'
  BY <1>17 DEF StopRefused, Answer, CurrentStatus, StopsCurrent
<1>18. ASSUME StopBegins PROVE Inv'
  BY <1>18 DEF StopBegins, StopsCurrent, Session!Stopping
<1>19. ASSUME StopEnds PROVE Inv'
  BY <1>19 DEF StopEnds, Answer, CurrentStatus, Session!Stopped
<1>20. ASSUME WriterFails PROVE Inv'
  BY <1>20 DEF WriterFails
<1>21. ASSUME Quits PROVE Inv'
  BY <1>21 DEF Quits
<1>22. ASSUME ShutdownStops PROVE Inv'
  <2> HIDE DEF Inv, Shapes, InService, Confirmations, Told, Asked, Runs, Endings, Over, Defaults,
     Mine, Pending, Confirms, Asks
  <2>1. Shapes' /\ InService' /\ Endings' /\ Defaults'
    BY <1>22, ZenonT(30) DEF Inv, ShutdownStops, Session!Stopping, Session!Stopped, Shapes, Asks, InService,
       Endings, Over, Pending, Defaults, Mine, Confirms, Confirmations, Told, Runs, Asked
  <2>2. Confirmations'
    <3>1. Told' = Told
      BY <1>22 DEF ShutdownStops, Told, Asked, Pending, Confirms
    <3>2. ~serving /\ current' = current /\ UNCHANGED <<path, serving, asked, used>>
      BY <1>22 DEF ShutdownStops, Session!Stopping, Session!Stopped
    <3> QED BY <3>1, <3>2 DEF Inv, Confirmations, Runs
  <2> QED BY <2>1, <2>2 DEF Inv
<1>23. CASE UNCHANGED vars
  BY <1>23 DEF vars
<1> QED BY <1>1, <1>2, <1>3, <1>4, <1>5, <1>6, <1>7, <1>8, <1>9, <1>10, <1>11, <1>12, <1>13, <1>14,
   <1>15, <1>16, <1>17, <1>18, <1>19, <1>20, <1>21, <1>22, <1>23 DEF Next, ClientCalls,
   ClientReturns, Serves


(* It holds at the start, and so always. *)
LEMMA InitInvariant == Init => Inv
BY NoneAssumption DEF Init, Session!Init, Inv, Shapes, InService, Confirmations, Told, Pending,
   Endings, Defaults, Mine

LEMMA Invariant == Spec => []Inv
BY InitInvariant, NextInvariant, PTL DEF Spec

(* The types: the requests on their way and in hand, what the manager and    *)
(* the clients hold, and the replies.                                        *)
Requests ==
  /\ wire \subseteq Request
  /\ inHand \in Request \cup {Nothing}
  /\ calls \in 0 .. MaxCalls
  /\ waiting \in [Client -> Request \cup {Nothing}]
  /\ \A c \in Client : waiting[c] # Nothing /\ waiting[c].action = "start" => waiting[c].path \in Path

Holdings ==
  /\ used \subseteq Id
  /\ path \in Path \cup {NoPath}
  /\ myId \in [Client -> Id \cup {NoId}]
  /\ previous \in [Client -> Id \cup {NoId}]
  /\ mine \in [Client -> Id \cup {NoId}]
  /\ confirmed \subseteq [id : Id, path : Path]
  /\ unsure \subseteq Client
  /\ asked \subseteq Id /\ ended \subseteq Id

Flags == failed \in BOOLEAN /\ ok \in BOOLEAN /\ serving \in BOOLEAN

Replies == reply \in [Client -> Reply \cup {Nothing}]

LEMMA InitTypes == Init => Requests /\ Holdings /\ Flags /\ Replies
<1> SUFFICES ASSUME Init PROVE Requests /\ Holdings /\ Flags /\ Replies
  OBVIOUS
<1>1. Requests
  BY MaxCallsAssumption DEF Init, Requests
<1>2. Holdings
  BY DEF Init, Session!Init, Holdings
<1>3. Flags
  BY Zenon DEF Init, Session!Init, Flags
<1>4. Replies
  BY DEF Init, Replies
<1> QED BY <1>1, <1>2, <1>3, <1>4

LEMMA NextRequests == Requests /\ [Next]_vars => Requests'
<1> SUFFICES ASSUME Requests, [Next]_vars PROVE Requests'
  OBVIOUS
<1> USE DEF manager, session, service, clients, history
<1>1. ASSUME UNCHANGED <<wire, inHand, calls, waiting>> PROVE Requests'
  BY <1>1 DEF Requests
<1>2. ASSUME NEW c \in Client, NEW action \in {"start", "stop", "status"}, NEW id \in Id \cup {NoId},
             NEW p \in Path \cup {NoPath}, Call(c, action, id, p), action = "start" => p \in Path, UNCHANGED inHand
      PROVE  Requests'
  <2> DEFINE r == [n |-> calls + 1, client |-> c, action |-> action, id |-> id, path |-> p]
  <2>1. calls' = calls + 1 /\ calls + 1 \in 1 .. MaxCalls
    BY <1>2, MaxCallsAssumption DEF Call, Requests
  <2>2. r \in Request /\ r.action = action /\ r.path = p
    BY <2>1 DEF Request
  <2>3. waiting' = [waiting EXCEPT ![c] = r] /\ wire' = wire \cup {r}
    BY <1>2 DEF Call
  <2> HIDE DEF r
  <2> QED BY <1>2, <2>1, <2>2, <2>3 DEF Requests
<1>3. ASSUME NEW c \in Client, Hangs(c) \/ TimesOut(c), UNCHANGED <<inHand, calls>>, wire' \subseteq wire PROVE Requests'
  <2>1. waiting' = [waiting EXCEPT ![c] = Nothing]
    BY <1>3 DEF Hangs, TimesOut
  <2> QED BY <1>3, <2>1 DEF Requests
<1>4. CASE ClientCalls
  <2>1. ASSUME NEW c \in Client, NEW id \in Id, NEW p \in Path, CallStart(c, id, p) PROVE Requests'
    BY <1>2, <2>1 DEF CallStart
  <2>2. ASSUME NEW c \in Client, NEW id \in Id, CallStop(c, id) PROVE Requests'
    BY <1>2, <2>2 DEF CallStop
  <2>3. ASSUME NEW c \in Client, CallStatus(c) PROVE Requests'
    BY <1>2, <2>3 DEF CallStatus
  <2> QED BY <1>4, <2>1, <2>2, <2>3 DEF ClientCalls
<1>5. CASE ClientReturns
  <2>1. ASSUME NEW c \in Client, TimesOut(c) PROVE Requests'
    BY <1>3, <2>1 DEF TimesOut
  <2>2. ASSUME NEW c \in Client, StartReturns(c) \/ StartRaises(c) \/ StopReturns(c) \/ StatusReturns(c) PROVE Requests'
    BY <1>3, <2>2 DEF StartReturns, StartRaises, StopReturns, StatusReturns
  <2> QED BY <1>5, <2>1, <2>2 DEF ClientReturns
<1>6. ASSUME NEW r \in wire, Takes(r) PROVE Requests'
  BY <1>6 DEF Takes, Requests
<1>7. ASSUME NEW accepted, Answer(accepted) PROVE Requests'
  BY <1>7 DEF Answer, Requests
<1>8. CASE StartBegins \/ StopBegins \/ WriterFails \/ Quits \/ ShutdownStops
  BY <1>1, <1>8 DEF StartBegins, StopBegins, WriterFails, Quits, ShutdownStops
<1>9. CASE UNCHANGED vars
  BY <1>1, <1>9 DEF vars
<1> QED BY <1>4, <1>5, <1>6, <1>7, <1>8, <1>9
       DEF Next, Serves, AnswersStatus, StartRepeats, StartRefused, StartThrows, StartSucceeds, StartFails,
           StopRefused, StopEnds

(* A reply to a stop that was accepted names an ID that was used, and one    *)
(* that confirms a start the path that was asked for.                        *)
LEMMA NextHoldings == Inv /\ Requests /\ Holdings /\ [Next]_vars => Holdings'
<1> SUFFICES ASSUME Inv, Requests, Holdings, [Next]_vars PROVE Holdings'
  OBVIOUS
<1> USE DEF manager, session, service, clients, history
<1>1. ASSUME UNCHANGED <<used, path, myId, previous, mine, confirmed, unsure, asked, ended>> PROVE Holdings'
  BY <1>1 DEF Holdings
<1>2. ASSUME NEW c \in Client, NEW id \in Id, NEW p \in Path, CallStart(c, id, p) PROVE Holdings'
  BY <1>2 DEF CallStart, Holdings
<1>3. ASSUME NEW c \in Client, NEW id \in Id, CallStop(c, id) PROVE Holdings'
  BY <1>3 DEF CallStop, Holdings
<1>4. ASSUME NEW c \in Client, TimesOut(c) PROVE Holdings'
  BY <1>4 DEF TimesOut, Holdings
<1>5. ASSUME NEW c \in Client, StartReturns(c) PROVE Holdings'
  <2>1. Pending(c, "start") /\ Confirms(c)
    BY <1>5 DEF StartReturns, Pending
  <2>2. Asked(c) \in Told /\ Asked(c).id = waiting[c].id
    BY <2>1 DEF Told, Asked
  <2>3. waiting[c].id \in Id
    BY <2>2 DEF Inv, Confirmations, Runs, Holdings
  <2>4. waiting[c].path \in Path
    BY <2>1 DEF Inv, Shapes, Pending, Requests
  <2> QED BY <1>5, <2>3, <2>4 DEF StartReturns, Holdings
<1>6. ASSUME NEW c \in Client, StartRaises(c) PROVE Holdings'
  BY <1>6 DEF StartRaises, Holdings
<1>7. ASSUME NEW c \in Client, StopReturns(c) PROVE Holdings'
  <2>1. ended' = ended \/ (ended' = ended \cup {waiting[c].id} /\ waiting[c].id \in used)
    BY <1>7 DEF StopReturns, Inv, Endings, Pending, Over
  <2> QED BY <1>7, <2>1 DEF StopReturns, Holdings
<1>8. CASE \/ \E c \in Client : CallStatus(c) \/ StatusReturns(c)
           \/ \E r \in wire : Takes(r)
           \/ AnswersStatus \/ StartRepeats \/ StartRefused \/ StopRefused \/ WriterFails \/ Quits
  BY <1>1, <1>8 DEF CallStatus, StatusReturns, Takes, AnswersStatus, Answer, StartRepeats, StartRefused, StopRefused,
     WriterFails, Quits
<1>9. CASE StartBegins \/ StartThrows
  <2>1. inHand.id \in Id /\ inHand.path \in Path
    BY <1>9 DEF Inv, Shapes, StartBegins, StartThrows, Asks
  <2>2. used' = used \cup {inHand.id} /\ path' \in {inHand.path, NoPath}
        /\ UNCHANGED <<myId, previous, mine, confirmed, unsure, asked, ended>>
    BY <1>9 DEF StartBegins, StartThrows, Answer
  <2> QED BY <2>1, <2>2 DEF Holdings
<1>10. CASE StartSucceeds \/ StartFails \/ StopBegins \/ StopEnds \/ ShutdownStops
  BY <1>1, <1>10 DEF StartSucceeds, StartFails, StopBegins, StopEnds, ShutdownStops, Answer, Session!Started,
     Session!NotStarted, Session!Stopping, Session!Stopped
<1>11. CASE UNCHANGED vars
  BY <1>1, <1>11 DEF vars
<1> QED BY <1>2, <1>3, <1>4, <1>5, <1>6, <1>7, <1>8, <1>9, <1>10, <1>11 DEF Next, ClientCalls, ClientReturns, Serves

LEMMA NextFlags == Flags /\ [Next]_vars => Flags'
<1> SUFFICES ASSUME Flags, [Next]_vars PROVE Flags'
  OBVIOUS
<1>1. ASSUME UNCHANGED failed \/ failed' \in BOOLEAN, UNCHANGED ok \/ ok' \in BOOLEAN,
             UNCHANGED serving \/ serving' \in BOOLEAN
      PROVE  Flags'
  BY <1>1, Zenon DEF Flags
<1> USE DEF manager, session, service
<1>2. CASE ClientCalls \/ ClientReturns
  BY <1>1, <1>2, Zenon DEF ClientCalls, ClientReturns, CallStart, CallStop, CallStatus, TimesOut, StartReturns,
     StartRaises, StopReturns, StatusReturns
<1>3. CASE (\E r \in wire : Takes(r)) \/ AnswersStatus \/ StartRepeats \/ StartRefused \/ StopRefused
  BY <1>1, <1>3, Zenon DEF Takes, AnswersStatus, StartRepeats, StartRefused, StopRefused, Answer
<1>4. CASE StartBegins \/ StartThrows \/ StartSucceeds \/ StartFails
  BY <1>1, <1>4, Zenon DEF StartBegins, StartThrows, StartSucceeds, StartFails, Answer, Session!Started,
     Session!NotStarted
<1>5. CASE StopEnds \/ StopBegins \/ ShutdownStops
  <2>1. ASSUME failed' \in {failed, TRUE} PROVE failed' \in BOOLEAN
    BY <2>1, Zenon DEF Flags
  <2>2. ASSUME ok' \in {ok, FALSE} PROVE ok' \in BOOLEAN
    BY <2>2, Zenon DEF Flags
  <2> QED
    BY <1>1, <1>5, <2>1, <2>2, Zenon DEF StopEnds, StopBegins, ShutdownStops, Answer, Session!Stopping, Session!Stopped
<1>6. CASE WriterFails \/ Quits
  BY <1>1, <1>6, Zenon DEF WriterFails, Quits
<1>7. CASE UNCHANGED vars
  BY <1>1, <1>7, Zenon DEF vars
<1> QED BY <1>2, <1>3, <1>4, <1>5, <1>6, <1>7, Zenon DEF Next, Serves

(* An answer tells the ID and the flag that the manager has after the        *)
(* request.                                                                  *)
LEMMA NextReplies == Inv /\ Requests /\ Holdings /\ Flags /\ Replies /\ [Next]_vars => Replies'
<1> SUFFICES ASSUME Inv, Requests, Holdings, Flags, Replies, [Next]_vars PROVE Replies'
  OBVIOUS
<1>1. current' \in Id \cup {NoId} /\ ok' \in BOOLEAN
  BY NextInvariant, NextFlags, Zenon DEF Inv, Shapes, Flags
<1>2. ASSUME UNCHANGED reply PROVE Replies'
  BY <1>2 DEF Replies
<1>3. ASSUME NEW c \in Client, reply' = [reply EXCEPT ![c] = Nothing] PROVE Replies'
  BY <1>3 DEF Replies
<1>4. ASSUME NEW accepted \in BOOLEAN, inHand # Nothing, Answer(accepted) PROVE Replies'
  <2> DEFINE answer == [accepted |-> accepted, status |-> CurrentStatus]
  <2>1. CurrentStatus \in Status
    BY <1>1, Zenon DEF CurrentStatus, Status
  <2>2. answer \in Reply
    BY <2>1, Zenon DEF Reply
  <2>3. inHand.client \in Client
    BY <1>4 DEF Requests, Request
  <2>4. reply' = reply \/ reply' = [reply EXCEPT ![inHand.client] = answer]
    BY <1>4, Zenon DEF Answer
  <2> HIDE DEF answer
  <2> QED BY <2>2, <2>3, <2>4 DEF Replies
<1> USE DEF manager, session, service, clients, history
<1>5. CASE ClientCalls
  BY <1>2, <1>5 DEF ClientCalls, CallStart, CallStop, CallStatus
<1>6. CASE ClientReturns
  BY <1>3, <1>6 DEF ClientReturns, StartReturns, StartRaises, StopReturns, StatusReturns, TimesOut, Hangs
<1>7. CASE (\E r \in wire : Takes(r)) \/ StartBegins \/ StopBegins \/ WriterFails \/ Quits \/ ShutdownStops
  BY <1>2, <1>7 DEF Takes, StartBegins, StopBegins, WriterFails, Quits, ShutdownStops
<1>8. CASE AnswersStatus \/ StartRepeats \/ StartRefused \/ StartThrows \/ StartSucceeds \/ StartFails
           \/ StopRefused \/ StopEnds
  <2>1. inHand # Nothing /\ \E accepted \in BOOLEAN : Answer(accepted)
    BY <1>8, Zenon DEF AnswersStatus, StartRepeats, StartRefused, StartThrows, StartSucceeds, StartFails, StopRefused,
       StopEnds, Asks
  <2> QED BY <1>4, <2>1
<1>9. CASE UNCHANGED vars
  BY <1>2, <1>9 DEF vars
<1> QED BY <1>5, <1>6, <1>7, <1>8, <1>9 DEF Next, Serves

(* Every state has the declared form: whatever comes late, what a client is  *)
(* told, and what it keeps, are IDs and paths that were asked for.           *)
THEOREM TypeCorrect == Spec => []TypeOK
<1>1. Inv /\ Requests /\ Holdings /\ Flags /\ Replies => TypeOK
  <2> SUFFICES ASSUME Inv, Requests, Holdings, Flags, Replies PROVE TypeOK
    OBVIOUS
  <2>1. {failed, ok, serving} \subseteq BOOLEAN
    BY Zenon DEF Flags
  <2>2. phase \in {"idle", "starting", "active", "stopping"} /\ current \in Id \cup {NoId}
    BY DEF Inv, InService, Shapes
  <2> QED BY <2>1, <2>2 DEF Requests, Holdings, Replies, TypeOK
<1> QED BY <1>1, InitTypes, InitInvariant, NextInvariant, NextRequests, NextHoldings, NextFlags, NextReplies, PTL DEF Spec

(* For any clients, IDs and number of calls: what the daemon answered a      *)
(* client stays true, whatever comes late.                                   *)
THEOREM AnswersCorrect == Spec => []AnswersHold
<1>1. Inv => AnswersHold
  BY DEF Inv, Confirmations, Told, Runs, Endings, Over, AnswersHold, ConfirmedRuns, EndedStaysEnded
<1> QED BY <1>1, Invariant, PTL

(* For any clients, IDs and number of calls: stop_recording() without an ID  *)
(* means the recording of this client.                                       *)
THEOREM DefaultStopCorrect == Spec => []DefaultStopIsMine
<1>1. Inv => DefaultStopIsMine
  BY DEF Inv, Defaults, Mine, DefaultStopIsMine
<1> QED BY <1>1, Invariant, PTL

(* The service uses the manager as RecordingSession allows: whatever is      *)
(* asked, in whatever order, recordings follow each other under new IDs.     *)
THEOREM UsesSession == Spec => Session!Spec
<1>1. Init => Session!Init
  BY DEF Init
<1>2. Inv /\ [Next]_vars => [Session!Next]_<<phase, current, used, failed>>
  <2> SUFFICES ASSUME Inv, Next PROVE Session!Next \/ UNCHANGED session
    BY DEF vars, manager, session
  <2> USE DEF manager, session
  <2>1. CASE ClientCalls
    BY <2>1 DEF ClientCalls, CallStart, CallStop, CallStatus
  <2>2. CASE ClientReturns
    BY <2>2 DEF ClientReturns, StartReturns, StartRaises, StopReturns, StatusReturns, TimesOut
  <2>3. CASE StartBegins \/ StartThrows
    <3>1. inHand.id \in Id
      BY <2>3 DEF Inv, Shapes, StartBegins, StartThrows, Asks
    <3>2. Session!Starting(inHand.id) \/ Session!Unstartable(inHand.id)
      BY <2>3 DEF StartBegins, StartThrows, Acceptable, Session!Starting, Session!Unstartable, Session!Begin
    <3> QED BY <3>1, <3>2 DEF Session!Next
  <2>4. CASE StartSucceeds \/ StartFails
    BY <2>4 DEF StartSucceeds, StartFails, Session!Next
  <2>5. CASE StopBegins \/ StopEnds
    BY <2>5 DEF StopBegins, StopEnds, Session!Next
  <2>6. CASE \/ \E r \in wire : Takes(r)
             \/ AnswersStatus \/ StartRepeats \/ StartRefused \/ StopRefused
    BY <2>6 DEF Takes, AnswersStatus, StartRepeats, StartRefused, StopRefused
  <2>7. CASE WriterFails \/ Quits
    BY <2>7 DEF WriterFails, Quits
  <2>8. CASE ShutdownStops
    BY <2>8 DEF ShutdownStops, Session!Next
  <2> QED BY <2>1, <2>2, <2>3, <2>4, <2>5, <2>6, <2>7, <2>8 DEF Next, Serves
<1> QED BY <1>1, <1>2, Invariant, PTL DEF Spec, Session!Spec, Session!svars
================================================================================
