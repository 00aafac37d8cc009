------------------------- MODULE InspectPool_proofs -------------------------
(***************************************************************************)
(* Proofs about InspectPool for any number of workers and modules: what a  *)
(* report calls scanned has been inspected, what it calls matched is what  *)
(* @latest answered, no match is missing, and nothing that was read and no *)
(* module of the batch is lost.                                            *)
(***************************************************************************)
EXTENDS InspectPool, TLAPS

Working(w) == pc[w] \in {"zip", "latest", "zipLatest", "send"}

\* The channels are closed when every worker has ended.
ClosedWhenQuiet == feeder = "closed" => \A w \in Workers : pc[w] = "exit"

\* What a worker has in hand is backed by what it has inspected.
InHand ==
  \A w \in Workers :
    /\ toComplete[w] \subseteq inspected
    /\ pc[w] \in {"latest", "zipLatest"} =>
         /\ <<task[w], Indexed>> \in inspected
         /\ <<task[w], Indexed>> \in hasAsm
    /\ pc[w] = "zipLatest" => <<task[w], resolved[w]>> \in answered
    /\ outcome[w] \in Versions /\ pc[w] # Idle /\ pc[w] # "exit" =>
         /\ <<task[w], outcome[w]>> \in inspected
         /\ <<task[w], outcome[w]>> \in hasAsm
         /\ <<task[w], outcome[w]>> \in answered

\* The order in which the pool shuts down.
Shutdown ==
  /\ feeder # "feed" => pending = {}
  /\ open # Channels => feeder = "closed"
  /\ done => open = {}

\* A worker that has inspected the indexed version holds it, or has sent it,
\* until it is idle again; one whose first request failed holds an error.
Holds(w) ==
  pc[w] \in {"latest", "zipLatest", "send"} =>
    \/ <<task[w], Indexed>> \in toComplete[w] \cup scanned
    \/ pc[w] = "send" /\ outcome[w] = "error"

\* Every module is still to be sent, being worked on, or accounted for.
Accounted ==
  \A m \in Modules :
    \/ m \in pending
    \/ \E w \in Workers : Working(w) /\ task[w] = m
    \/ <<m, Indexed>> \in scanned \cup seen \cup failures

IInv == /\ PoolTypeOK /\ ScannedWereInspected /\ MatchesAreLatest /\ ClosedWhenQuiet
        /\ InHand /\ Shutdown
        /\ (\A w \in Workers : Holds(w))
        /\ Accounted

-----------------------------------------------------------------------------
\* The invariant holds at the start.
LEMMA InitEstablishes == Init => IInv
<1> SUFFICES ASSUME Init PROVE IInv
  OBVIOUS
<1> USE DEF Init
<1>0. (CHOOSE m \in Modules : TRUE) \in Modules
  BY ModulesAssumption
<1>1. PoolTypeOK
  <2>1. attempt \in [Workers -> 1..HTTPAttempts] /\ pc \in [Workers -> PCs]
    BY BoundsAssumption DEF PCs, Idle
  <2>2. task \in [Workers -> Modules] /\ toComplete \in [Workers -> SUBSET ModuleVersions]
    BY <1>0
  <2>3. outcome \in [Workers -> Versions \cup {"none", "error"}]
    OBVIOUS
  <2>4. /\ hasAsm \subseteq ModuleVersions /\ latest \in [Modules -> Versions]
        /\ resolved \in [Workers -> Versions]
    BY DEF Versions
  <2> QED BY <2>1, <2>2, <2>3, <2>4 DEF PoolTypeOK, Selected
<1>2. ScannedWereInspected /\ MatchesAreLatest /\ ClosedWhenQuiet
  BY DEF ScannedWereInspected, MatchesAreLatest, ClosedWhenQuiet
<1>3. InHand
  BY ModulesAssumption DEF InHand, Idle, Versions
<1>4. Shutdown
  BY DEF Shutdown, Selected
<1>5. (\A w \in Workers : Holds(w)) /\ Accounted
  BY DEF Holds, Accounted, Idle
<1> QED BY <1>1, <1>2, <1>3, <1>4, <1>5 DEF IInv

\* A worker takes a module: it leaves pending and is being worked on.
LEMMA TakePreserves ==
  ASSUME IInv, NEW w \in Workers, Take(w)
  PROVE  IInv'
<1> USE DEF IInv, Take, server, workers, results, history
<1>1. PoolTypeOK'
  BY BoundsAssumption DEF PoolTypeOK, PCs, Idle, Channels, ModuleVersions, Versions
<1>2. ScannedWereInspected' /\ MatchesAreLatest'
  BY ModulesAssumption DEF PoolTypeOK, ScannedWereInspected, MatchesAreLatest, InHand
<1>3. ClosedWhenQuiet'
  BY DEF PoolTypeOK, ClosedWhenQuiet, Idle
<1>4. InHand'
  BY ModulesAssumption DEF PoolTypeOK, InHand, Versions, Idle
<1>5. Shutdown'
  BY DEF PoolTypeOK, Shutdown
<1>6. \A v \in Workers : Holds(v)'
  BY DEF PoolTypeOK, Holds, Idle
<1>7. Accounted'
  BY DEF PoolTypeOK, Accounted, Holds, Working, Idle
<1> QED BY <1>1, <1>2, <1>3, <1>4, <1>5, <1>6, <1>7

\* A worker that ends was idle and held nothing.
LEMMA ExitPreserves ==
  ASSUME IInv, NEW w \in Workers, Exit(w)
  PROVE  IInv'
<1> USE DEF IInv, Exit, server, workers, results, history
<1>1. PoolTypeOK'
  BY BoundsAssumption DEF PoolTypeOK, PCs, Idle, Channels, ModuleVersions, Versions
<1>2. ScannedWereInspected' /\ MatchesAreLatest'
  BY ModulesAssumption DEF PoolTypeOK, ScannedWereInspected, MatchesAreLatest, InHand
<1>3. ClosedWhenQuiet'
  BY DEF PoolTypeOK, ClosedWhenQuiet, Idle
<1>4. InHand'
  BY ModulesAssumption DEF PoolTypeOK, InHand, Versions, Idle
<1>5. Shutdown'
  BY DEF PoolTypeOK, Shutdown
<1>6. \A v \in Workers : Holds(v)'
  BY DEF PoolTypeOK, Holds, Idle
<1>7. Accounted'
  BY DEF PoolTypeOK, Accounted, Holds, Working, Idle
<1> QED BY <1>1, <1>2, <1>3, <1>4, <1>5, <1>6, <1>7

\* Another attempt changes nothing but its count.
LEMMA RetryPreserves ==
  ASSUME IInv, NEW w \in Workers, Retry(w)
  PROVE  IInv'
<1> USE DEF IInv, Retry, server, workers, results, history, Asking, NoAttemptLeft
<1>1. PoolTypeOK'
  BY BoundsAssumption DEF PoolTypeOK, PCs, Idle, Channels, ModuleVersions, Versions
<1>2. ScannedWereInspected' /\ MatchesAreLatest'
  BY ModulesAssumption DEF PoolTypeOK, ScannedWereInspected, MatchesAreLatest, InHand
<1>3. ClosedWhenQuiet'
  BY DEF PoolTypeOK, ClosedWhenQuiet, Idle
<1>4. InHand'
  BY ModulesAssumption DEF PoolTypeOK, InHand, Versions, Idle
<1>5. Shutdown'
  BY DEF PoolTypeOK, Shutdown
<1>6. \A v \in Workers : Holds(v)'
  BY DEF PoolTypeOK, Holds, Idle
<1>7. Accounted'
  BY DEF PoolTypeOK, Accounted, Holds, Working, Idle
<1> QED BY <1>1, <1>2, <1>3, <1>4, <1>5, <1>6, <1>7

\* A failed request leaves the worker with an error to send.
LEMMA RequestFailsPreserves ==
  ASSUME IInv, NEW w \in Workers, RequestFails(w)
  PROVE  IInv'
<1> USE DEF IInv, RequestFails, server, workers, results, history, Become, Asking, FailureOutcome
<1>1. PoolTypeOK'
  BY BoundsAssumption DEF PoolTypeOK, PCs, Idle, Channels, ModuleVersions, Versions
<1>2. ScannedWereInspected' /\ MatchesAreLatest'
  BY ModulesAssumption DEF PoolTypeOK, ScannedWereInspected, MatchesAreLatest, InHand
<1>3. ClosedWhenQuiet'
  BY DEF PoolTypeOK, ClosedWhenQuiet, Idle
<1>4. InHand'
  BY ModulesAssumption DEF PoolTypeOK, InHand, Versions, Idle
<1>5. Shutdown'
  BY DEF PoolTypeOK, Shutdown
<1>6. \A v \in Workers : Holds(v)'
  BY DEF PoolTypeOK, Holds, Idle
<1>7. Accounted'
  BY DEF PoolTypeOK, Accounted, Holds, Working, Idle
<1> QED BY <1>1, <1>2, <1>3, <1>4, <1>5, <1>6, <1>7

\* The worker has read the ZIP it is about to call completed.
LEMMA InspectIndexedPreserves ==
  ASSUME IInv, NEW w \in Workers, InspectIndexed(w)
  PROVE  IInv'
<1> USE DEF IInv, InspectIndexed, server, workers, results, history, Become, InspectedIndexed
<1>1. PoolTypeOK'
  BY BoundsAssumption DEF PoolTypeOK, PCs, Idle, Channels, ModuleVersions, Versions
<1>2. ScannedWereInspected' /\ MatchesAreLatest'
  BY ModulesAssumption DEF PoolTypeOK, ScannedWereInspected, MatchesAreLatest, InHand
<1>3. ClosedWhenQuiet'
  BY DEF PoolTypeOK, ClosedWhenQuiet, Idle
<1>4. InHand'
  BY ModulesAssumption DEF PoolTypeOK, InHand, Versions, Idle
<1>5. Shutdown'
  BY DEF PoolTypeOK, Shutdown
<1>6. \A v \in Workers : Holds(v)'
  BY DEF PoolTypeOK, Holds, Idle
<1>7. Accounted'
  BY DEF PoolTypeOK, Accounted, Holds, Working, Idle
<1> QED BY <1>1, <1>2, <1>3, <1>4, <1>5, <1>6, <1>7

\* The match of an indexed version that is the latest was inspected before.
LEMMA ResolveLatestPreserves ==
  ASSUME IInv, NEW w \in Workers, ResolveLatest(w)
  PROVE  IInv'
<1> USE DEF IInv, ResolveLatest, server, workers, results, history, Become
<1>1. PoolTypeOK'
  BY BoundsAssumption DEF PoolTypeOK, PCs, Idle, Channels, ModuleVersions, Versions
<1>2. ScannedWereInspected' /\ MatchesAreLatest'
  BY ModulesAssumption DEF PoolTypeOK, ScannedWereInspected, MatchesAreLatest, InHand
<1>3. ClosedWhenQuiet'
  BY DEF PoolTypeOK, ClosedWhenQuiet, Idle
<1>4. InHand'
  <2> DEFINE InHandOf(v) ==
        /\ toComplete[v] \subseteq inspected
        /\ pc[v] \in {"latest", "zipLatest"} =>
             /\ <<task[v], Indexed>> \in inspected
             /\ <<task[v], Indexed>> \in hasAsm
        /\ pc[v] = "zipLatest" => <<task[v], resolved[v]>> \in answered
        /\ outcome[v] \in Versions /\ pc[v] # Idle /\ pc[v] # "exit" =>
             /\ <<task[v], outcome[v]>> \in inspected
             /\ <<task[v], outcome[v]>> \in hasAsm
             /\ <<task[v], outcome[v]>> \in answered
  <2>0. \A v \in Workers : InHandOf(v)
    BY DEF InHand
  <2>1. /\ task' = task /\ inspected' = inspected /\ hasAsm' = hasAsm
        /\ answered' = answered \cup {<<task[w], latest[task[w]]>>}
        /\ resolved'[w] = latest[task[w]]
        /\ toComplete'[w] = toComplete[w]
    BY DEF PoolTypeOK
  <2>2. ASSUME NEW v \in Workers, v # w PROVE InHandOf(v)'
    <3>1. /\ pc'[v] = pc[v] /\ outcome'[v] = outcome[v]
          /\ resolved'[v] = resolved[v] /\ toComplete'[v] = toComplete[v]
      BY <2>2 DEF PoolTypeOK
    <3> QED BY <2>0, <2>1, <2>2, <3>1
  <2>3. InHandOf(w)'
    <3>1. <<task[w], Indexed>> \in inspected /\ <<task[w], Indexed>> \in hasAsm
      BY <2>0
    <3>2. "none" \notin Versions
      BY ModulesAssumption
    <3>3. CASE latest[task[w]] = Indexed
      <4>1. outcome'[w] = Indexed /\ pc'[w] = "send"
        BY <3>3 DEF PoolTypeOK
      <4> QED BY <2>0, <2>1, <3>1, <3>3, <4>1
    <3>4. CASE latest[task[w]] # Indexed
      <4>1. outcome'[w] = "none" /\ pc'[w] = "zipLatest"
        BY <3>4 DEF PoolTypeOK
      <4> QED BY <2>0, <2>1, <3>1, <3>2, <4>1
    <3> QED BY <3>3, <3>4
  <2> QED
    BY <2>2, <2>3 DEF InHand
<1>5. Shutdown'
  BY DEF PoolTypeOK, Shutdown
<1>6. \A v \in Workers : Holds(v)'
  BY DEF PoolTypeOK, Holds, Idle
<1>7. Accounted'
  BY DEF PoolTypeOK, Accounted, Holds, Working, Idle
<1> QED BY <1>1, <1>2, <1>3, <1>4, <1>5, <1>6, <1>7

\* The match of a newer version has just been inspected.
LEMMA InspectLatestPreserves ==
  ASSUME IInv, NEW w \in Workers, InspectLatest(w)
  PROVE  IInv'
<1> USE DEF IInv, InspectLatest, server, workers, results, history, Become, MatchedVersion
<1>1. PoolTypeOK'
  BY BoundsAssumption DEF PoolTypeOK, PCs, Idle, Channels, ModuleVersions, Versions
<1>2. ScannedWereInspected' /\ MatchesAreLatest'
  BY ModulesAssumption DEF PoolTypeOK, ScannedWereInspected, MatchesAreLatest, InHand
<1>3. ClosedWhenQuiet'
  BY DEF PoolTypeOK, ClosedWhenQuiet, Idle
<1>4. InHand'
  BY ModulesAssumption DEF PoolTypeOK, InHand, Versions, Idle
<1>5. Shutdown'
  BY DEF PoolTypeOK, Shutdown
<1>6. \A v \in Workers : Holds(v)'
  BY DEF PoolTypeOK, Holds, Idle
<1>7. Accounted'
  BY DEF PoolTypeOK, Accounted, Holds, Working, Idle
<1> QED BY <1>1, <1>2, <1>3, <1>4, <1>5, <1>6, <1>7

\* What becomes scanned was in the hands of the worker.
LEMMA SendCompletedPreserves ==
  ASSUME IInv, NEW w \in Workers, SendCompleted(w)
  PROVE  IInv'
<1> USE DEF IInv, SendCompleted, server, workers, results, history
<1>1. PoolTypeOK'
  BY BoundsAssumption DEF PoolTypeOK, PCs, Idle, Channels, ModuleVersions, Versions
<1>2. ScannedWereInspected' /\ MatchesAreLatest'
  <2>1. scanned' \subseteq scanned \cup toComplete[w] /\ toComplete[w] \subseteq inspected
    BY DEF PoolTypeOK, InHand
  <2> QED BY <2>1 DEF ScannedWereInspected, MatchesAreLatest
<1>3. ClosedWhenQuiet'
  BY DEF PoolTypeOK, ClosedWhenQuiet, Idle
<1>4. InHand'
  BY ModulesAssumption DEF PoolTypeOK, InHand, Versions, Idle
<1>5. Shutdown'
  BY DEF PoolTypeOK, Shutdown
<1>6. \A v \in Workers : Holds(v)'
  BY DEF PoolTypeOK, Holds, Idle
<1>7. Accounted'
  BY DEF PoolTypeOK, Accounted, Holds, Working, Idle
<1> QED BY <1>1, <1>2, <1>3, <1>4, <1>5, <1>6, <1>7

\* The module of an error is among the failures before its worker is idle.
LEMMA SendErrorPreserves ==
  ASSUME IInv, NEW w \in Workers, SendError(w)
  PROVE  IInv'
<1> USE DEF IInv, SendError, server, workers, results, history, Deliver
<1>1. PoolTypeOK'
  BY BoundsAssumption DEF PoolTypeOK, PCs, Idle, Channels, ModuleVersions, Versions
<1>2. ScannedWereInspected' /\ MatchesAreLatest'
  BY ModulesAssumption DEF PoolTypeOK, ScannedWereInspected, MatchesAreLatest, InHand
<1>3. ClosedWhenQuiet'
  BY DEF PoolTypeOK, ClosedWhenQuiet, Idle
<1>4. InHand'
  BY ModulesAssumption DEF PoolTypeOK, InHand, Versions, Idle
<1>5. Shutdown'
  BY DEF PoolTypeOK, Shutdown
<1>6. \A v \in Workers : Holds(v)'
  BY DEF PoolTypeOK, Holds, Idle
<1>7. Accounted'
  BY DEF PoolTypeOK, Accounted, Holds, Working, Idle
<1> QED BY <1>1, <1>2, <1>3, <1>4, <1>5, <1>6, <1>7

\* The module of a match was scanned before its worker is idle.
LEMMA SendResultPreserves ==
  ASSUME IInv, NEW w \in Workers, SendResult(w)
  PROVE  IInv'
<1> USE DEF IInv, SendResult, server, workers, results, history, Deliver
<1>1. PoolTypeOK'
  BY BoundsAssumption DEF PoolTypeOK, PCs, Idle, Channels, ModuleVersions, Versions
<1>2. ScannedWereInspected' /\ MatchesAreLatest'
  <2>1. /\ <<task[w], outcome[w]>> \in inspected
        /\ <<task[w], outcome[w]>> \in hasAsm
        /\ <<task[w], outcome[w]>> \in answered
    BY DEF InHand, Idle
  <2>2. \A mv \in matched' : mv \in matched \/ mv = <<task[w], outcome[w]>>
    OBVIOUS
  <2>3. ScannedWereInspected'
    BY <2>1, <2>2 DEF ScannedWereInspected
  <2>4. MatchesAreLatest'
    <3> SUFFICES ASSUME NEW mv \in matched'
                 PROVE  mv \in hasAsm /\ mv \in answered
      BY DEF MatchesAreLatest
    <3>1. CASE mv \in matched
      BY <3>1 DEF MatchesAreLatest
    <3>2. CASE mv = <<task[w], outcome[w]>>
      BY <3>2, <2>1
    <3> QED BY <3>1, <3>2, <2>2
  <2> QED BY <2>3, <2>4
<1>3. ClosedWhenQuiet'
  BY DEF PoolTypeOK, ClosedWhenQuiet, Idle
<1>4. InHand'
  BY ModulesAssumption DEF PoolTypeOK, InHand, Versions, Idle
<1>5. Shutdown'
  BY DEF PoolTypeOK, Shutdown
<1>6. \A v \in Workers : Holds(v)'
  BY DEF PoolTypeOK, Holds, Idle
<1>7. Accounted'
  BY ModulesAssumption DEF PoolTypeOK, Accounted, Holds, Working, Idle
<1> QED BY <1>1, <1>2, <1>3, <1>4, <1>5, <1>6, <1>7

\* So was one without a match.
LEMMA SendNothingPreserves ==
  ASSUME IInv, NEW w \in Workers, SendNothing(w)
  PROVE  IInv'
<1> USE DEF IInv, SendNothing, server, workers, results, history, Deliver
<1>1. PoolTypeOK'
  BY BoundsAssumption DEF PoolTypeOK, PCs, Idle, Channels, ModuleVersions, Versions
<1>2. ScannedWereInspected' /\ MatchesAreLatest'
  BY ModulesAssumption DEF PoolTypeOK, ScannedWereInspected, MatchesAreLatest, InHand
<1>3. ClosedWhenQuiet'
  BY DEF PoolTypeOK, ClosedWhenQuiet, Idle
<1>4. InHand'
  BY ModulesAssumption DEF PoolTypeOK, InHand, Versions, Idle
<1>5. Shutdown'
  BY DEF PoolTypeOK, Shutdown
<1>6. \A v \in Workers : Holds(v)'
  BY DEF PoolTypeOK, Holds, Idle
<1>7. Accounted'
  BY DEF PoolTypeOK, Accounted, Holds, Working, Idle
<1> QED BY <1>1, <1>2, <1>3, <1>4, <1>5, <1>6, <1>7

\* Closing the channels happens after every worker has ended.
LEMMA QuietPreserves ==
  ASSUME IInv, CloseTasks \/ CloseOutputs \/ CollectorReturns
                \/ (\E ch \in Channels : SeeClosed(ch)) \/ UNCHANGED vars
  PROVE  IInv'
<1> USE DEF IInv, CloseTasks, CloseOutputs, CollectorReturns, SeeClosed, vars,
           AllExited, server, workers, results, history
<1>1. PoolTypeOK'
  BY BoundsAssumption DEF PoolTypeOK, PCs, Idle, Channels, ModuleVersions, Versions
<1>2. ScannedWereInspected' /\ MatchesAreLatest'
  BY ModulesAssumption DEF PoolTypeOK, ScannedWereInspected, MatchesAreLatest, InHand
<1>3. ClosedWhenQuiet'
  BY DEF PoolTypeOK, ClosedWhenQuiet, Idle
<1>4. InHand'
  BY ModulesAssumption DEF PoolTypeOK, InHand, Versions, Idle
<1>5. Shutdown'
  <2>1. open' = open \/ (feeder = "closed" /\ feeder' = feeder)
    OBVIOUS
  <2>2. feeder' # "feed" => pending' = {}
    BY DEF Shutdown
  <2>3. done' => open' = {}
    BY DEF Shutdown
  <2>4. open' # Channels => feeder' = "closed"
    BY <2>1 DEF Shutdown
  <2> QED BY <2>2, <2>3, <2>4 DEF Shutdown
<1>6. \A v \in Workers : Holds(v)'
  BY DEF PoolTypeOK, Holds, Idle
<1>7. Accounted'
  BY DEF PoolTypeOK, Accounted, Holds, Working, Idle
<1> QED BY <1>1, <1>2, <1>3, <1>4, <1>5, <1>6, <1>7

\* A later run starts from what the reports call scanned or matched.
LEMMA NextRunPreserves ==
  ASSUME IInv, NextRun
  PROVE  IInv'
<1> USE DEF IInv, NextRun, server, workers, results, history, Selected, NextSeen
<1>1. PoolTypeOK'
  <2>1. run' \in Nat /\ pc' \in [Workers -> PCs] /\ pending' \subseteq Modules
    BY DEF PoolTypeOK, PCs, Idle
  <2>2. seen' \subseteq ModuleVersions /\ open' \subseteq Channels
    BY DEF PoolTypeOK
  <2> QED BY <2>1, <2>2 DEF PoolTypeOK
<1>2. ScannedWereInspected' /\ MatchesAreLatest'
  BY ModulesAssumption DEF PoolTypeOK, ScannedWereInspected, MatchesAreLatest, InHand
<1>3. ClosedWhenQuiet'
  BY DEF PoolTypeOK, ClosedWhenQuiet, Idle
<1>4. InHand'
  BY ModulesAssumption DEF PoolTypeOK, InHand, Versions, Idle
<1>5. Shutdown'
  BY DEF PoolTypeOK, Shutdown
<1>6. \A v \in Workers : Holds(v)'
  BY DEF PoolTypeOK, Holds, Idle
<1>7. Accounted'
  BY DEF PoolTypeOK, Accounted, Holds, Working, Idle
<1> QED BY <1>1, <1>2, <1>3, <1>4, <1>5, <1>6, <1>7

-----------------------------------------------------------------------------
\* A new version of a module touches nothing that the invariant speaks of: a
\* worker holds the answer it was given.
LEMMA PublishPreserves ==
  ASSUME IInv, NEW m \in Modules, Publish(m)
  PROVE  IInv'
<1>1. UNCHANGED <<hasAsm, run, seen, pending, feeder, workers, open, results, done, history>>
  BY DEF Publish
<1>2. latest' \in [Modules -> Versions]
  BY DEF IInv, PoolTypeOK, Publish, Versions
<1>3. PoolTypeOK'
  BY <1>1, <1>2 DEF IInv, PoolTypeOK, workers, results, history
<1>4. ScannedWereInspected' /\ MatchesAreLatest' /\ ClosedWhenQuiet' /\ Shutdown'
  BY <1>1 DEF IInv, ScannedWereInspected, MatchesAreLatest, ClosedWhenQuiet, Shutdown,
              workers, results, history
<1>5. InHand' /\ \A w \in Workers : Holds(w)'
  BY <1>1 DEF IInv, InHand, Holds, workers, results, history
<1>6. Accounted'
  BY <1>1 DEF IInv, Accounted, Working, workers, results
<1> QED BY <1>3, <1>4, <1>5, <1>6 DEF IInv

\* The invariant is inductive.
THEOREM Inductive == Spec => []IInv
<1>1. Init => IInv
  BY InitEstablishes
<1>2. IInv /\ [Next]_vars => IInv'
  <2> SUFFICES ASSUME IInv, [Next]_vars PROVE IInv'
    OBVIOUS
  <2>1. ASSUME NEW w \in Workers, Worker(w) PROVE IInv'
    BY <2>1, TakePreserves, ExitPreserves, InspectIndexedPreserves, ResolveLatestPreserves,
       InspectLatestPreserves, SendCompletedPreserves, SendErrorPreserves,
       SendResultPreserves, SendNothingPreserves DEF Worker
  <2>2. ASSUME NEW w \in Workers, Fault(w) PROVE IInv'
    BY <2>2, RetryPreserves, RequestFailsPreserves DEF Fault
  <2>3. CASE Feeder \/ Collector \/ UNCHANGED vars
    BY <2>3, QuietPreserves DEF Feeder, Collector
  <2>4. CASE NextRun
    BY <2>4, NextRunPreserves
  <2>5. ASSUME NEW m \in Modules, Publish(m) PROVE IInv'
    BY <2>5, PublishPreserves
  <2> QED BY <2>1, <2>2, <2>3, <2>4, <2>5 DEF Next
<1> QED BY <1>1, <1>2, PTL DEF Spec

\* Every variable of the pool keeps its type, for any number of workers.
THEOREM TypeCorrect == Spec => []PoolTypeOK
<1>1. IInv => PoolTypeOK
  BY DEF IInv
<1> QED BY <1>1, Inductive, PTL

\* A report never calls scanned, nor a later run seen, what nobody read.
THEOREM ScannedSound == Spec => []ScannedWereInspected
<1>1. IInv => ScannedWereInspected
  BY DEF IInv
<1> QED BY <1>1, Inductive, PTL

\* Every match has assembly and is what @latest answered in this run.
THEOREM MatchesSound == Spec => []MatchesAreLatest
<1>1. IInv => MatchesAreLatest
  BY DEF IInv
<1> QED BY <1>1, Inductive, PTL

-----------------------------------------------------------------------------
(***************************************************************************)
(* What has been read is in the hands of its worker or has been reported.  *)
(***************************************************************************)
EmptyHanded(w) == pc[w] \in {Idle, "zip", "exit"} => toComplete[w] = {}
Unreported ==
  \A mv \in inspected : \/ mv \in scanned \cup seen
                        \/ \E w \in Workers : mv \in toComplete[w]
ReportInv == (\A w \in Workers : EmptyHanded(w)) /\ Unreported

LEMMA ReportInit == Init => ReportInv
BY DEF Init, ReportInv, EmptyHanded, Unreported

\* A worker adds to what it has in hand what it reads; it gives up only what it
\* has sent.
LEMMA ReportWorker ==
  ASSUME IInv, ReportInv, NEW w \in Workers, Worker(w) \/ Fault(w)
  PROVE  ReportInv'
<1> USE DEF server, workers, results, history
<1>1. pc \in [Workers -> PCs] /\ toComplete \in [Workers -> SUBSET ModuleVersions]
  BY DEF IInv, PoolTypeOK
<1>2. UNCHANGED seen
  BY DEF Worker, Fault, Take, Exit, InspectIndexed, ResolveLatest, InspectLatest, SendCompleted,
         SendError, SendResult, SendNothing, Deliver, Retry, RequestFails
<1>3. \A v \in Workers \ {w} : UNCHANGED <<pc[v], toComplete[v]>>
  BY <1>1 DEF Worker, Fault, Take, Exit, InspectIndexed, ResolveLatest, InspectLatest, SendCompleted,
         SendError, SendResult, SendNothing, Deliver, Retry, RequestFails, Become
<1>4. EmptyHanded(w)
  BY DEF ReportInv
<1>5. /\ EmptyHanded(w)'
      /\ inspected' \subseteq inspected \cup toComplete'[w]
      /\ scanned \subseteq scanned'
      /\ toComplete[w] \subseteq toComplete'[w] \cup scanned'
  <2>1. CASE Take(w)
    BY <1>1, <1>4, <2>1 DEF Take, EmptyHanded, Idle
  <2>2. CASE Exit(w) \/ Retry(w)
    BY <1>1, <1>4, <2>2 DEF Exit, Retry, EmptyHanded, Idle
  <2>3. CASE InspectIndexed(w)
    BY <1>1, <1>4, <2>3 DEF InspectIndexed, Become, InspectedIndexed, EmptyHanded, Idle
  <2>4. CASE ResolveLatest(w) \/ RequestFails(w)
    BY <1>1, <1>4, <2>4 DEF ResolveLatest, RequestFails, Become, EmptyHanded, Idle
  <2>5. CASE InspectLatest(w)
    BY <1>1, <1>4, <2>5 DEF InspectLatest, Become, EmptyHanded, Idle
  <2>6. CASE SendCompleted(w)
    BY <1>1, <2>6 DEF SendCompleted, EmptyHanded, Idle
  <2>7. CASE SendError(w) \/ SendResult(w) \/ SendNothing(w)
    BY <1>1, <2>7 DEF SendError, SendResult, SendNothing, Deliver, EmptyHanded, Idle
  <2> QED BY <2>1, <2>2, <2>3, <2>4, <2>5, <2>6, <2>7 DEF Worker, Fault
<1>6. \A v \in Workers : EmptyHanded(v)'
  BY <1>3, <1>5 DEF ReportInv, EmptyHanded
<1>7. Unreported'
  <2> SUFFICES ASSUME NEW mv \in inspected'
               PROVE  mv \in scanned' \cup seen' \/ \E v \in Workers : mv \in toComplete'[v]
    BY DEF Unreported
  <2>1. CASE mv \in toComplete'[w]
    BY <2>1
  <2>2. CASE mv \in inspected
    <3>1. CASE mv \in scanned \cup seen
      BY <1>2, <1>5, <3>1
    <3>2. ASSUME NEW v \in Workers, mv \in toComplete[v]
          PROVE  mv \in scanned' \/ mv \in toComplete'[v]
      BY <1>3, <1>5, <3>2
    <3> QED BY <2>2, <3>1, <3>2 DEF ReportInv, Unreported
  <2> QED BY <1>5, <2>1, <2>2
<1> QED BY <1>6, <1>7 DEF ReportInv

LEMMA ReportStep == IInv /\ ReportInv /\ [Next]_vars => ReportInv'
<1> SUFFICES ASSUME IInv, ReportInv, [Next]_vars PROVE ReportInv'
  OBVIOUS
<1>1. ASSUME NEW w \in Workers, Worker(w) \/ Fault(w) PROVE ReportInv'
  BY <1>1, ReportWorker
<1>2. CASE Feeder \/ Collector \/ (\E m \in Modules : Publish(m)) \/ UNCHANGED vars
  <2>1. UNCHANGED <<pc, toComplete, scanned, seen, inspected>>
    BY <1>2 DEF Feeder, Collector, CloseTasks, CloseOutputs, CollectorReturns, SeeClosed, Publish,
                vars, server, workers, results, history
  <2> QED BY <2>1 DEF ReportInv, EmptyHanded, Unreported
<1>3. CASE NextRun
  <2>1. \A w \in Workers : pc[w] = "exit"
    BY <1>3 DEF NextRun, IInv, Shutdown, ClosedWhenQuiet, Channels
  <2>2. \A w \in Workers : toComplete[w] = {}
    BY <2>1 DEF ReportInv, EmptyHanded
  <2>3. UNCHANGED <<toComplete, inspected>> /\ scanned \cup seen \subseteq seen'
    BY <1>3 DEF NextRun, NextSeen
  <2>4. Unreported'
    BY <2>2, <2>3 DEF ReportInv, Unreported
  <2> QED BY <2>2, <2>3, <2>4 DEF ReportInv, EmptyHanded
<1> QED BY <1>1, <1>2, <1>3 DEF Next

\* When inspectModules returns, no module of the batch has been lost, nor a
\* version that was read: the channels were closed, so every worker has ended
\* with empty hands and no module is pending.
THEOREM NoneLost == Spec => []NothingLost
<1>1. Spec => []ReportInv
  BY ReportInit, ReportStep, Inductive, PTL DEF Spec
<1>2. IInv /\ ReportInv => NothingLost
  <2> SUFFICES ASSUME IInv, ReportInv, done PROVE NothingLost
    BY DEF NothingLost
  <2>1. feeder = "closed" /\ pending = {}
    BY DEF IInv, Shutdown, Channels
  <2>2. \A w \in Workers : pc[w] = "exit"
    BY <2>1 DEF IInv, ClosedWhenQuiet
  <2>3. \A m \in Modules : <<m, Indexed>> \in scanned \cup seen \cup failures
    BY <2>1, <2>2 DEF IInv, Accounted, Working
  <2>4. inspected \subseteq scanned \cup seen
    BY <2>2 DEF ReportInv, EmptyHanded, Unreported
  <2> QED BY <2>3, <2>4 DEF NothingLost
<1> QED BY <1>1, <1>2, Inductive, PTL

-----------------------------------------------------------------------------
(***************************************************************************)
(* Completeness: a worker about to report on a module it has scanned has   *)
(* decided it.                                                             *)
(***************************************************************************)
HasAsm(m, v) == <<m, v>> \in hasAsm
Named(m, v)  == <<m, v>> \in answered

\* A worker completes versions of its own module only.  When it is about to
\* send, it sends an error, or its module's indexed version has no assembly, or
\* @latest has named a version that it sends if that has assembly.
Settled(w) ==
  /\ \A mv \in toComplete[w] : mv[1] = task[w]
  /\ pc[w] = "send" =>
       \/ outcome[w] = "error"
       \/ ~HasAsm(task[w], Indexed)
       \/ \E v \in Versions : Named(task[w], v) /\ (HasAsm(task[w], v) => outcome[w] = v)

\* A module with assembly whose indexed version has been called scanned is
\* matched, failed, or still in the hands of its worker.
Matched(m) ==
  \E v \in Versions : Named(m, v) /\ (HasAsm(m, v) => <<m, v>> \in matched)
Decided ==
  \A m \in Modules :
    <<m, Indexed>> \in scanned /\ HasAsm(m, Indexed) =>
      \/ Matched(m)
      \/ <<m, Indexed>> \in failures
      \/ \E w \in Workers : pc[w] = "send" /\ task[w] = m

DecidedInv == (\A w \in Workers : Settled(w)) /\ Decided

LEMMA DecidedInit == Init => DecidedInv
<1> SUFFICES ASSUME Init PROVE DecidedInv
  OBVIOUS
<1>1. \A w \in Workers : toComplete[w] = {} /\ pc[w] # "send"
  BY DEF Init, Idle
<1>2. scanned = {}
  BY DEF Init
<1> QED BY <1>1, <1>2 DEF DecidedInv, Settled, Decided

\* What was settled or matched stays so while answers and matches are added.
LEMMA SettledStays ==
  ASSUME NEW w, Settled(w), UNCHANGED <<hasAsm, pc[w], task[w], toComplete[w], outcome[w]>>,
         answered \subseteq answered'
  PROVE  Settled(w)'
BY DEF Settled, HasAsm, Named

LEMMA MatchedStays ==
  ASSUME NEW m, Matched(m), UNCHANGED hasAsm, answered \subseteq answered', matched \subseteq matched'
  PROVE  Matched(m)'
BY DEF Matched, HasAsm, Named

\* Asking does not touch what has been reported.
LEMMA AskingKeepsDecided ==
  ASSUME IInv, DecidedInv, NEW w \in Workers,
         Take(w) \/ Exit(w) \/ Retry(w) \/ RequestFails(w)
           \/ InspectIndexed(w) \/ ResolveLatest(w) \/ InspectLatest(w)
  PROVE  DecidedInv'
<1> USE DEF server, workers, results, history
<1>1. /\ pc \in [Workers -> PCs] /\ task \in [Workers -> Modules]
      /\ toComplete \in [Workers -> SUBSET ModuleVersions]
      /\ outcome \in [Workers -> Versions \cup {"none", "error"}]
      /\ latest \in [Modules -> Versions] /\ resolved \in [Workers -> Versions]
  BY DEF IInv, PoolTypeOK
<1>2. UNCHANGED <<hasAsm, latest, scanned, matched, failures>> /\ answered \subseteq answered'
  BY DEF Take, Exit, Retry, RequestFails, InspectIndexed, ResolveLatest, InspectLatest, Become
<1>3. \A v \in Workers \ {w} : UNCHANGED <<pc[v], task[v], toComplete[v], outcome[v]>>
  BY <1>1 DEF Take, Exit, Retry, RequestFails, InspectIndexed, ResolveLatest, InspectLatest, Become
<1>4. \A v \in Workers \ {w} : Settled(v)'
  BY <1>2, <1>3, SettledStays DEF DecidedInv
<1>5. Settled(w)
  BY DEF DecidedInv
<1>6. Settled(w)'
  <2>1. CASE Take(w)
    BY <1>1, <2>1 DEF Take, Settled
  <2>2. CASE Exit(w) \/ Retry(w)
    BY <1>1, <1>2, <1>5, <2>2 DEF Exit, Retry, Settled, Asking, HasAsm, Named
  <2>3. CASE RequestFails(w)
    BY <1>1, <1>5, <2>3 DEF RequestFails, Become, FailureOutcome, Settled
  <2>4. CASE InspectIndexed(w)
    <3>1. /\ task'[w] = task[w] /\ toComplete'[w] = {<<task[w], Indexed>>}
          /\ pc'[w] = "send" => <<task[w], Indexed>> \notin hasAsm
      BY <1>1, <2>4 DEF InspectIndexed, Become, InspectedIndexed
    <3> QED BY <1>2, <3>1 DEF Settled, HasAsm
  <2>5. CASE ResolveLatest(w)
    <3> DEFINE v == latest[task[w]]
    <3>1. /\ task'[w] = task[w] /\ toComplete'[w] = toComplete[w]
          /\ pc'[w] = "send" => outcome'[w] = v
          /\ v \in Versions /\ Named(task[w], v)'
      BY <1>1, <2>5 DEF ResolveLatest, Become, Named
    <3> QED BY <1>2, <1>5, <3>1 DEF Settled, Named
  <2>6. CASE InspectLatest(w)
    <3>1. /\ task'[w] = task[w] /\ resolved' = resolved
          /\ toComplete'[w] = toComplete[w] \cup {<<task[w], resolved[w]>>}
          /\ <<task[w], resolved[w]>> \in hasAsm => outcome'[w] = resolved[w]
          /\ resolved[w] \in Versions
      BY <1>1, <2>6 DEF InspectLatest, Become, MatchedVersion
    <3>2. <<task[w], resolved[w]>> \in answered
      BY <2>6 DEF IInv, InHand, InspectLatest
    <3>3. \A mv \in toComplete'[w] : mv[1] = task'[w]
      BY <1>5, <3>1 DEF Settled
    <3>4. /\ <<task'[w], resolved[w]>> \in answered'
          /\ <<task'[w], resolved[w]>> \in hasAsm' => outcome'[w] = resolved[w]
      BY <1>2, <3>1, <3>2
    <3> QED BY <3>1, <3>3, <3>4 DEF Settled, Named, HasAsm
  <2> QED BY <2>1, <2>2, <2>3, <2>4, <2>5, <2>6
<1>7. pc[w] # "send"
  BY DEF Take, Exit, Retry, RequestFails, InspectIndexed, ResolveLatest, InspectLatest, Asking, Idle
<1>8. Decided'
  <2>1. \A m \in Modules : HasAsm(m, Indexed)' <=> HasAsm(m, Indexed)
    BY <1>2 DEF HasAsm
  <2>2. \A m \in Modules : Matched(m) => Matched(m)'
    BY <1>2, MatchedStays
  <2> QED BY <1>2, <1>3, <1>7, <2>1, <2>2 DEF DecidedInv, Decided
<1> QED BY <1>4, <1>6, <1>8 DEF DecidedInv

\* A version sent as completed is one of the worker's own module.
LEMMA SendCompletedKeepsDecided ==
  ASSUME IInv, DecidedInv, NEW w \in Workers, SendCompleted(w)
  PROVE  DecidedInv'
<1> USE DEF server, workers, results, history
<1>1. PICK mv \in toComplete[w] :
         /\ toComplete' = [toComplete EXCEPT ![w] = @ \ {mv}]
         /\ scanned' = scanned \cup {mv}
  BY DEF SendCompleted
<1>2. UNCHANGED <<hasAsm, answered, pc, task, outcome, matched, failures>> /\ pc[w] = "send"
  BY DEF SendCompleted
<1>3. toComplete \in [Workers -> SUBSET ModuleVersions]
  BY DEF IInv, PoolTypeOK
<1>4. \A v \in Workers : toComplete'[v] \subseteq toComplete[v]
  BY <1>1, <1>3
<1>5. \A v \in Workers : Settled(v)'
  BY <1>2, <1>4 DEF DecidedInv, Settled, HasAsm, Named
<1>6. mv[1] = task[w]
  BY DEF DecidedInv, Settled
<1>7. Decided'
  <2> SUFFICES ASSUME NEW m \in Modules, <<m, Indexed>> \in scanned', HasAsm(m, Indexed)'
               PROVE  \/ Matched(m)'
                      \/ <<m, Indexed>> \in failures'
                      \/ \E v \in Workers : pc'[v] = "send" /\ task'[v] = m
    BY DEF Decided
  <2>1. CASE <<m, Indexed>> \in scanned
    <3>1. HasAsm(m, Indexed) /\ (Matched(m) => Matched(m)')
      BY <1>2, MatchedStays DEF HasAsm
    <3> QED BY <1>2, <2>1, <3>1 DEF DecidedInv, Decided
  <2>2. CASE <<m, Indexed>> = mv
    <3>1. m = task[w]
      BY <1>6, <2>2
    <3> QED BY <1>2, <3>1
  <2> QED BY <1>1, <2>1, <2>2
<1> QED BY <1>5, <1>7 DEF DecidedInv

\* A worker lets go of its module when the match or the failure is reported,
\* or there is nothing to report.
LEMMA DeliverKeepsDecided ==
  ASSUME IInv, DecidedInv, NEW w \in Workers, SendError(w) \/ SendResult(w) \/ SendNothing(w)
  PROVE  DecidedInv'
<1> USE DEF server, workers, results, history
<1>1. pc \in [Workers -> PCs] /\ task \in [Workers -> Modules]
  BY DEF IInv, PoolTypeOK
<1>2. /\ UNCHANGED <<hasAsm, answered, task, toComplete, outcome, scanned>>
      /\ pc' = [pc EXCEPT ![w] = Idle] /\ pc[w] = "send"
      /\ matched \subseteq matched' /\ failures \subseteq failures'
  BY DEF SendError, SendResult, SendNothing, Deliver
<1>3. \A v \in Workers : pc'[v] = "send" => pc[v] = "send"
  BY <1>1, <1>2 DEF Idle
<1>4. \A v \in Workers : Settled(v)'
  BY <1>2, <1>3 DEF DecidedInv, Settled, HasAsm, Named
<1>5. Settled(w)
  BY DEF DecidedInv
<1>6. \/ Matched(task[w])'
      \/ <<task[w], Indexed>> \in failures'
      \/ ~HasAsm(task[w], Indexed)
  <2>1. CASE SendError(w)
    BY <2>1 DEF SendError
  <2>2. CASE ~SendError(w) /\ HasAsm(task[w], Indexed)
    <3>1. outcome[w] # "error"
      BY <1>2, <2>2, ModulesAssumption DEF SendError, SendResult, SendNothing
    <3>2. PICK v \in Versions : Named(task[w], v) /\ (HasAsm(task[w], v) => outcome[w] = v)
      BY <1>2, <1>5, <2>2, <3>1 DEF Settled
    <3>3. HasAsm(task[w], v) => <<task[w], v>> \in matched'
      BY <2>2, <3>2, ModulesAssumption DEF SendResult, SendNothing
    <3> QED BY <1>2, <3>2, <3>3 DEF Matched, Named, HasAsm
  <2> QED BY <2>1, <2>2
<1>7. Decided'
  <2> SUFFICES ASSUME NEW m \in Modules, <<m, Indexed>> \in scanned', HasAsm(m, Indexed)'
               PROVE  \/ Matched(m)'
                      \/ <<m, Indexed>> \in failures'
                      \/ \E v \in Workers : pc'[v] = "send" /\ task'[v] = m
    BY DEF Decided
  <2>1. HasAsm(m, Indexed) /\ <<m, Indexed>> \in scanned
    BY <1>2 DEF HasAsm
  <2>2. CASE m = task[w]
    BY <1>2, <1>6, <2>1, <2>2
  <2>3. CASE m # task[w]
    <3>1. ASSUME NEW v \in Workers, pc[v] = "send", task[v] = m
          PROVE  pc'[v] = "send" /\ task'[v] = m
      BY <1>1, <1>2, <2>3, <3>1
    <3>2. Matched(m) => Matched(m)'
      BY <1>2, MatchedStays
    <3> QED BY <1>2, <2>1, <3>1, <3>2 DEF DecidedInv, Decided
  <2> QED BY <2>2, <2>3
<1> QED BY <1>4, <1>7 DEF DecidedInv

LEMMA DecidedStep == IInv /\ DecidedInv /\ [Next]_vars => DecidedInv'
<1> SUFFICES ASSUME IInv, DecidedInv, [Next]_vars PROVE DecidedInv'
  OBVIOUS
<1>1. ASSUME NEW w \in Workers, Worker(w) \/ Fault(w) PROVE DecidedInv'
  BY <1>1, AskingKeepsDecided, SendCompletedKeepsDecided, DeliverKeepsDecided DEF Worker, Fault
<1>2. CASE Feeder \/ Collector \/ (\E m \in Modules : Publish(m)) \/ UNCHANGED vars
  <2>1. UNCHANGED <<hasAsm, answered, pc, task, toComplete, outcome, scanned, matched, failures>>
    BY <1>2 DEF Feeder, Collector, CloseTasks, CloseOutputs, CollectorReturns, SeeClosed, Publish,
                vars, server, workers, results, history
  <2> QED BY <2>1 DEF DecidedInv, Settled, Decided, Matched, HasAsm, Named
<1>3. CASE NextRun
  <2>1. scanned' = {} /\ UNCHANGED <<task, toComplete>> /\ \A w \in Workers : pc'[w] # "send"
    BY <1>3 DEF NextRun, Idle
  <2> QED BY <2>1 DEF DecidedInv, Settled, Decided
<1> QED BY <1>1, <1>2, <1>3 DEF Next

\* The report of a run names, for every module whose indexed version has
\* assembly, the version @latest answered if that has assembly, unless a
\* request for the module failed or the run skipped it.
THEOREM MatchesAll == Spec => []MatchesComplete
<1>1. Spec => []DecidedInv
  BY DecidedInit, DecidedStep, Inductive, PTL DEF Spec
<1>2. IInv /\ DecidedInv => MatchesComplete
  <2> SUFFICES ASSUME IInv, DecidedInv, done, NEW m \in Modules,
                      <<m, Indexed>> \in (scanned \ failures) \cap hasAsm
               PROVE  Matched(m)
    BY DEF MatchesComplete, Matched, Named, HasAsm
  <2>1. feeder = "closed"
    BY DEF IInv, Shutdown, Channels
  <2>2. \A w \in Workers : pc[w] # "send"
    BY <2>1 DEF IInv, ClosedWhenQuiet
  <2> QED BY <2>2 DEF DecidedInv, Decided, HasAsm
<1> QED BY <1>1, <1>2, Inductive, PTL

=============================================================================
