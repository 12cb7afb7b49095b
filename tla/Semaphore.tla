------------------------------ MODULE Semaphore ------------------------------
(***************************************************************************)
(* A bucket of a distributed semaphore: the hosts of the matching service  *)
(* that serve it (service/matching/semaphore), its rows in the database,   *)
(* and the transfer tasks of the history service that acquire tokens for   *)
(* the holds of workflows.  An owner is one hold of one workflow.          *)
(*                                                                         *)
(* A host has at most one registered manager of the bucket.  Waiters are   *)
(* not queued yet and no token is ever released: both are TODOs of the     *)
(* code.                                                                   *)
(***************************************************************************)
EXTENDS BucketCache

CONSTANTS Host, Call, None,
          MaxManagers,         \* bound: managers created
          MaxGrantAttempts     \* maxGrantAttempts

ASSUME SemaphoreAssumption ==
  /\ MaxManagers \in Nat /\ MaxGrantAttempts \in Nat \ {0}
  /\ None \notin Host \cup Call

Manager == 1 .. MaxManagers

\* A hold that its workflow has released.
Gone == -1

VARIABLES holder,      \* the token rows: the holder of each token
          held,        \* the owner rows: the token of each owner
          rangeID,     \* the control row of the bucket's queue of waiters
          late,        \* grants whose callers have given up on them
          ring, changed,       \* the owner of the bucket; hosts with a membership event
          registry,    \* per host: its registered manager
          mgr,         \* the managers
          call,        \* the calls that the hosts are serving
          hold,        \* per owner: the token its workflow has recorded
          attempt      \* per owner: the call its transfer task is waiting for

dbVars == <<holder, held, rangeID, late>>
ringVars == <<ring, changed>>
historyVars == <<hold, attempt>>
vars == <<dbVars, ringVars, registry, mgr, call, historyVars>>

\* stop: how far Stop is.  done: startupDoneCh is closed.  unloading: it has
\* been unregistered by the membership loop, which is about to stop it.
NoManager ==
  [host |-> None, state |-> "none", stop |-> "no", done |-> FALSE,
   unloading |-> FALSE, rangeID |-> 0, cache |-> None]

NoCall == [pc |-> "idle", owner |-> None, host |-> None, m |-> 0, token |-> NoToken,
           tries |-> 0, outcome |-> "none"]

Init ==
  /\ holder = [t \in Tokens |-> NoRow]
  /\ held = [o \in Owner |-> NoToken]
  /\ rangeID = 0 /\ late = {}
  /\ ring \in Host /\ changed = {}
  /\ registry = [h \in Host |-> 0]
  /\ mgr = [m \in Manager |-> NoManager]
  /\ call = [c \in Call |-> NoCall]
  /\ hold = [o \in Owner |-> NoToken]
  /\ attempt = [o \in Owner |-> None]

-----------------------------------------------------------------------------
(* The database.                                                           *)

\* Mutant: only the token row is conditional.
GrantOutcomeToken(o, t) == IF holder[t] \in {NoRow, FreeToken} THEN "applied" ELSE "taken"

\* GrantSemaphoreToken: a batch of two conditional writes.
GrantOutcome(o, t) ==
  IF holder[t] \in {NoRow, FreeToken} /\ held[o] = NoToken THEN "applied"
  ELSE IF held[o] # NoToken THEN "held"
  ELSE "taken"

GrantSemaphoreToken(o, t) ==
  IF GrantOutcome(o, t) = "applied"
    THEN holder' = [holder EXCEPT ![t] = o] /\ held' = [held EXCEPT ![o] = t]
    ELSE UNCHANGED <<holder, held>>

\* A statement takes effect after its caller has stopped waiting for it.
DecideLate(g) ==
  /\ g \in late
  /\ late' = late \ {g}
  /\ GrantSemaphoreToken(g[1], g[2])
  /\ UNCHANGED <<rangeID, ringVars, registry, mgr, call, historyVars>>

-----------------------------------------------------------------------------
(* Calls.                                                                  *)

\* A call ends.  Its transfer task records the token (recordSemaphoreGranted),
\* and is retried if it got none.  Nothing happens if the task has given up.
Answer(c, t) ==
  /\ call' = [call EXCEPT ![c] = NoCall]
  /\ hold' = [o \in Owner |-> IF attempt[o] = c /\ t # NoToken THEN t ELSE hold[o]]
  /\ attempt' = [o \in Owner |-> IF attempt[o] = c THEN None ELSE attempt[o]]

Fail(c) == Answer(c, NoToken)

Goto(c, pc) ==
  /\ call' = [call EXCEPT ![c].pc = pc, ![c].token = NoToken, ![c].outcome = "none"]
  /\ UNCHANGED historyVars

\* The bucket lock is held across the calls of the database.
Locked(m) == \E c \in Call : call[c].m = m /\ call[c].pc \in {"confirm", "write", "record"}

GetOrCreate(c) ==
  /\ call[c].pc = "create"
  /\ LET h == call[c].host
         fresh == {m \in Manager : mgr[m].state = "none"}
         m == CHOOSE n \in fresh : TRUE
     IN \/ /\ registry[h] # 0
           /\ call' = [call EXCEPT ![c].pc = "start", ![c].m = registry[h]]
           /\ UNCHANGED <<registry, mgr>>
        \/ /\ registry[h] = 0 /\ fresh # {}
           /\ mgr' = [mgr EXCEPT ![m] = [@ EXCEPT !.host = h, !.state = "created"]]
           /\ registry' = [registry EXCEPT ![h] = m]
           /\ call' = [call EXCEPT ![c].pc = "start", ![c].m = m]
  /\ UNCHANGED <<dbVars, ringVars, historyVars>>

\* Start: the first caller loads.
Start(c) ==
  /\ call[c].pc = "start"
  /\ LET m == call[c].m IN
     \/ /\ mgr[m].state = "created"
        /\ mgr' = [mgr EXCEPT ![m].state = "starting"]
        /\ Goto(c, "claim")
     \/ mgr[m].state \in {"starting", "running"} /\ Goto(c, "await") /\ UNCHANGED mgr
     \/ mgr[m].state = "stopped" /\ Fail(c) /\ UNCHANGED mgr
  /\ UNCHANGED <<dbVars, ringVars, registry>>

-----------------------------------------------------------------------------
(* load.                                                                   *)

\* The first claim takes the bucket from any holder.
Claim(c) ==
  /\ call[c].pc = "claim"
  /\ rangeID' = rangeID + 1
  /\ mgr' = [mgr EXCEPT ![call[c].m].rangeID = rangeID']
  /\ Goto(c, "scan")
  /\ UNCHANGED <<holder, held, late, ringVars, registry>>

\* buildCache
BuildCache(c) ==
  /\ call[c].pc = "scan"
  /\ mgr' = [mgr EXCEPT ![call[c].m].cache = NewBucketCache(holder, held)]
  /\ Goto(c, "finish")
  /\ UNCHANGED <<dbVars, ringVars, registry>>

\* Mutant: a stop during the load is not noticed.
LoadedAlways(m) == [mgr[m] EXCEPT !.state = "running", !.done = TRUE]

Loaded(m) ==
  [mgr[m] EXCEPT !.state = IF @ = "stopped" THEN @ ELSE "running", !.done = TRUE]

FinishLoad(c) ==
  /\ call[c].pc = "finish"
  /\ LET m == call[c].m IN
     /\ mgr' = [mgr EXCEPT ![m] = Loaded(m)]
     /\ IF mgr'[m].state = "running" THEN Goto(c, "await") ELSE Fail(c)
  /\ UNCHANGED <<dbVars, ringVars, registry>>

\* A failed load stops the manager and waits for that.
Stopping(m) ==
  IF mgr[m].stop = "no" THEN [mgr[m] EXCEPT !.state = "stopped", !.stop = "begun"] ELSE mgr[m]

LoadFails(c) ==
  /\ call[c].pc \in {"claim", "scan"}
  /\ mgr' = [mgr EXCEPT ![call[c].m] = Stopping(call[c].m)]
  /\ Goto(c, "stopping")
  /\ \/ UNCHANGED rangeID
     \/ call[c].pc = "claim" /\ rangeID' = rangeID + 1
  /\ UNCHANGED <<holder, held, late, ringVars, registry>>

LoadFailed(c) ==
  /\ call[c].pc = "stopping" /\ mgr[call[c].m].stop = "done"
  /\ Fail(c)
  /\ UNCHANGED <<dbVars, ringVars, registry, mgr>>

-----------------------------------------------------------------------------
(* Acquire.                                                                *)

AwaitStartup(c) ==
  /\ call[c].pc = "await" /\ mgr[call[c].m].done
  /\ IF mgr[call[c].m].state = "running" THEN Goto(c, "find") ELSE Fail(c)
  /\ UNCHANGED <<dbVars, ringVars, registry, mgr>>

\* findHeldToken: what the cache has for the owner is confirmed.
FindHeldToken(c) ==
  /\ call[c].pc = "find" /\ ~Locked(call[c].m)
  /\ LET t == mgr[call[c].m].cache.tokenByOwner[call[c].owner]
     IN call' = [call EXCEPT ![c].pc = IF t = NoToken THEN "grant" ELSE "confirm", ![c].token = t]
  /\ UNCHANGED <<dbVars, ringVars, registry, mgr, historyVars>>

ConfirmToken(c) ==
  /\ call[c].pc = "confirm"
  /\ LET o == call[c].owner
         t == call[c].token
     IN /\ mgr' = [mgr EXCEPT ![call[c].m].cache = UpdateFromTokenRow(@, o, t, holder[t])]
        /\ IF holder[t] = o THEN Answer(c, t) ELSE Goto(c, "grant")
  /\ UNCHANGED <<dbVars, ringVars, registry>>

\* grantFreeToken, grantRandomFreeToken: NoSlot after too many tokens that were
\* taken, and if no token is free.
NoSlot(c) ==
  /\ call[c].pc = "grant"
  /\ \/ call[c].tries = MaxGrantAttempts
     \/ ~Locked(call[c].m) /\ FreeTokens(mgr[call[c].m].cache) = {}

AnswerNoSlot(c) == NoSlot(c) /\ Fail(c) /\ UNCHANGED <<dbVars, ringVars, registry, mgr>>

PickFreeToken(c) ==
  /\ call[c].pc = "grant" /\ ~Locked(call[c].m)
  /\ call[c].tries < MaxGrantAttempts
  /\ \E t \in FreeTokens(mgr[call[c].m].cache) :
       call' = [call EXCEPT ![c].pc = "write", ![c].token = t, ![c].tries = @ + 1]
  /\ UNCHANGED <<dbVars, ringVars, registry, mgr, historyVars>>

\* Mutant: the token of the answer is the one that was asked for.
AnsweredAsked(o, t) == t

\* The token that the answer of the database is about.
Answered(o, t) == IF GrantOutcome(o, t) = "held" THEN held[o] ELSE t

WriteGrant(c) ==
  /\ call[c].pc = "write"
  /\ LET o == call[c].owner
         t == call[c].token
     IN /\ GrantSemaphoreToken(o, t)
        /\ call' = [call EXCEPT ![c].pc = "record", ![c].outcome = GrantOutcome(o, t),
                                ![c].token = Answered(o, t)]
  /\ UNCHANGED <<rangeID, late, ringVars, registry, mgr, historyVars>>

RecordGrant(c) ==
  /\ call[c].pc = "record"
  /\ LET t == call[c].token IN
     /\ mgr' = [mgr EXCEPT ![call[c].m].cache = RecordGrantResult(@, call[c].owner, t, call[c].outcome)]
     /\ IF call[c].outcome = "taken" THEN Goto(c, "grant") ELSE Answer(c, t)
  /\ UNCHANGED <<dbVars, ringVars, registry>>

-----------------------------------------------------------------------------
(* What goes wrong with a call.                                            *)

\* The deadline of the call, which waits.
Timeout(c) ==
  /\ call[c].pc \in {"await", "find", "grant"}
  /\ Fail(c)
  /\ UNCHANGED <<dbVars, ringVars, registry, mgr>>

\* A statement fails, or its answer is lost: nothing is recorded.  A grant that
\* has not been applied may be later.
StatementFails(c) ==
  /\ call[c].pc \in {"confirm", "write", "record"}
  /\ Fail(c)
  /\ \/ UNCHANGED late
     \/ call[c].pc = "write" /\ late' = late \cup {<<call[c].owner, call[c].token>>}
  /\ UNCHANGED <<holder, held, rangeID, ringVars, registry, mgr>>

-----------------------------------------------------------------------------
(* Stop, and what calls it.                                                *)

BeginStop(m) ==
  /\ mgr[m].stop = "no"
  /\ mgr' = [mgr EXCEPT ![m] = Stopping(m)]
  /\ UNCHANGED <<dbVars, ringVars, registry, call, historyVars>>

\* No request has come for the idle time.
GoIdle(m) == mgr[m].state = "running" /\ BeginStop(m)

\* updateAckLevel is conditioned on the range ID; a failure is fatal, and
\* watchForStop stops the manager.
ClaimLost(m) == mgr[m].rangeID # rangeID

SaveAckLevel(m) == mgr[m].state = "running" /\ ClaimLost(m) /\ BeginStop(m)

UnloadStop(m) == mgr[m].unloading /\ BeginStop(m)

\* A manager that has replaced m stays.
Unregister(m) == [registry EXCEPT ![mgr[m].host] = IF @ = m THEN 0 ELSE @]

OnStop(m) ==
  /\ mgr[m].stop = "begun"
  /\ registry' = Unregister(m)
  /\ mgr' = [mgr EXCEPT ![m].stop = "unregistered"]
  /\ UNCHANGED <<dbVars, ringVars, call, historyVars>>

\* Mutant: a stop does not end the wait for the load.
EndStopSilent(m) ==
  /\ mgr[m].stop = "unregistered"
  /\ mgr' = [mgr EXCEPT ![m].stop = "done"]
  /\ UNCHANGED <<dbVars, ringVars, registry, call, historyVars>>

EndStop(m) ==
  /\ mgr[m].stop = "unregistered"
  /\ mgr' = [mgr EXCEPT ![m].stop = "done", ![m].done = TRUE]
  /\ UNCHANGED <<dbVars, ringVars, registry, call, historyVars>>

\* The ring moves the bucket; every host gets an event.
MoveBucket(h) ==
  /\ ring # h
  /\ ring' = h /\ changed' = Host
  /\ UNCHANGED <<dbVars, registry, mgr, call, historyVars>>

\* shutDownNonOwnedSemaphoreManagers
MembershipChange(h) ==
  /\ h \in changed
  /\ changed' = changed \ {h}
  /\ IF ring # h /\ registry[h] # 0
       THEN /\ registry' = [registry EXCEPT ![h] = 0]
            /\ mgr' = [mgr EXCEPT ![registry[h]].unloading = TRUE]
       ELSE UNCHANGED <<registry, mgr>>
  /\ UNCHANGED <<dbVars, ring, call, historyVars>>

\* A host dies, with its managers and calls.
Crash(h) ==
  LET ended == {c \in Call : call[c].pc # "idle" /\ call[c].host = h} IN
  /\ registry[h] # 0 \/ ended # {}
  /\ registry' = [registry EXCEPT ![h] = 0]
  /\ mgr' = [m \in Manager |->
       IF mgr[m].host = h
         THEN [mgr[m] EXCEPT !.state = "stopped", !.stop = "done", !.done = TRUE]
         ELSE mgr[m]]
  /\ call' = [c \in Call |-> IF c \in ended THEN NoCall ELSE call[c]]
  /\ attempt' = [o \in Owner |-> IF attempt[o] \in ended THEN None ELSE attempt[o]]
  /\ late' = late \cup {<<call[c].owner, call[c].token>> : c \in {d \in ended : call[d].pc = "write"}}
  /\ UNCHANGED <<holder, held, rangeID, ringVars, hold>>

-----------------------------------------------------------------------------
(* The history service: processAcquireSemaphore.                           *)

\* A waiting hold asks for its token, at the host that it believes to have the
\* bucket.  The workflow is locked until the answer.  getOrCreateSemaphoreManager
\* finds the registered manager, or has to create one; a host that is not the
\* owner of the bucket refuses, and the task is retried.
AskForToken(o, c, h) ==
  /\ hold[o] = NoToken /\ attempt[o] = None /\ call[c].pc = "idle"
  /\ registry[h] # 0 \/ ring = h
  /\ call' = [call EXCEPT ![c] = [@ EXCEPT
       !.pc = IF registry[h] # 0 THEN "start" ELSE "create",
       !.owner = o, !.host = h, !.m = registry[h]]]
  /\ attempt' = [attempt EXCEPT ![o] = c]
  /\ UNCHANGED <<dbVars, ringVars, registry, mgr, hold>>

\* The call takes too long for the task, or the update of the workflow fails.
GiveUp(o) ==
  /\ attempt[o] # None
  /\ attempt' = [attempt EXCEPT ![o] = None]
  /\ UNCHANGED <<dbVars, ringVars, registry, mgr, call, hold>>

\* AddSemaphoreReleasedEvent: the hold is gone.  The task that frees the token
\* in matching is retried for ever.
ReleaseHold(o) ==
  /\ hold[o] # Gone /\ attempt[o] = None
  /\ hold' = [hold EXCEPT ![o] = Gone]
  /\ UNCHANGED <<dbVars, ringVars, registry, mgr, call, attempt>>

-----------------------------------------------------------------------------
CallStep(c) ==
  \/ GetOrCreate(c) \/ Start(c) \/ Claim(c) \/ BuildCache(c) \/ FinishLoad(c) \/ LoadFailed(c)
  \/ AwaitStartup(c) \/ FindHeldToken(c) \/ ConfirmToken(c)
  \/ AnswerNoSlot(c) \/ PickFreeToken(c) \/ WriteGrant(c) \/ RecordGrant(c)

ManagerStep(m) ==
  \/ UnloadStop(m) \/ OnStop(m) \/ EndStop(m) \/ SaveAckLevel(m)

HistoryStep(o) == \E c \in Call, h \in Host : AskForToken(o, c, h)

Step ==
  \/ \E c \in Call : CallStep(c)
  \/ \E m \in Manager : ManagerStep(m)
  \/ \E h \in Host : MembershipChange(h)
  \/ \E o \in Owner : HistoryStep(o)
  \/ \E g \in late : DecideLate(g)

\* A call or a statement fails.
Fault ==
  \/ \E c \in Call : Timeout(c) \/ StatementFails(c) \/ LoadFails(c)
  \/ \E o \in Owner : GiveUp(o)

\* The bucket or its managers go.
Move ==
  \/ \E m \in Manager : GoIdle(m)
  \/ \E h \in Host : MoveBucket(h) \/ Crash(h)

Release == \E o \in Owner : ReleaseHold(o)

Next == Step \/ Fault \/ Move \/ Release

Spec == Init /\ [][Next]_vars

-----------------------------------------------------------------------------
Loading == {"claim", "scan", "finish"}
Serving == {"find", "confirm", "grant", "write", "record"}

CallRecord ==
  [pc : {"idle", "create", "start", "stopping", "await"} \cup Loading \cup Serving,
   owner : Owner \cup {None}, host : Host \cup {None}, m : Manager \cup {0},
   token : Tokens \cup {NoToken}, tries : 0 .. MaxGrantAttempts,
   outcome : {"none", "applied", "held", "taken"}]

ManagerRecord ==
  [host : Host \cup {None}, state : {"none", "created", "starting", "running", "stopped"},
   stop : {"no", "begun", "unregistered", "done"}, done : BOOLEAN, unloading : BOOLEAN,
   rangeID : Nat, cache : Caches \cup {None}]

\* The variables have the values the code can give them.
TypeOK ==
  /\ holder \in [Tokens -> Owner \cup {NoRow, FreeToken}]
  /\ held \in [Owner -> Tokens \cup {NoToken}]
  /\ rangeID \in Nat /\ late \subseteq Owner \X Tokens
  /\ ring \in Host /\ changed \subseteq Host
  /\ registry \in [Host -> Manager \cup {0}]
  /\ mgr \in [Manager -> ManagerRecord]
  /\ call \in [Call -> CallRecord]
  /\ hold \in [Owner -> Tokens \cup {NoToken, Gone}]
  /\ attempt \in [Owner -> Call \cup {None}]

\* The two kinds of rows say the same: an owner has one token and a token one
\* holder, whichever hosts write grants and however late they take effect.
RowsInverse == \A o \in Owner, t \in Tokens : held[o] = t <=> holder[t] = o

\* The token that a workflow has recorded for a hold is the one that the
\* database has given it.
HoldsBacked == \A o \in Owner : hold[o] \in Tokens => held[o] = hold[o]

\* A cache that is served from agrees with itself, and an owner that it gives a
\* token has that token in the database.
Backed(m) ==
  /\ mgr[m].cache \in Caches /\ Indexed(mgr[m].cache)
  /\ \A o \in Owner : mgr[m].cache.tokenByOwner[o] \in {NoToken, held[o]}

CacheBacked == \A m \in Manager : mgr[m].state = "running" => Backed(m)

\* A manager that serves has not begun to stop, and its host knows it, unless
\* the membership loop is about to stop it: a host never serves the bucket with
\* a manager that no event can reach.
ServesRegistered ==
  \A m \in Manager : mgr[m].state = "running" =>
    mgr[m].stop = "no" /\ (registry[mgr[m].host] = m \/ mgr[m].unloading)

\* A call that waits for a manager has someone to wake it: the call that loads
\* the manager, or a Stop on its way.
NobodyStranded ==
  \A c \in Call :
    /\ call[c].pc = "await" => LET m == call[c].m IN
         \/ mgr[m].done \/ mgr[m].stop \in {"begun", "unregistered"}
         \/ \E d \in Call : call[d].m = m /\ call[d].pc \in Loading
    /\ call[c].pc = "stopping" => mgr[call[c].m].stop # "no"

\* What the comment of grant says: an owner that holds a token is answered with
\* that token, however its earlier calls ended, and not that there is no slot.
HolderAnswered == \A c \in Call : NoSlot(c) => held[call[c].owner] = NoToken

-----------------------------------------------------------------------------
(* The inductive invariant.                                                *)

\* What a call has seen of the bucket is still so: tokens are not released.
CallBacked(c) ==
  /\ call[c].pc # "idle" => call[c].owner \in Owner /\ call[c].host \in Host
  /\ call[c].pc \notin {"idle", "create"} => call[c].m \in Manager
  /\ call[c].pc \in {"finish"} \cup Serving => Backed(call[c].m)
  /\ call[c].pc \in {"confirm", "write", "record"} => call[c].token \in Tokens
  /\ call[c].pc = "record" /\ call[c].outcome # "taken" => held[call[c].owner] = call[c].token

Agree ==
  /\ RowsInverse /\ HoldsBacked /\ CacheBacked
  /\ \A c \in Call : CallBacked(c)
  /\ \A o \in Owner : attempt[o] # None =>
       call[attempt[o]].pc # "idle" /\ call[attempt[o]].owner = o

\* A manager that starts is loaded by one call; one that has not begun to stop is
\* registered, or about to be stopped.
ManagerServes(m) ==
  /\ mgr[m].state \in {"created", "starting", "running"} =>
       mgr[m].host \in Host /\ mgr[m].stop = "no" /\ (registry[mgr[m].host] = m \/ mgr[m].unloading)
  /\ mgr[m].state = "none" => mgr[m].stop = "no" /\ ~mgr[m].unloading
  /\ mgr[m].state = "starting" => \E d \in Call : call[d].m = m /\ call[d].pc \in Loading
  /\ mgr[m].state = "running" => mgr[m].done
  /\ mgr[m].state = "stopped" => mgr[m].stop # "no"
  /\ mgr[m].stop = "done" => mgr[m].done

CallServed(c) ==
  /\ call[c].pc \notin {"idle", "create"} =>
       call[c].m \in Manager /\ mgr[call[c].m].state # "none" /\ mgr[call[c].m].host = call[c].host
  /\ call[c].pc \in Loading =>
       /\ mgr[call[c].m].state \in {"starting", "stopped"}
       /\ \A d \in Call : call[d].pc \in Loading /\ call[d].m = call[c].m => d = c
  /\ call[c].pc = "await" => mgr[call[c].m].state # "created"
  /\ call[c].pc = "stopping" => mgr[call[c].m].stop # "no"

Served ==
  /\ \A m \in Manager : ManagerServes(m)
  /\ \A c \in Call : CallServed(c)
  /\ \A h \in Host : registry[h] # 0 =>
       mgr[registry[h]].host = h /\ mgr[registry[h]].state # "none"
=============================================================================
