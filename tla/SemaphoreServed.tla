--------------------------- MODULE SemaphoreServed ---------------------------
(***************************************************************************)
(* A manager of Semaphore that serves can be stopped, and a call that      *)
(* waits for a manager is woken; then the theorems, from the invariant     *)
(* that combines this with SemaphoreProofs.                                *)
(***************************************************************************)
EXTENDS SemaphoreProofs

\* The prover of a leaf that names none.
USE ZenonT(60)

\* What a step on caches and range IDs leaves alone.
SameManagers ==
  \A n \in Manager :
    /\ mgr'[n].host = mgr[n].host /\ mgr'[n].state = mgr[n].state /\ mgr'[n].stop = mgr[n].stop
    /\ mgr'[n].done = mgr[n].done /\ mgr'[n].unloading = mgr[n].unloading

Registered ==
  \A h \in Host : registry[h] # 0 =>
    mgr[registry[h]].host = h /\ mgr[registry[h]].state # "none"

\* A call that does not load goes on, or ends, and no manager changes.
LEMMA CallMoves ==
  ASSUME TypeOK, Served, NEW c \in Call, SameManagers, registry' = registry,
         call[c].pc \notin Loading, call'[c].pc \notin Loading \cup {"stopping"},
         \A d \in Call \ {c} : call'[d] = call[d],
         call'[c].pc \notin {"idle", "create"} =>
           /\ call'[c].m \in Manager /\ mgr[call'[c].m].state # "none"
           /\ mgr[call'[c].m].host = call'[c].host,
         call'[c].pc = "await" => mgr[call'[c].m].state # "created"
  PROVE  Served'
<1>1. ASSUME NEW m \in Manager PROVE ManagerServes(m)'
  <2>1. mgr[m].state = "starting" => \E d \in Call : call'[d].m = m /\ call'[d].pc \in Loading
    BY SMTT(30) DEF Served, ManagerServes
  <2> QED BY SMTT(30), <2>1 DEF Served, ManagerServes, SameManagers
<1>2. ASSUME NEW d \in Call PROVE CallServed(d)'
  <2>1. CASE d = c
    BY <2>1 DEF CallServed, SameManagers
  <2>2. CASE d # c
    <3>1. CallServed(d) /\ call'[d] = call[d]
      BY <2>2 DEF Served
    <3>2. call[d].pc \notin {"idle", "create"} => call[d].m \in Manager
      BY <3>1 DEF CallServed
    <3> QED BY SMTT(30), <3>1, <3>2 DEF CallServed, SameManagers, Loading
  <2> QED BY <2>1, <2>2
<1>3. Registered'
  BY SMTT(30) DEF Served, Registered, SameManagers, TypeOK
<1> QED BY <1>1, <1>2, <1>3 DEF Served, Registered

\* A manager that a step leaves as it is, and registered if it was.
LEMMA OtherManager ==
  ASSUME Served, NEW n \in Manager, mgr'[n] = mgr[n],
         mgr[n].host \in Host /\ registry[mgr[n].host] = n => registry'[mgr[n].host] = n,
         mgr[n].state = "starting" => \E d \in Call : call'[d].m = n /\ call'[d].pc \in Loading
  PROVE  ManagerServes(n)'
<1>1. ManagerServes(n)
  BY DEF Served
<1> QED BY SMTT(30), <1>1 DEF ManagerServes

\* No step but the one that makes a manager registers one.
LEMMA OthersRegistered ==
  ASSUME TypeOK, Served, NEW m \in Manager, mgr'[m].host = mgr[m].host, mgr'[m].state # "none",
         \A n \in Manager \ {m} : mgr'[n] = mgr[n],
         \A h \in Host : registry'[h] = registry[h] \/ registry'[h] = 0
  PROVE  Registered'
<1> SUFFICES ASSUME NEW h \in Host, registry'[h] # 0
             PROVE  mgr'[registry'[h]].host = h /\ mgr'[registry'[h]].state # "none"
  BY DEF Registered
<1>1. registry'[h] = registry[h] /\ registry[h] # 0
  OBVIOUS
<1>2. /\ registry[h] \in Manager /\ mgr[registry[h]].host = h
      /\ mgr[registry[h]].state # "none"
  BY <1>1 DEF TypeOK, Served
<1>3. CASE registry[h] = m
  BY <1>1, <1>2, <1>3
<1>4. CASE registry[h] # m
  BY <1>1, <1>2, <1>4
<1> QED BY <1>3, <1>4

\* A step that leaves the managers alone.
LEMMA NoManagerMoves ==
  ASSUME TypeOK, mgr' = mgr
  PROVE  SameManagers
BY DEF SameManagers

\* A change of a cache or of a range ID.
LEMMA CacheMoves ==
  ASSUME TypeOK, NEW k, NEW v,
         mgr' = [mgr EXCEPT ![k].cache = v] \/ mgr' = [mgr EXCEPT ![k].rangeID = v]
  PROVE  SameManagers
<1> SUFFICES ASSUME NEW n \in Manager
             PROVE  /\ mgr'[n].host = mgr[n].host /\ mgr'[n].state = mgr[n].state
                    /\ mgr'[n].stop = mgr[n].stop /\ mgr'[n].done = mgr[n].done
                    /\ mgr'[n].unloading = mgr[n].unloading
  BY DEF SameManagers
<1>1. mgr[n] \in ManagerRecord
  BY DEF TypeOK
<1>2. \/ mgr'[n] = mgr[n]
      \/ mgr'[n] = [mgr[n] EXCEPT !.cache = v]
      \/ mgr'[n] = [mgr[n] EXCEPT !.rangeID = v]
  BY SMTT(30) DEF TypeOK
<1> QED BY <1>1, <1>2 DEF ManagerRecord

\* A call ends that neither loads nor stops a manager.
LEMMA CallEnds ==
  ASSUME TypeOK, Served, NEW c \in Call, SameManagers, registry' = registry,
         call[c].pc \notin Loading, NEW t, Answer(c, t)
  PROVE  Served'
<1>1. call'[c].pc = "idle" /\ \A d \in Call \ {c} : call'[d] = call[d]
  BY DEF Answer, NoCall, TypeOK
<1> QED BY <1>1, CallMoves DEF Loading

\* A call goes on with its manager.
LEMMA CallGoesOn ==
  ASSUME TypeOK, Served, NEW c \in Call, SameManagers, registry' = registry,
         call[c].pc \notin Loading \cup {"idle", "create"},
         \A d \in Call \ {c} : call'[d] = call[d],
         call'[c].pc \in Serving, call'[c].m = call[c].m, call'[c].host = call[c].host
  PROVE  Served'
<1>1. /\ call'[c].m \in Manager /\ mgr[call'[c].m].state # "none"
      /\ mgr[call'[c].m].host = call'[c].host
  BY DEF Served, CallServed
<1>2. call'[c].pc \notin Loading \cup {"stopping", "idle", "create", "await"}
  BY DEF Serving, Loading
<1> QED BY <1>1, <1>2, CallMoves

\* What Goto leaves alone.
LEMMA GotoFields ==
  ASSUME TypeOK, NEW c \in Call, NEW pc, Goto(c, pc)
  PROVE  /\ \A d \in Call \ {c} : call'[d] = call[d]
         /\ call'[c].pc = pc /\ call'[c].m = call[c].m /\ call'[c].host = call[c].host
<1>1. call[c] \in CallRecord
  BY CallTyped
<1>2. call'[c] = [call[c] EXCEPT !.pc = pc, !.token = NoToken, !.outcome = "none"]
  BY DEF Goto, TypeOK
<1>3. \A d \in Call \ {c} : call'[d] = call[d]
  BY DEF Goto, TypeOK
<1> QED BY <1>1, <1>2, <1>3 DEF CallRecord

\* The call that loads a manager goes on with that.
LEMMA LoaderGoesOn ==
  ASSUME TypeOK, Served, NEW c \in Call, SameManagers, registry' = registry,
         call[c].pc \in Loading, NEW pc \in Loading, Goto(c, pc)
  PROVE  Served'
<1>0. /\ \A d \in Call \ {c} : call'[d] = call[d]
      /\ call'[c].pc = pc /\ call'[c].m = call[c].m /\ call'[c].host = call[c].host
  BY GotoFields
<1>1. ASSUME NEW m \in Manager PROVE ManagerServes(m)'
  <2>1. mgr[m].state = "starting" => \E d \in Call : call'[d].m = m /\ call'[d].pc \in Loading
    <3>1. SUFFICES ASSUME mgr[m].state = "starting"
                   PROVE  \E d \in Call : call'[d].m = m /\ call'[d].pc \in Loading
      OBVIOUS
    <3>2. PICK d \in Call : call[d].m = m /\ call[d].pc \in Loading
      BY <3>1 DEF Served, ManagerServes
    <3>3. call'[d].m = m /\ call'[d].pc \in Loading
      BY <1>0, <3>2
    <3> QED BY <3>3
  <2> QED BY SMTT(30), <2>1 DEF Served, ManagerServes, SameManagers
<1>2. \A d, e \in Call : call'[d].pc \in Loading /\ call'[e].pc \in Loading /\ call'[e].m = call'[d].m => e = d
  <2>1. \A d \in Call : call'[d].pc \in Loading => call[d].pc \in Loading /\ call'[d].m = call[d].m
    BY <1>0
  <2> QED BY <2>1 DEF Served, CallServed
<1>3. ASSUME NEW d \in Call PROVE CallServed(d)'
  <2>1. CallServed(d) /\ call'[d].m = call[d].m /\ call'[d].host = call[d].host
    BY <1>0 DEF Served
  <2>2. call[d].pc = call'[d].pc \/ (call[d].pc \in Loading /\ call'[d].pc \in Loading)
    BY <1>0
  <2>3. call[d].pc \notin {"idle", "create"} => call[d].m \in Manager
    BY <2>1 DEF CallServed
  <2> QED BY SMTT(30), <1>2, <2>1, <2>2, <2>3 DEF CallServed, SameManagers, Loading
<1>4. Registered'
  BY SMTT(30) DEF Served, Registered, SameManagers, TypeOK
<1> QED BY <1>1, <1>3, <1>4 DEF Served, Registered

\* Managers stop, or go on stopping, and no call moves.
LEMMA ManagersMove ==
  ASSUME TypeOK, Served, call' = call,
         \A n \in Manager :
           /\ mgr'[n].host = mgr[n].host
           /\ mgr'[n].state = mgr[n].state \/ (mgr[n].state # "none" /\ mgr'[n].state = "stopped")
           /\ mgr[n].stop # "no" => mgr'[n].stop # "no"
  PROVE  \A c \in Call : CallServed(c)'
BY SMTT(30) DEF Served, CallServed, Loading

\* A manager begins to stop.
LEMMA StopBegins ==
  ASSUME TypeOK, Served, NEW m \in Manager, BeginStop(m), mgr[m].state # "none"
  PROVE  Served'
<1>0. mgr[m] \in ManagerRecord
  BY DEF TypeOK
<1>1. mgr' = [mgr EXCEPT ![m] = [mgr[m] EXCEPT !.state = "stopped", !.stop = "begun"]]
  BY DEF BeginStop, Stopping
<1>2. /\ mgr'[m].host = mgr[m].host /\ mgr'[m].state = "stopped" /\ mgr'[m].stop = "begun"
      /\ mgr'[m].done = mgr[m].done /\ mgr'[m].unloading = mgr[m].unloading
  BY <1>0, <1>1 DEF TypeOK, ManagerRecord
<1>3. \A n \in Manager \ {m} : mgr'[n] = mgr[n]
  BY <1>1 DEF TypeOK
<1>4. call' = call /\ registry' = registry
  BY DEF BeginStop
<1>5. ASSUME NEW n \in Manager PROVE ManagerServes(n)'
  <2>1. CASE n = m
    BY <1>2, <2>1 DEF ManagerServes
  <2>2. CASE n # m
    <3>1. mgr[n].state = "starting" => \E d \in Call : call[d].m = n /\ call[d].pc \in Loading
      BY DEF Served, ManagerServes
    <3> QED BY <1>3, <1>4, <2>2, <3>1, OtherManager
  <2> QED BY <2>1, <2>2
<1>6. \A c \in Call : CallServed(c)'
  BY <1>2, <1>3, <1>4, ManagersMove
<1>7. Registered'
  <2>1. mgr'[m].state # "none"
    BY <1>2
  <2> QED BY <1>2, <1>3, <1>4, <2>1, OthersRegistered
<1> QED BY <1>5, <1>6, <1>7 DEF Served, Registered

\* A manager that begins to stop is unregistered.
LEMMA OnStopServed ==
  ASSUME TypeOK, Served, NEW m \in Manager, OnStop(m)
  PROVE  Served'
<1>0. mgr[m] \in ManagerRecord
  BY DEF TypeOK
<1>1. mgr' = [mgr EXCEPT ![m].stop = "unregistered"]
  BY DEF OnStop
<1>2. /\ mgr'[m].host = mgr[m].host /\ mgr'[m].state = mgr[m].state /\ mgr'[m].stop = "unregistered"
      /\ mgr'[m].done = mgr[m].done /\ mgr'[m].unloading = mgr[m].unloading
  BY <1>0, <1>1 DEF TypeOK, ManagerRecord
<1>3. \A n \in Manager \ {m} : mgr'[n] = mgr[n]
  BY <1>1 DEF TypeOK
<1>4. call' = call /\ \A h \in Host : registry'[h] = registry[h] \/ (registry[h] = m /\ registry'[h] = 0)
  BY DEF OnStop, Unregister, TypeOK
<1>s. mgr[m].state = "stopped"
  BY DEF OnStop, Served, ManagerServes, TypeOK, ManagerRecord
<1>5. ASSUME NEW n \in Manager PROVE ManagerServes(n)'
  <2>1. CASE n = m
    BY <1>2, <1>s, <2>1 DEF ManagerServes
  <2>2. CASE n # m
    <3>1. mgr[n].host \in Host /\ registry[mgr[n].host] = n => registry'[mgr[n].host] = n
      BY <1>4, <2>2
    <3>2. mgr[n].state = "starting" => \E d \in Call : call[d].m = n /\ call[d].pc \in Loading
      BY DEF Served, ManagerServes
    <3> QED BY <1>3, <1>4, <2>2, <3>1, <3>2, OtherManager
  <2> QED BY <2>1, <2>2
<1>6. \A c \in Call : CallServed(c)'
  BY <1>2, <1>3, <1>4, ManagersMove
<1>7. Registered'
  <2>1. mgr'[m].state # "none"
    BY <1>2, <1>s
  <2> QED BY <1>2, <1>3, <1>4, <2>1, OthersRegistered
<1> QED BY <1>5, <1>6, <1>7 DEF Served, Registered

\* Stop ends the wait for the load.
LEMMA EndStopServed ==
  ASSUME TypeOK, Served, NEW m \in Manager, EndStop(m)
  PROVE  Served'
<1>0. mgr[m] \in ManagerRecord
  BY DEF TypeOK
<1>1. mgr' = [mgr EXCEPT ![m].stop = "done", ![m].done = TRUE]
  BY DEF EndStop
<1>2. /\ mgr'[m].host = mgr[m].host /\ mgr'[m].state = mgr[m].state /\ mgr'[m].stop = "done"
      /\ mgr'[m].done = TRUE /\ mgr'[m].unloading = mgr[m].unloading
  BY <1>0, <1>1 DEF TypeOK, ManagerRecord
<1>3. \A n \in Manager \ {m} : mgr'[n] = mgr[n]
  BY <1>1 DEF TypeOK
<1>4. call' = call /\ registry' = registry
  BY DEF EndStop
<1>s. mgr[m].state = "stopped"
  BY DEF EndStop, Served, ManagerServes, TypeOK, ManagerRecord
<1>5. ASSUME NEW n \in Manager PROVE ManagerServes(n)'
  <2>1. CASE n = m
    BY <1>2, <1>s, <2>1 DEF ManagerServes
  <2>2. CASE n # m
    <3>1. mgr[n].state = "starting" => \E d \in Call : call[d].m = n /\ call[d].pc \in Loading
      BY DEF Served, ManagerServes
    <3> QED BY <1>3, <1>4, <2>2, <3>1, OtherManager
  <2> QED BY <2>1, <2>2
<1>6. \A c \in Call : CallServed(c)'
  BY <1>2, <1>3, <1>4, ManagersMove
<1>7. Registered'
  <2>1. mgr'[m].state # "none"
    BY <1>2, <1>s
  <2> QED BY <1>2, <1>3, <1>4, <2>1, OthersRegistered
<1> QED BY <1>5, <1>6, <1>7 DEF Served, Registered

\* A host that has lost the bucket unregisters its manager, which is stopped next.
LEMMA MembershipServed ==
  ASSUME TypeOK, Served, NEW h \in Host, MembershipChange(h)
  PROVE  Served'
<1>1. CASE ring # h /\ registry[h] # 0
  <2> DEFINE m == registry[h]
  <2>1. m \in Manager /\ mgr[m] \in ManagerRecord /\ mgr[m].state # "none" /\ mgr[m].host = h
    BY <1>1 DEF TypeOK, Served
  <2>2. mgr' = [mgr EXCEPT ![m].unloading = TRUE] /\ registry' = [registry EXCEPT ![h] = 0] /\ call' = call
    BY <1>1 DEF MembershipChange
  <2> HIDE DEF m
  <2>3. /\ mgr'[m].host = mgr[m].host /\ mgr'[m].state = mgr[m].state /\ mgr'[m].stop = mgr[m].stop
        /\ mgr'[m].done = mgr[m].done /\ mgr'[m].unloading = TRUE
    BY <2>1, <2>2 DEF TypeOK, ManagerRecord
  <2>4. \A n \in Manager \ {m} : mgr'[n] = mgr[n]
    BY <2>2 DEF TypeOK
  <2>5. \A g \in Host : registry'[g] = IF g = h THEN 0 ELSE registry[g]
    BY <2>2 DEF TypeOK
  <2>6. ASSUME NEW n \in Manager PROVE ManagerServes(n)'
    <3>1. CASE n = m
      <4>1. ManagerServes(m)
        BY <2>1 DEF Served
      <4>2. mgr'[n].unloading /\ call' = call
        BY <2>2, <2>3, <3>1
      <4> QED BY <2>1, <2>3, <3>1, <4>1, <4>2 DEF ManagerServes
    <3>2. CASE n # m
      <4>1. mgr[n].host \in Host /\ registry[mgr[n].host] = n => registry'[mgr[n].host] = n
        BY <2>5, <3>2 DEF m
      <4>2. mgr[n].state = "starting" => \E d \in Call : call[d].m = n /\ call[d].pc \in Loading
        BY DEF Served, ManagerServes
      <4> QED BY <2>2, <2>4, <3>2, <4>1, <4>2, OtherManager
    <3> QED BY <3>1, <3>2
  <2>7. \A c \in Call : CallServed(c)'
    BY <2>2, <2>3, <2>4, ManagersMove
  <2>8. Registered'
    BY <2>1, <2>3, <2>4, <2>5, OthersRegistered
  <2> QED BY <2>6, <2>7, <2>8 DEF Served, Registered
<1>2. CASE ~(ring # h /\ registry[h] # 0)
  BY SMTT(30), <1>2 DEF MembershipChange, Served, ManagerServes, CallServed
<1> QED BY <1>1, <1>2

\* A host dies.
LEMMA CrashServed ==
  ASSUME TypeOK, Agree, Served, NEW h \in Host, Crash(h)
  PROVE  Served'
<1> DEFINE ended == {c \in Call : call[c].pc # "idle" /\ call[c].host = h}
<1>1. \A d \in Call : call'[d] = IF d \in ended THEN NoCall ELSE call[d]
  BY DEF Crash
<1>2. \A g \in Host : registry'[g] = IF g = h THEN 0 ELSE registry[g]
  BY DEF Crash, TypeOK
<1>3. ASSUME NEW n \in Manager, mgr[n].host = h
      PROVE  mgr'[n].host = h /\ mgr'[n].state = "stopped" /\ mgr'[n].stop = "done" /\ mgr'[n].done = TRUE
  <2>1. mgr[n] \in ManagerRecord
    BY DEF TypeOK
  <2>2. mgr'[n] = [mgr[n] EXCEPT !.state = "stopped", !.stop = "done", !.done = TRUE]
    BY <1>3 DEF Crash
  <2> QED BY <1>3, <2>1, <2>2 DEF ManagerRecord
<1>4. \A n \in Manager : mgr[n].host # h => mgr'[n] = mgr[n]
  BY DEF Crash
<1> HIDE DEF ended
<1>5. ASSUME NEW n \in Manager PROVE ManagerServes(n)'
  <2>1. CASE mgr[n].host = h
    BY <1>3, <2>1 DEF ManagerServes
  <2>2. CASE mgr[n].host # h
    <3>1. mgr[n].host \in Host /\ registry[mgr[n].host] = n => registry'[mgr[n].host] = n
      BY <1>2, <2>2
    <3>2. mgr[n].state = "starting" => \E d \in Call : call'[d].m = n /\ call'[d].pc \in Loading
      <4>1. SUFFICES ASSUME mgr[n].state = "starting"
                     PROVE  \E d \in Call : call'[d].m = n /\ call'[d].pc \in Loading
        OBVIOUS
      <4>2. PICK d \in Call : call[d].m = n /\ call[d].pc \in Loading
        BY <4>1 DEF Served, ManagerServes
      <4>3. call[d].host = mgr[n].host
        BY <4>2 DEF Served, CallServed, Loading
      <4>4. call'[d] = call[d]
        BY <1>1, <2>2, <4>3 DEF ended
      <4> QED BY <4>2, <4>4
    <3> QED BY <1>4, <2>2, <3>1, <3>2, OtherManager
  <2> QED BY <2>1, <2>2
<1>6. ASSUME NEW c \in Call PROVE CallServed(c)'
  <2>1. CASE c \in ended
    BY SMTT(30), <1>1, <2>1 DEF CallServed, NoCall, Loading
  <2>2. CASE c \notin ended
    <3>1. CallServed(c) /\ call'[c] = call[c]
      BY <1>1, <2>2 DEF Served
    <3>2. CASE call[c].pc \in {"idle", "create"}
      BY <3>1, <3>2 DEF CallServed, Loading
    <3>3. CASE call[c].pc \notin {"idle", "create"}
      <4>1. call[c].m \in Manager /\ mgr[call[c].m].host # h
        BY <2>2, <3>1, <3>3 DEF CallServed, ended
      <4>2. mgr'[call[c].m] = mgr[call[c].m]
        BY <1>4, <4>1
      <4>3. \A d \in Call : call'[d].pc \in Loading => call'[d] = call[d]
        BY SMTT(30), <1>1 DEF NoCall, Loading
      <4> QED BY <3>1, <4>1, <4>2, <4>3 DEF CallServed
    <3> QED BY <3>2, <3>3
  <2> QED BY <2>1, <2>2
<1>7. Registered'
  BY SMTT(30), <1>2, <1>4 DEF Served, Registered, TypeOK
<1> QED BY <1>5, <1>6, <1>7 DEF Served, Registered

\* A call finds the registered manager or makes one.
LEMMA CreateServed ==
  ASSUME TypeOK, Agree, Served, NEW c \in Call, GetOrCreate(c)
  PROVE  Served'
<1> DEFINE h == call[c].host
           fresh == {k \in Manager : mgr[k].state = "none"}
<1>1. call[c] \in CallRecord /\ call[c].pc = "create" /\ h \in Host
  BY CallTyped DEF GetOrCreate, Agree, CallBacked
<1>2. CASE registry[h] # 0
  <2>1. call' = [call EXCEPT ![c].pc = "start", ![c].m = registry[h]] /\ mgr' = mgr /\ registry' = registry
    BY <1>2 DEF GetOrCreate
  <2>2. /\ call'[c].pc = "start" /\ call'[c].m = registry[h] /\ call'[c].host = h
        /\ \A d \in Call \ {c} : call'[d] = call[d]
    BY <1>1, <2>1 DEF TypeOK, CallRecord
  <2>3. registry[h] \in Manager /\ mgr[registry[h]].state # "none" /\ mgr[registry[h]].host = h
    BY <1>1, <1>2 DEF Served, TypeOK
  <2> HIDE DEF h
  <2>4. call[c].pc \notin Loading /\ call'[c].pc \notin Loading \cup {"stopping"}
    BY <1>1, <2>2 DEF Loading
  <2> QED BY <2>1, <2>2, <2>3, <2>4, NoManagerMoves, CallMoves
<1>3. CASE registry[h] = 0
  <2>1. PICK m \in fresh :
          /\ mgr' = [mgr EXCEPT ![m] = [@ EXCEPT !.host = h, !.state = "created"]]
          /\ registry' = [registry EXCEPT ![h] = m]
          /\ call' = [call EXCEPT ![c].pc = "start", ![c].m = m]
    BY <1>3 DEF GetOrCreate
  <2>2. m \in Manager /\ mgr[m] \in ManagerRecord /\ mgr[m].state = "none"
    BY <2>1 DEF TypeOK
  <2> HIDE DEF h, fresh
  <2>3. /\ mgr'[m].host = h /\ mgr'[m].state = "created" /\ mgr'[m].stop = mgr[m].stop
        /\ mgr'[m].done = mgr[m].done /\ mgr'[m].unloading = mgr[m].unloading
    BY <2>1, <2>2 DEF TypeOK, ManagerRecord
  <2>4. \A n \in Manager \ {m} : mgr'[n] = mgr[n]
    BY <2>1 DEF TypeOK
  <2>5. \A g \in Host : registry'[g] = IF g = h THEN m ELSE registry[g]
    BY <2>1 DEF TypeOK
  <2>6. /\ call'[c].pc = "start" /\ call'[c].m = m /\ call'[c].host = h
        /\ \A d \in Call \ {c} : call'[d] = call[d]
    BY <1>1, <2>1 DEF TypeOK, CallRecord, h
  <2>7. \A d \in Call : call[d].pc \in Loading => d # c
    BY <1>1 DEF Loading
  <2>8. ASSUME NEW n \in Manager PROVE ManagerServes(n)'
    <3>1. CASE n = m
      BY <1>1, <2>2, <2>3, <2>5, <3>1 DEF Served, ManagerServes
    <3>2. CASE n # m
      <4>1. mgr[n].host \in Host /\ registry[mgr[n].host] = n => registry'[mgr[n].host] = n
        <5>1. registry[h] # n
          BY SMTT(30), <1>3, SemaphoreAssumption DEF Manager
        <5> QED BY <2>5, <5>1
      <4>2. mgr[n].state = "starting" => \E d \in Call : call'[d].m = n /\ call'[d].pc \in Loading
        BY SMTT(30), <2>6, <2>7 DEF Served, ManagerServes
      <4> QED BY <2>4, <3>2, <4>1, <4>2, OtherManager
    <3> QED BY <3>1, <3>2
  <2>9. ASSUME NEW d \in Call PROVE CallServed(d)'
    <3>1. CASE d = c
      BY <2>2, <2>3, <2>6, <3>1 DEF CallServed, Loading
    <3>2. CASE d # c
      <4>1. CallServed(d) /\ call'[d] = call[d]
        BY <2>6, <3>2 DEF Served
      <4>2. CASE call[d].pc \in {"idle", "create"}
        BY <4>1, <4>2 DEF CallServed, Loading
      <4>3. CASE call[d].pc \notin {"idle", "create"}
        <5>1. call[d].m \in Manager \ {m}
          BY <2>2, <4>1, <4>3 DEF CallServed
        <5>2. mgr'[call[d].m] = mgr[call[d].m]
          BY <2>4, <5>1
        <5>3. \A e \in Call : call'[e].pc \in Loading => call'[e] = call[e]
          BY <2>6 DEF Loading
        <5> QED BY <4>1, <5>1, <5>2, <5>3 DEF CallServed
      <4> QED BY <4>2, <4>3
    <3> QED BY <3>1, <3>2
  <2>10. Registered'
    BY SMTT(30), <2>2, <2>3, <2>4, <2>5 DEF Served, Registered, TypeOK
  <2> QED BY <2>8, <2>9, <2>10 DEF Served, Registered
<1> QED BY <1>2, <1>3

\* The first caller of Start loads the manager.
LEMMA StartServed ==
  ASSUME TypeOK, Served, NEW c \in Call, Start(c)
  PROVE  Served'
<1>0. PICK m \in Manager : m = call[c].m
  BY DEF Start, Served, CallServed
<1>1. /\ call[c].pc = "start" /\ mgr[m].host = call[c].host /\ mgr[m].state # "none"
      /\ mgr[m] \in ManagerRecord /\ registry' = registry /\ call[c].pc \notin Loading
  BY <1>0 DEF Start, Served, CallServed, TypeOK, Loading
<1>2. CASE mgr[m].state = "created"
  <2>1. mgr' = [mgr EXCEPT ![m].state = "starting"] /\ Goto(c, "claim")
    BY <1>0, <1>2 DEF Start
  <2>2. /\ mgr'[m].host = mgr[m].host /\ mgr'[m].state = "starting" /\ mgr'[m].stop = mgr[m].stop
        /\ mgr'[m].done = mgr[m].done /\ mgr'[m].unloading = mgr[m].unloading
    BY <1>1, <2>1 DEF TypeOK, ManagerRecord
  <2>3. \A n \in Manager \ {m} : mgr'[n] = mgr[n]
    BY <2>1 DEF TypeOK
  <2>4. /\ \A d \in Call \ {c} : call'[d] = call[d]
        /\ call'[c].pc = "claim" /\ call'[c].m = m /\ call'[c].host = call[c].host
    BY <1>0, <2>1, GotoFields
  <2>5. \A d \in Call : call[d].pc \in Loading => call[d].m # m
    BY <1>2 DEF Served, CallServed
  <2>6. ASSUME NEW n \in Manager PROVE ManagerServes(n)'
    <3>1. CASE n = m
      <4>1. \E d \in Call : call'[d].m = m /\ call'[d].pc \in Loading
        BY <2>4 DEF Loading
      <4> QED BY <1>1, <1>2, <2>2, <3>1, <4>1 DEF Served, ManagerServes
    <3>2. CASE n # m
      <4>1. mgr[n].state = "starting" => \E d \in Call : call'[d].m = n /\ call'[d].pc \in Loading
        BY SMTT(30), <1>1, <2>4 DEF Served, ManagerServes
      <4> QED BY <1>1, <2>3, <3>2, <4>1, OtherManager
    <3> QED BY <3>1, <3>2
  <2>7. ASSUME NEW d \in Call PROVE CallServed(d)'
    <3>1. \A e \in Call : call'[e].pc \in Loading => e = c \/ call'[e] = call[e]
      BY <2>4
    <3>2. CASE d = c
      BY <1>1, <2>2, <2>4, <2>5, <3>1, <3>2 DEF CallServed, Loading
    <3>3. CASE d # c
      <4>1. CallServed(d) /\ call'[d] = call[d]
        BY <2>4, <3>3 DEF Served
      <4>2. CASE call[d].pc \in {"idle", "create"}
        BY <4>1, <4>2 DEF CallServed, Loading
      <4>3. CASE call[d].pc \notin {"idle", "create"} /\ call[d].m = m
        BY <1>2, <2>2, <2>5, <4>1, <4>3 DEF CallServed
      <4>4. CASE call[d].pc \notin {"idle", "create"} /\ call[d].m # m
        <5>1. call[d].m \in Manager
          BY <4>1, <4>4 DEF CallServed
        <5>2. mgr'[call[d].m] = mgr[call[d].m]
          BY <2>3, <4>4, <5>1
        <5> QED BY <2>4, <3>1, <4>1, <4>4, <5>1, <5>2 DEF CallServed
      <4> QED BY <4>2, <4>3, <4>4
    <3> QED BY <3>2, <3>3
  <2>8. Registered'
    <3>1. mgr'[m].state # "none"
      BY <2>2
    <3> QED BY <1>1, <2>2, <2>3, <3>1, OthersRegistered
  <2> QED BY <2>6, <2>7, <2>8 DEF Served, Registered
<1>3. CASE mgr[m].state \in {"starting", "running"}
  <2>1. Goto(c, "await") /\ mgr' = mgr
    BY <1>0, <1>3 DEF Start
  <2>2. /\ \A d \in Call \ {c} : call'[d] = call[d]
        /\ call'[c].pc = "await" /\ call'[c].m = m /\ call'[c].host = call[c].host
    BY <1>0, <2>1, GotoFields
  <2>3. call'[c].pc \notin Loading \cup {"stopping"}
    BY <2>2 DEF Loading
  <2> QED BY <1>1, <1>3, <2>1, <2>2, <2>3, NoManagerMoves, CallMoves
<1>4. CASE mgr[m].state = "stopped"
  <2>1. Answer(c, NoToken) /\ mgr' = mgr
    BY <1>0, <1>4 DEF Start, Fail
  <2> QED BY <1>1, <2>1, NoManagerMoves, CallEnds
<1> QED BY <1>1, <1>2, <1>3, <1>4 DEF ManagerRecord

\* The load of a manager succeeds, unless the manager has been stopped, or fails,
\* which stops it.
LEMMA LoadServed ==
  ASSUME TypeOK, Served, NEW c \in Call, FinishLoad(c) \/ LoadFails(c)
  PROVE  Served'
<1>0. PICK m \in Manager : m = call[c].m
  BY DEF FinishLoad, LoadFails, Served, CallServed
<1>1. /\ call[c].pc \in Loading /\ mgr[m].host = call[c].host /\ mgr[m].state \in {"starting", "stopped"}
      /\ mgr[m] \in ManagerRecord /\ registry' = registry
  BY <1>0 DEF FinishLoad, LoadFails, Served, CallServed, TypeOK, Loading
<1>2. \A d \in Call \ {c} : call[d].pc \in Loading => call[d].m # m
  BY <1>0, <1>1 DEF Served, CallServed
<1>3. ManagerServes(m)
  BY DEF Served
<1>4. /\ \A n \in Manager \ {m} : mgr'[n] = mgr[n]
      /\ mgr'[m].host = mgr[m].host /\ mgr'[m].unloading = mgr[m].unloading
      /\ \/ FinishLoad(c) /\ mgr[m].state = "starting" /\ mgr'[m].state = "running"
            /\ mgr'[m].done = TRUE /\ mgr'[m].stop = mgr[m].stop
         \/ /\ mgr'[m].state = "stopped" /\ mgr'[m].stop # "no"
            /\ mgr'[m].stop = "done" => mgr'[m].done
  <2>1. CASE FinishLoad(c)
    <3>1. mgr' = [mgr EXCEPT ![m] = Loaded(m)]
      BY <1>0, <2>1 DEF FinishLoad
    <3>2. /\ Loaded(m).host = mgr[m].host /\ Loaded(m).unloading = mgr[m].unloading
          /\ Loaded(m).stop = mgr[m].stop /\ Loaded(m).done = TRUE
          /\ Loaded(m).state = IF mgr[m].state = "stopped" THEN "stopped" ELSE "running"
      BY <1>1 DEF Loaded, ManagerRecord
    <3>3. mgr'[m] = Loaded(m) /\ \A n \in Manager \ {m} : mgr'[n] = mgr[n]
      BY <3>1 DEF TypeOK
    <3> QED BY <1>1, <1>3, <2>1, <3>2, <3>3 DEF ManagerServes
  <2>2. CASE LoadFails(c)
    <3>1. mgr' = [mgr EXCEPT ![m] = Stopping(m)]
      BY <1>0, <2>2 DEF LoadFails
    <3>2. mgr'[m] = Stopping(m) /\ \A n \in Manager \ {m} : mgr'[n] = mgr[n]
      BY <3>1 DEF TypeOK
    <3>3. CASE mgr[m].stop = "no"
      <4>1. Stopping(m) = [mgr[m] EXCEPT !.state = "stopped", !.stop = "begun"]
        BY <3>3 DEF Stopping
      <4>2. /\ Stopping(m).host = mgr[m].host /\ Stopping(m).unloading = mgr[m].unloading
            /\ Stopping(m).state = "stopped" /\ Stopping(m).stop = "begun"
        BY <1>1, <4>1 DEF ManagerRecord
      <4> QED BY <3>2, <4>2
    <3>4. CASE mgr[m].stop # "no"
      <4>1. mgr[m].state = "stopped"
        BY <1>1, <1>3, <3>4 DEF ManagerServes
      <4> QED BY SMTT(30), <1>3, <3>2, <3>4, <4>1 DEF Stopping, ManagerServes
    <3> QED BY <3>3, <3>4
  <2> QED BY <2>1, <2>2
<1>5. /\ \A d \in Call \ {c} : call'[d] = call[d]
      /\ \/ call'[c].pc = "idle"
         \/ /\ call'[c].m = m /\ call'[c].host = call[c].host
            /\ \/ call'[c].pc = "await" /\ mgr'[m].state = "running"
               \/ call'[c].pc = "stopping" /\ mgr'[m].stop # "no"
  <2>1. CASE FinishLoad(c)
    <3>1. (Goto(c, "await") /\ mgr'[m].state = "running") \/ Answer(c, NoToken)
      BY <1>0, <2>1 DEF FinishLoad, Fail
    <3>2. CASE Answer(c, NoToken)
      BY <3>2 DEF Answer, NoCall, TypeOK
    <3> QED BY <1>0, <3>1, <3>2, GotoFields
  <2>2. CASE LoadFails(c)
    <3>1. Goto(c, "stopping")
      BY <2>2 DEF LoadFails
    <3>2. mgr'[m].stop # "no"
      <4>1. call'[c].pc = "stopping"
        BY <3>1, GotoFields
      <4>2. CASE FinishLoad(c)
        <5>1. Goto(c, "await") \/ Answer(c, NoToken)
          BY <4>2 DEF FinishLoad, Fail
        <5>2. Answer(c, NoToken) => call'[c].pc = "idle"
          BY SMTT(30) DEF Answer, NoCall, TypeOK
        <5>3. Goto(c, "await") => call'[c].pc = "await"
          BY GotoFields
        <5> QED BY <4>1, <5>1, <5>2, <5>3
      <4> QED BY <1>4, <4>2
    <3> QED BY <1>0, <3>1, <3>2, GotoFields
  <2> QED BY <2>1, <2>2
<1>6. \A d \in Call : call'[d].pc \in Loading => d # c /\ call'[d] = call[d]
  BY <1>5 DEF Loading
<1>7. ASSUME NEW n \in Manager PROVE ManagerServes(n)'
  <2>1. CASE n = m
    BY <1>1, <1>3, <1>4, <2>1 DEF ManagerServes
  <2>2. CASE n # m
    <3>1. mgr[n].state = "starting" => \E d \in Call : call'[d].m = n /\ call'[d].pc \in Loading
      <4>1. SUFFICES ASSUME mgr[n].state = "starting"
                     PROVE  \E d \in Call : call'[d].m = n /\ call'[d].pc \in Loading
        OBVIOUS
      <4>2. PICK d \in Call : call[d].m = n /\ call[d].pc \in Loading
        BY <4>1 DEF Served, ManagerServes
      <4>3. call'[d] = call[d]
        BY <1>0, <1>5, <2>2, <4>2
      <4> QED BY <4>2, <4>3
    <3> QED BY <1>1, <1>4, <2>2, <3>1, OtherManager
  <2> QED BY <2>1, <2>2
<1>8. ASSUME NEW d \in Call PROVE CallServed(d)'
  <2>1. CASE d = c
    BY <1>1, <1>4, <1>5, <1>6, <2>1 DEF CallServed
  <2>2. CASE d # c
    <3>1. CallServed(d) /\ call'[d] = call[d]
      BY <1>5, <2>2 DEF Served
    <3>2. CASE call[d].pc \in {"idle", "create"}
      BY <3>1, <3>2 DEF CallServed, Loading
    <3>3. CASE call[d].pc \notin {"idle", "create"} /\ call[d].m = m
      <4>1. call[d].pc = "stopping" => mgr'[m].stop # "no"
        BY <1>4, <3>1, <3>3 DEF CallServed
      <4> QED BY <1>2, <1>4, <2>2, <3>1, <3>3, <4>1 DEF CallServed
    <3>4. CASE call[d].pc \notin {"idle", "create"} /\ call[d].m # m
      <4>1. call[d].m \in Manager
        BY <3>1, <3>4 DEF CallServed
      <4>2. mgr'[call[d].m] = mgr[call[d].m]
        BY <1>4, <3>4, <4>1
      <4> QED BY <1>6, <3>1, <4>1, <4>2 DEF CallServed
    <3> QED BY <3>2, <3>3, <3>4
  <2> QED BY <2>1, <2>2
<1>9. Registered'
  BY <1>1, <1>4, OthersRegistered
<1> QED BY <1>7, <1>8, <1>9 DEF Served, Registered

\* A step that touches neither managers nor calls.
LEMMA Unmoved ==
  ASSUME Served, mgr' = mgr, call' = call, registry' = registry
  PROVE  Served'
BY DEF Served, ManagerServes, CallServed

\* Every step keeps the managers and the calls that wait for them together.
LEMMA ServedStep ==
  ASSUME TypeOK, Agree, Served, [Next]_vars
  PROVE  Served'
<1>1. ASSUME NEW g \in late, DecideLate(g)
      PROVE  Served'
  BY <1>1, Unmoved DEF DecideLate
<1>2. ASSUME NEW c \in Call, GetOrCreate(c)
      PROVE  Served'
  BY <1>2, CreateServed
<1>3. ASSUME NEW c \in Call, Start(c)
      PROVE  Served'
  BY <1>3, StartServed
<1>4. ASSUME NEW c \in Call, Claim(c)
      PROVE  Served'
  BY <1>4, CacheMoves, LoaderGoesOn DEF Claim, Loading
<1>5. ASSUME NEW c \in Call, BuildCache(c)
      PROVE  Served'
  BY <1>5, CacheMoves, LoaderGoesOn DEF BuildCache, Loading
<1>6. ASSUME NEW c \in Call, FinishLoad(c)
      PROVE  Served'
  BY <1>6, LoadServed
<1>7. ASSUME NEW c \in Call, LoadFails(c)
      PROVE  Served'
  BY <1>7, LoadServed
<1>8. ASSUME NEW c \in Call, LoadFailed(c)
      PROVE  Served'
  BY <1>8, NoManagerMoves, CallEnds DEF LoadFailed, Fail, Loading
<1>9. ASSUME NEW c \in Call, AwaitStartup(c)
      PROVE  Served'
  <2>1. SameManagers /\ registry' = registry /\ call[c].pc = "await"
    BY <1>9, NoManagerMoves DEF AwaitStartup
  <2>2. CASE Goto(c, "find")
    BY <2>1, <2>2, GotoFields, CallGoesOn DEF Serving, Loading
  <2>3. CASE Answer(c, NoToken)
    BY <2>1, <2>3, CallEnds DEF Loading
  <2> QED BY <1>9, <2>2, <2>3 DEF AwaitStartup, Fail
<1>10. ASSUME NEW c \in Call, FindHeldToken(c)
      PROVE  Served'
  <2>1. PICK pc \in {"grant", "confirm"} :
          call' = [call EXCEPT ![c].pc = pc, ![c].token = mgr[call[c].m].cache.tokenByOwner[call[c].owner]]
    BY <1>10 DEF FindHeldToken
  <2>2. /\ \A d \in Call \ {c} : call'[d] = call[d]
        /\ call'[c].pc = pc /\ call'[c].m = call[c].m /\ call'[c].host = call[c].host
    BY <2>1, CallTyped DEF TypeOK, CallRecord
  <2> QED BY <1>10, <2>2, NoManagerMoves, CallGoesOn DEF FindHeldToken, Serving, Loading
<1>11. ASSUME NEW c \in Call, ConfirmToken(c)
      PROVE  Served'
  <2>1. SameManagers /\ registry' = registry /\ call[c].pc = "confirm"
    BY <1>11, CacheMoves DEF ConfirmToken
  <2>2. CASE Goto(c, "grant")
    BY <2>1, <2>2, GotoFields, CallGoesOn DEF Serving, Loading
  <2>3. CASE Answer(c, call[c].token)
    BY <2>1, <2>3, CallEnds DEF Loading
  <2> QED BY <1>11, <2>2, <2>3 DEF ConfirmToken
<1>12. ASSUME NEW c \in Call, AnswerNoSlot(c)
      PROVE  Served'
  BY <1>12, NoManagerMoves, CallEnds DEF AnswerNoSlot, Fail, Loading, NoSlot
<1>13. ASSUME NEW c \in Call, PickFreeToken(c)
      PROVE  Served'
  <2>1. PICK t : call' = [call EXCEPT ![c].pc = "write", ![c].token = t, ![c].tries = @ + 1]
    BY <1>13 DEF PickFreeToken
  <2>2. /\ \A d \in Call \ {c} : call'[d] = call[d]
        /\ call'[c].pc = "write" /\ call'[c].m = call[c].m /\ call'[c].host = call[c].host
    BY SMTT(30), <2>1, CallTyped DEF TypeOK, CallRecord
  <2> QED BY <1>13, <2>2, NoManagerMoves, CallGoesOn DEF PickFreeToken, Serving, Loading
<1>14. ASSUME NEW c \in Call, WriteGrant(c)
      PROVE  Served'
  <2>1. PICK t, u : call' = [call EXCEPT ![c].pc = "record", ![c].outcome = u, ![c].token = t]
    BY <1>14 DEF WriteGrant
  <2>2. /\ \A d \in Call \ {c} : call'[d] = call[d]
        /\ call'[c].pc = "record" /\ call'[c].m = call[c].m /\ call'[c].host = call[c].host
    BY SMTT(30), <2>1, CallTyped DEF TypeOK, CallRecord
  <2> QED BY <1>14, <2>2, NoManagerMoves, CallGoesOn DEF WriteGrant, Serving, Loading
<1>15. ASSUME NEW c \in Call, RecordGrant(c)
      PROVE  Served'
  <2>1. SameManagers /\ registry' = registry /\ call[c].pc = "record"
    BY <1>15, CacheMoves DEF RecordGrant
  <2>2. CASE Goto(c, "grant")
    BY <2>1, <2>2, GotoFields, CallGoesOn DEF Serving, Loading
  <2>3. CASE Answer(c, call[c].token)
    BY <2>1, <2>3, CallEnds DEF Loading
  <2> QED BY <1>15, <2>2, <2>3 DEF RecordGrant
<1>16. ASSUME NEW c \in Call, Timeout(c)
      PROVE  Served'
  BY <1>16, NoManagerMoves, CallEnds DEF Timeout, Fail, Loading
<1>17. ASSUME NEW c \in Call, StatementFails(c)
      PROVE  Served'
  BY <1>17, NoManagerMoves, CallEnds DEF StatementFails, Fail, Loading
<1>18. ASSUME NEW m \in Manager, GoIdle(m)
      PROVE  Served'
  BY <1>18, StopBegins DEF GoIdle
<1>19. ASSUME NEW m \in Manager, SaveAckLevel(m)
      PROVE  Served'
  BY <1>19, StopBegins DEF SaveAckLevel
<1>20. ASSUME NEW m \in Manager, UnloadStop(m)
      PROVE  Served'
  BY <1>20, StopBegins DEF UnloadStop, Served, ManagerServes
<1>21. ASSUME NEW m \in Manager, OnStop(m)
      PROVE  Served'
  BY <1>21, OnStopServed
<1>22. ASSUME NEW m \in Manager, EndStop(m)
      PROVE  Served'
  BY <1>22, EndStopServed
<1>23. ASSUME NEW h \in Host, MoveBucket(h)
      PROVE  Served'
  BY <1>23, Unmoved DEF MoveBucket
<1>24. ASSUME NEW h \in Host, MembershipChange(h)
      PROVE  Served'
  BY <1>24, MembershipServed
<1>25. ASSUME NEW h \in Host, Crash(h)
      PROVE  Served'
  BY <1>25, CrashServed
<1>26. ASSUME NEW o \in Owner, NEW c \in Call, NEW h \in Host, AskForToken(o, c, h)
      PROVE  Served'
  <2>1. PICK pc \in {"start", "create"} :
          /\ pc = "start" <=> registry[h] # 0
          /\ call' = [call EXCEPT ![c] = [call[c] EXCEPT !.pc = pc, !.owner = o, !.host = h, !.m = registry[h]]]
    BY <1>26 DEF AskForToken
  <2>2. /\ \A d \in Call \ {c} : call'[d] = call[d]
        /\ call'[c].pc = pc /\ call'[c].m = registry[h] /\ call'[c].host = h
    BY <2>1, CallTyped DEF TypeOK, CallRecord
  <2>3. registry[h] # 0 =>
          registry[h] \in Manager /\ mgr[registry[h]].state # "none" /\ mgr[registry[h]].host = h
    BY DEF Served, TypeOK
  <2> QED BY <1>26, <2>1, <2>2, <2>3, NoManagerMoves, CallMoves DEF AskForToken, Loading
<1>27. ASSUME NEW o \in Owner, GiveUp(o)
      PROVE  Served'
  BY <1>27, Unmoved DEF GiveUp
<1>28. ASSUME NEW o \in Owner, ReleaseHold(o)
      PROVE  Served'
  BY <1>28, Unmoved DEF ReleaseHold
<1>29. CASE UNCHANGED vars
  BY <1>29, Unmoved DEF vars
<1> QED BY <1>1, <1>2, <1>3, <1>4, <1>5, <1>6, <1>7, <1>8, <1>9, <1>10, <1>11, <1>12, <1>13, <1>14, <1>15, <1>16, <1>17, <1>18, <1>19, <1>20, <1>21, <1>22, <1>23, <1>24, <1>25, <1>26, <1>27, <1>28, <1>29
  DEF Next, Step, Fault, Move, Release, CallStep, ManagerStep, HistoryStep

-----------------------------------------------------------------------------
IInv == TypeOK /\ Agree /\ Served

\* The invariant holds before any host serves the bucket.
LEMMA InitHolds == Init => IInv
<1> SUFFICES ASSUME Init PROVE IInv
  OBVIOUS
<1>1. NoCall \in CallRecord
  BY SMTT(30), SemaphoreAssumption DEF NoCall, CallRecord, Loading, Serving
<1>2. NoManager \in ManagerRecord
  BY DEF NoManager, ManagerRecord
<1>3. TypeOK
  BY <1>1, <1>2 DEF Init, TypeOK
<1>4. \A c \in Call : call[c].pc = "idle"
  BY DEF Init, NoCall
<1>5. \A m \in Manager : mgr[m].state = "none" /\ mgr[m].stop = "no" /\ mgr[m].unloading = FALSE
  BY DEF Init, NoManager
<1>6. RowsInverse /\ HoldsBacked
  BY BucketAssumption, TokensFinite DEF Init, RowsInverse, HoldsBacked
<1>7. Agree
  BY <1>4, <1>5, <1>6 DEF Agree, CacheBacked, CallBacked, Init, Serving
<1>8. Served
  BY <1>4, <1>5 DEF Served, ManagerServes, CallServed, Init, Loading
<1> QED BY <1>3, <1>7, <1>8 DEF IInv

\* The invariant of the bucket is inductive.
THEOREM SemaphoreInductive == Spec => []IInv
<1>1. IInv /\ [Next]_vars => IInv'
  BY TypeStep, AgreeStep, ServedStep DEF IInv
<1> QED BY <1>1, InitHolds, PTL DEF Spec

\* The state of the bucket stays well formed; a count of free tokens never goes
\* below zero.
THEOREM SemaphoreTypes == Spec => []TypeOK
BY SemaphoreInductive, PTL DEF IInv

\* A token has one holder and an owner one token, for any number of hosts that
\* write grants, whatever fails and however late a grant takes effect.
THEOREM RowsAgree == Spec => []RowsInverse
<1>1. IInv => RowsInverse
  BY DEF IInv, Agree
<1> QED BY <1>1, SemaphoreInductive, PTL

\* The token that a workflow has recorded is its own.
THEOREM HoldsAreBacked == Spec => []HoldsBacked
<1>1. IInv => HoldsBacked
  BY DEF IInv, Agree
<1> QED BY <1>1, SemaphoreInductive, PTL

\* A running manager's cache never gives an owner a token that the database has
\* not given it.
THEOREM CachesAreBacked == Spec => []CacheBacked
<1>1. IInv => CacheBacked
  BY DEF IInv, Agree
<1> QED BY <1>1, SemaphoreInductive, PTL

\* No manager serves the bucket out of the reach of the events that stop it.
THEOREM ServingIsRegistered == Spec => []ServesRegistered
<1>1. IInv => ServesRegistered
  BY DEF IInv, Served, ManagerServes, ServesRegistered
<1> QED BY <1>1, SemaphoreInductive, PTL

\* No call waits for a manager that nobody loads and nobody stops.
THEOREM WaitersAreWoken == Spec => []NobodyStranded
<1>1. ASSUME IInv PROVE NobodyStranded
  <2> SUFFICES ASSUME NEW c \in Call
               PROVE  /\ call[c].pc = "await" =>
                           \/ mgr[call[c].m].done \/ mgr[call[c].m].stop \in {"begun", "unregistered"}
                           \/ \E d \in Call : call[d].m = call[c].m /\ call[d].pc \in Loading
                      /\ call[c].pc = "stopping" => mgr[call[c].m].stop # "no"
    BY DEF NobodyStranded
  <2>1. CallServed(c)
    BY <1>1 DEF IInv, Served
  <2>2. CASE call[c].pc = "await"
    <3>1. PICK m \in Manager : m = call[c].m /\ mgr[m].state \notin {"none", "created"}
      BY <2>1, <2>2 DEF CallServed
    <3>2. mgr[m] \in ManagerRecord /\ ManagerServes(m)
      BY <1>1 DEF IInv, TypeOK, Served
    <3> QED BY <2>2, <3>1, <3>2 DEF ManagerServes, ManagerRecord
  <2> QED BY <2>1, <2>2 DEF CallServed
<1> QED BY <1>1, SemaphoreInductive, PTL
=============================================================================
