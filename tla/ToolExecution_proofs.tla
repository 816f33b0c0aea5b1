------------------------- MODULE ToolExecution_proofs -------------------------
(***************************************************************************)
(* Proofs about ToolExecution, for any number of turns, files, actions and *)
(* sources, with containers that outlive their clients, a Docker daemon    *)
(* that stops, and requests answered late or never: first that every       *)
(* effect is authorised and what goes on is reported as failed, then that  *)
(* what receipts claim is true.                                            *)
(***************************************************************************)
EXTENDS ToolExecution, TLAPS

---------------------------------------------------------------------------
(***************************************************************************)
(* The inductive invariant.  EffectsMatchRisk speaks of effects only; the  *)
(* invariant carries the permission along the steps that lead to one.      *)
(* LateEffectsAreOfFailures needs that a turn has at most one container    *)
(* and that nothing of it goes on unless a client waits or it has stopped. *)
(***************************************************************************)
Writes(action) == action.op \notin Reads /\ action.risk # "read"

Busy == {"worker", "made", "running", "exited", "tests", "report", "waiting"}

\* Something of turn t still goes on outside.
Ongoing(t) == t \in requests \/ \E k \in containers : k.turn = t

TurnSound(t) ==
  /\ At(t, "idle") => ~Affected(t)
  /\ Affected(t) \/ work[t].step \in Busy => Writes(work[t].action)
  /\ At(t, "worker") => work[t].action.risk = "risky"
  /\ work[t].step \notin {"running", "waiting", "done", "cancelled"} => ~Ongoing(t)
  /\ At(t, "running") => t \notin requests
  /\ At(t, "waiting") => \A k \in containers : k.turn # t
  /\ work[t].step \notin {"waiting", "done", "cancelled"} => t \notin tasks
  /\ receipts[t].outcome # "none" => At(t, "done")
  /\ receipts[t].outcome \in {"succeeded", "partial"} => ~Ongoing(t)

ContainersSound ==
  /\ \A k, l \in containers : k.turn = l.turn => k = l
  /\ \A k \in containers : k.network => work[k.turn].action.risk = "risky"

ToolInv ==
  /\ ToolTypeOK
  /\ requests \cap tasks = {}
  /\ ContainersSound
  /\ \A t \in Turns : TurnSound(t)

---------------------------------------------------------------------------
\* A turn for which no effect, container, request or change is added keeps its soundness.
Calmer(u) ==
  /\ work'[u] = work[u] /\ receipts'[u] = receipts[u]
  /\ Affected(u)' => Affected(u)
  /\ Ongoing(u)' => Ongoing(u)
  /\ u \in tasks' => u \in tasks
  /\ u \in requests' => u \in requests
  /\ \A k \in containers' : k.turn = u => \E l \in containers : l.turn = u

LEMMA CalmerSound ==
  ASSUME ToolInv, NEW u \in Turns, Calmer(u)
  PROVE  TurnSound(u)'
BY DEF ToolInv, TurnSound, Calmer, At

\* The directory of a failed or cancelled create_workspace, once removed, is nobody's.
NoDirectory == [made |-> Nobody, git |-> FALSE]

\* The client of t's container goes; the container stays.
Detached(t) == {IF k.turn = t THEN [k EXCEPT !.attached = FALSE] ELSE k : k \in containers}

LEMMA DetachedFacts ==
  ASSUME ToolInv, NEW t \in Turns
  PROVE  /\ Detached(t) \subseteq Container
         /\ \A k \in Detached(t) : \E l \in containers :
              k.turn = l.turn /\ k.network = l.network /\ (k.turn # t => k = l)
              /\ (k.turn = t => ~k.attached)
         /\ \A l \in containers : l.turn # t => l \in Detached(t)
         /\ \A k, l \in Detached(t) : k.turn = l.turn => k = l
<1> DEFINE D(k) == IF k.turn = t THEN [k EXCEPT !.attached = FALSE] ELSE k
<1>1. Detached(t) = {D(k) : k \in containers}
  BY DEF Detached
<1>2. containers \subseteq Container /\ \A k, l \in containers : k.turn = l.turn => k = l
  BY DEF ToolInv, ToolTypeOK, ContainersSound
<1>3. \A k \in containers :
        /\ D(k) \in Container
        /\ D(k).turn = k.turn /\ D(k).network = k.network
        /\ k.turn # t => D(k) = k
        /\ k.turn = t => ~D(k).attached
  BY <1>2 DEF Container
<1> HIDE DEF D
<1> QED
  BY <1>1, <1>2, <1>3

\* How a tool stops: its turn keeps the action, its container loses the client, and a
\* receipt other than a failure is written only when nothing goes on outside.
Ending(t, step) ==
  /\ step \in {"done", "cancelled"}
  /\ work[t].step \notin {"idle", "done", "cancelled"}
  /\ Stops(t, step)
  /\ \/ containers' = Detached(t)
     \/ containers' = containers /\ ~At(t, "running")
  /\ UNCHANGED <<files, tasks, requests, daemon>>
  /\ repository' \in {repository, NoDirectory}
  /\ healthy' \subseteq Turns
  /\ \/ UNCHANGED receipts
     \/ /\ step = "done"
        /\ \E outcome \in {"succeeded", "partial", "failed"},
              ids \in SUBSET (Files \cup Sources \cup {"path", "task"}) :
             /\ receipts' = [receipts EXCEPT ![t] = [outcome |-> outcome, ids |-> ids]]
             /\ outcome = "failed" \/ ~Ongoing(t)

LEMMA EndingInv ==
  ASSUME ToolInv, NEW t \in Turns, NEW step, Ending(t, step)
  PROVE  ToolInv'
<1> DEFINE w == [NoWork EXCEPT !.step = step, !.action = work[t].action]
<1>1. /\ work \in [Turns -> Work] /\ work[t] \in Work
      /\ receipts \in [Turns -> Receipt]
      /\ containers \subseteq Container
  BY DEF ToolInv, ToolTypeOK
<1>2. w \in Work /\ w.step = step /\ w.action = work[t].action
  <2>1. work[t].action \in Actions \cup {NoAction}
    BY <1>1 DEF Work
  <2>2. [f \in Files |-> Untouched] \in [Files -> Writer]
    BY DEF Untouched, Writer
  <2> QED
    BY <2>1, <2>2 DEF Ending, NoWork, Work
<1>3. work' = [work EXCEPT ![t] = w]
  BY DEF Ending, Stops
<1>4. work' \in [Turns -> Work] /\ work'[t] = w /\ \A u \in Turns \ {t} : work'[u] = work[u]
  BY <1>1, <1>2, <1>3
<1>5. /\ receipts' \in [Turns -> Receipt]
      /\ \A u \in Turns \ {t} : receipts'[u] = receipts[u]
      /\ \/ receipts'[t] = receipts[t]
         \/ step = "done" /\ (receipts'[t].outcome = "failed" \/ ~Ongoing(t))
  <2> DEFINE Ids == Files \cup Sources \cup {"path", "task"}
  <2>1. CASE UNCHANGED receipts
    BY <1>1, <2>1
  <2>2. CASE ~UNCHANGED receipts
    <3>1. step = "done"
      BY <2>2 DEF Ending
    <3>2. PICK outcome \in {"succeeded", "partial", "failed"}, ids \in SUBSET Ids :
            /\ receipts' = [receipts EXCEPT ![t] = [outcome |-> outcome, ids |-> ids]]
            /\ outcome = "failed" \/ ~Ongoing(t)
      BY <2>2 DEF Ending
    <3>3. [outcome |-> outcome, ids |-> ids] \in Receipt
      BY DEF Receipt
    <3> HIDE DEF Ids
    <3>4. receipts'[t] = [outcome |-> outcome, ids |-> ids]
      BY <1>1, <3>2
    <3> QED
      BY <1>1, <3>1, <3>2, <3>3, <3>4
  <2> QED
    BY <2>1, <2>2
<1>6. /\ containers' \subseteq Container
      /\ \A k, l \in containers' : k.turn = l.turn => k = l
      /\ \A k \in containers' : \E l \in containers :
           k.turn = l.turn /\ k.network = l.network /\ (k.turn # t => k = l)
      /\ \A l \in containers : l.turn # t => l \in containers'
      /\ \A k \in containers' : k.turn = t => ~k.attached
  <2>1. CASE containers' = Detached(t)
    BY <2>1, DetachedFacts
  <2>2. CASE containers' = containers /\ ~At(t, "running")
    <3>1. \A k \in containers : k.turn = t => ~k.attached
      BY <2>2 DEF ToolInv, ToolTypeOK, At
    <3>2. \A k, l \in containers : k.turn = l.turn => k = l
      BY DEF ToolInv, ContainersSound
    <3> QED
      BY <1>1, <2>2, <3>1, <3>2
  <2> QED
    BY <2>1, <2>2 DEF Ending
<1>7. \A u \in Turns : (Affected(u)' => Affected(u)) /\ (Ongoing(u)' => Ongoing(u))
  <2>1. files' = files /\ requests' = requests /\ tasks' = tasks
        /\ repository'.made \in {repository.made, Nobody} /\ Nobody \notin Turns
    BY ToolAssumption DEF Ending, NoDirectory
  <2> QED
    BY <1>6, <2>1 DEF Affected, Ongoing
<1>8. \A u \in Turns \ {t} : TurnSound(u)'
  BY <1>4, <1>5, <1>6, <1>7, CalmerSound DEF Calmer, Ending
<1>9. TurnSound(t)'
  <2>1. TurnSound(t) /\ receipts[t].outcome = "none"
    BY DEF ToolInv, TurnSound, Ending, At, Receipt
  <2>2. step \in {"done", "cancelled"} /\ work'[t].step = step /\ work'[t].action = work[t].action
    BY <1>2, <1>4 DEF Ending
  <2>3. Affected(t) => Writes(work[t].action)
    BY <2>1 DEF TurnSound
  <2>4. receipts'[t].outcome # "none" => step = "done"
    BY <1>5, <2>1
  <2>5. receipts'[t].outcome \in {"succeeded", "partial"} => ~Ongoing(t)
    BY <1>5, <2>1
  <2> QED
    BY <1>7, <2>2, <2>3, <2>4, <2>5 DEF TurnSound, At, Busy
<1>10. ContainersSound'
  <2>1. \A u \in Turns : work'[u].action = work[u].action
    BY <1>2, <1>4
  <2>2. \A k \in containers : k.turn \in Turns
    BY <1>1 DEF Container
  <2> QED
    BY <1>6, <2>1, <2>2 DEF ContainersSound, ToolInv
<1>11. \A u \in Turns :
         work'[u].step = "running" <=> \E k \in containers' : k.turn = u /\ k.attached
  <2>1. \A u \in Turns :
          work[u].step = "running" <=> \E k \in containers : k.turn = u /\ k.attached
    BY DEF ToolInv, ToolTypeOK
  <2>2. work'[t].step # "running"
    BY <1>2, <1>4 DEF Ending
  <2>3. ASSUME NEW u \in Turns \ {t}
        PROVE  (\E k \in containers' : k.turn = u /\ k.attached)
               <=> (\E k \in containers : k.turn = u /\ k.attached)
    <3>1. ASSUME NEW k \in containers', k.turn = u
          PROVE  k \in containers
      BY <1>6, <3>1
    <3>2. ASSUME NEW k \in containers, k.turn = u
          PROVE  k \in containers'
      BY <1>6, <3>2
    <3> QED
      BY <3>1, <3>2
  <2>4. ~\E k \in containers' : k.turn = t /\ k.attached
    BY <1>6
  <2>5. \A u \in Turns \ {t} : work'[u].step = work[u].step
    BY <1>4
  <2> QED
    BY <2>1, <2>2, <2>3, <2>4, <2>5
<1>12. ToolTypeOK'
  <2>1. NoDirectory \in [made : Turns \cup {Nobody}, git : BOOLEAN]
    BY DEF NoDirectory
  <2> QED
    BY <1>4, <1>5, <1>6, <1>11, <2>1 DEF ToolTypeOK, ToolInv, Ending
<1> QED
  BY <1>8, <1>9, <1>10, <1>12 DEF ToolInv, Ending

---------------------------------------------------------------------------
\* How a permitted tool goes on without starting a container or sending a request.
Proceeding(t) ==
  /\ work' \in [Turns -> Work] /\ \A u \in Turns \ {t} : work'[u] = work[u]
  /\ work[t].step \notin {"idle", "running", "waiting", "done", "cancelled"}
  /\ work'[t].step \in {"worker", "made", "exited", "tests", "report"}
  /\ work'[t].action = work[t].action /\ Writes(work[t].action)
  /\ work'[t].step = "worker" => work[t].action.risk = "risky"
  /\ UNCHANGED <<files, tasks, requests, daemon, containers, receipts>>
  /\ healthy' \subseteq Turns
  /\ repository' \in {repository, [made |-> t, git |-> FALSE]}

LEMMA ProceedingInv ==
  ASSUME ToolInv, NEW t \in Turns, Proceeding(t)
  PROVE  ToolInv'
<1>1. \A u \in Turns \ {t} : TurnSound(u)'
  <2> SUFFICES ASSUME NEW u \in Turns \ {t} PROVE TurnSound(u)'
    OBVIOUS
  <2>1. Affected(u)' => Affected(u)
    BY ToolAssumption DEF Affected, Proceeding
  <2> QED
    BY <2>1, CalmerSound DEF Calmer, Proceeding, Ongoing
<1>2. TurnSound(t)'
  <2>1. TurnSound(t)
    BY DEF ToolInv
  <2>2. ~Ongoing(t) /\ t \notin tasks /\ receipts[t].outcome = "none"
    BY <2>1 DEF TurnSound, Proceeding, At, ToolInv, ToolTypeOK, Receipt
  <2>3. ~Ongoing(t)' /\ t \notin tasks' /\ receipts'[t].outcome = "none"
    BY <2>2 DEF Ongoing, Proceeding
  <2> QED
    BY <2>3 DEF TurnSound, Proceeding, At, Ongoing, Busy
<1>3. ContainersSound'
  <2>1. \A u \in Turns : work'[u].action = work[u].action
    BY DEF Proceeding
  <2>2. \A k \in containers : k.turn \in Turns
    BY DEF ToolInv, ToolTypeOK, Container
  <2> QED
    BY <2>1, <2>2 DEF ContainersSound, ToolInv, Proceeding
<1>4. ToolTypeOK'
  <2>1. repository' \in [made : Turns \cup {Nobody}, git : BOOLEAN]
    <3>1. [made |-> t, git |-> FALSE] \in [made : Turns \cup {Nobody}, git : BOOLEAN]
      OBVIOUS
    <3>2. repository \in [made : Turns \cup {Nobody}, git : BOOLEAN]
      BY DEF ToolInv, ToolTypeOK
    <3> QED
      BY <3>1, <3>2 DEF Proceeding
  <2>2. \A u \in Turns :
          work'[u].step = "running" <=> \E k \in containers' : k.turn = u /\ k.attached
    BY DEF ToolInv, ToolTypeOK, Proceeding
  <2> QED
    BY <2>1, <2>2 DEF ToolTypeOK, ToolInv, Proceeding
<1> QED
  BY <1>1, <1>2, <1>3, <1>4 DEF ToolInv, Proceeding

LEMMA TakeInv ==
  ASSUME ToolInv, NEW t \in Turns, NEW action \in Actions, Take(t, action)
  PROVE  ToolInv'
<1>1. /\ work[t] \in Work /\ work \in [Turns -> Work] /\ work[t].step = "idle"
      /\ UNCHANGED <<world, docker, receipts>>
  BY DEF ToolInv, ToolTypeOK, Take, At
<1>2. /\ work' \in [Turns -> Work] /\ work'[t].step = "execute" /\ work'[t].action = action
      /\ \A u \in Turns \ {t} : work'[u] = work[u]
  BY <1>1 DEF Take, Work
<1>3. TurnSound(t) /\ ~Affected(t) /\ receipts[t].outcome = "none" /\ t \notin tasks
      /\ \A k \in containers : k.turn # t
  BY <1>1 DEF ToolInv, TurnSound, At, Affected, ToolTypeOK, Receipt
<1>4. \A u \in Turns : Affected(u)' = Affected(u) /\ Ongoing(u)' = Ongoing(u)
  BY <1>1 DEF Affected, Ongoing, world, docker
<1>5. \A u \in Turns \ {t} : TurnSound(u)'
  BY <1>1, <1>2, <1>4, CalmerSound DEF Calmer, world, docker
<1>6. TurnSound(t)'
  BY <1>1, <1>2, <1>3, <1>4 DEF TurnSound, At, Affected, Ongoing, Busy, world, docker
<1>7. ContainersSound'
  <2>1. \A k \in containers : work'[k.turn] = work[k.turn]
    BY <1>2, <1>3 DEF ToolInv, ToolTypeOK, Container
  <2> QED
    BY <1>1, <2>1 DEF ContainersSound, ToolInv, docker
<1>8. ToolTypeOK'
  <2>1. \A u \in Turns :
          work'[u].step = "running" <=> \E k \in containers' : k.turn = u /\ k.attached
    BY <1>1, <1>2, <1>3 DEF ToolInv, ToolTypeOK, docker
  <2> QED
    BY <1>1, <1>2, <2>1 DEF ToolTypeOK, ToolInv, world, docker
<1> QED
  BY <1>1, <1>5, <1>6, <1>7, <1>8 DEF ToolInv, world

LEMMA SendChangeInv ==
  ASSUME ToolInv, NEW t \in Turns, SendChange(t)
  PROVE  ToolInv'
<1>1. /\ work[t] \in Work /\ work \in [Turns -> Work] /\ work[t].step = "execute"
      /\ UNCHANGED <<files, repository, tasks, docker, receipts>>
      /\ requests' = requests \cup {t}
  BY DEF ToolInv, ToolTypeOK, SendChange, Executes, At, Goes
<1>2. /\ work' \in [Turns -> Work] /\ work'[t].step = "waiting"
      /\ work'[t].action = work[t].action
      /\ \A u \in Turns \ {t} : work'[u] = work[u]
  BY <1>1 DEF SendChange, Goes, Work
<1>3. Writes(work[t].action)
  BY DEF SendChange, Executes, Permitted, Writes, Does, Reads
<1>4. receipts[t].outcome = "none" /\ t \notin tasks /\ \A k \in containers : k.turn # t
  BY <1>1 DEF ToolInv, TurnSound, At, Ongoing, ToolTypeOK, Receipt
<1>5. \A u \in Turns \ {t} : TurnSound(u)'
  <2> SUFFICES ASSUME NEW u \in Turns \ {t} PROVE TurnSound(u)'
    OBVIOUS
  <2>1. Affected(u)' = Affected(u) /\ Ongoing(u)' = Ongoing(u)
    BY <1>1 DEF Affected, Ongoing, docker
  <2> QED
    BY <1>1, <1>2, <2>1, CalmerSound DEF Calmer, docker
<1>6. TurnSound(t)'
  BY <1>1, <1>2, <1>3, <1>4 DEF TurnSound, At, Affected, Ongoing, Busy, docker
<1>7. ContainersSound'
  <2>1. \A k \in containers : work'[k.turn] = work[k.turn]
    BY <1>2, <1>4 DEF ToolInv, ToolTypeOK, Container
  <2> QED
    BY <1>1, <2>1 DEF ContainersSound, ToolInv, docker
<1>8. ToolTypeOK'
  <2>1. \A u \in Turns :
          work'[u].step = "running" <=> \E k \in containers' : k.turn = u /\ k.attached
    BY <1>1, <1>2, <1>4 DEF ToolInv, ToolTypeOK, docker
  <2> QED
    BY <1>1, <1>2, <2>1 DEF ToolTypeOK, ToolInv, docker
<1> QED
  BY <1>1, <1>4, <1>5, <1>6, <1>7, <1>8 DEF ToolInv

\* The first disjunct of Launch.
Starts(t, kind, network) ==
  /\ containers' = containers \cup
       {[turn |-> t, kind |-> kind, network |-> network, attached |-> TRUE, wrote |-> FALSE]}
  /\ healthy' = healthy \cup {t}
  /\ work' = [work EXCEPT ![t].step = "running", ![t].kind = kind]
  /\ UNCHANGED <<world, daemon, receipts>>

LEMMA StartsInv ==
  ASSUME ToolInv, NEW t \in Turns, NEW kind \in Kinds, NEW network \in BOOLEAN,
         Starts(t, kind, network),
         work[t].step \in {"execute", "worker", "made", "tests"}, Writes(work[t].action),
         network => work[t].action.risk = "risky"
  PROVE  ToolInv'
<1> DEFINE new == [turn |-> t, kind |-> kind, network |-> network, attached |-> TRUE,
                   wrote |-> FALSE]
<1>1. /\ work[t] \in Work /\ work \in [Turns -> Work]
      /\ UNCHANGED <<files, repository, tasks, requests, daemon, receipts>>
      /\ containers' = containers \cup {new} /\ healthy' = healthy \cup {t}
  BY DEF ToolInv, ToolTypeOK, Starts, world
<1>2. /\ work' \in [Turns -> Work] /\ work'[t].step = "running"
      /\ work'[t].action = work[t].action
      /\ \A u \in Turns \ {t} : work'[u] = work[u]
  BY <1>1 DEF Starts, Work
<1>3. /\ receipts[t].outcome = "none" /\ t \notin tasks \cup requests
      /\ \A k \in containers : k.turn # t
  BY DEF ToolInv, TurnSound, At, Ongoing, ToolTypeOK, Receipt
<1>4. new \in Container /\ new.turn = t /\ new.attached /\ new.network = network
  BY DEF Container
<1> HIDE DEF new
<1>5. \A u \in Turns \ {t} : TurnSound(u)'
  <2> SUFFICES ASSUME NEW u \in Turns \ {t} PROVE TurnSound(u)'
    OBVIOUS
  <2>1. (Affected(u)' => Affected(u)) /\ (Ongoing(u)' => Ongoing(u))
    BY <1>1, <1>4 DEF Affected, Ongoing
  <2> QED
    BY <1>1, <1>2, <1>4, <2>1, CalmerSound DEF Calmer
<1>6. TurnSound(t)'
  BY <1>1, <1>2, <1>3, <1>4 DEF TurnSound, At, Busy
<1>7. ContainersSound'
  <2>1. \A k \in containers : work'[k.turn] = work[k.turn]
    BY <1>2, <1>3 DEF ToolInv, ToolTypeOK, Container
  <2> QED
    BY <1>1, <1>2, <1>3, <1>4, <2>1 DEF ContainersSound, ToolInv
<1>8. ToolTypeOK'
  <2>1. ASSUME NEW u \in Turns \ {t}
        PROVE  work'[u].step = "running" <=> \E k \in containers' : k.turn = u /\ k.attached
    BY <1>1, <1>2, <1>4 DEF ToolInv, ToolTypeOK
  <2>2. work'[t].step = "running" /\ \E k \in containers' : k.turn = t /\ k.attached
    BY <1>1, <1>2, <1>4
  <2> QED
    BY <1>1, <1>2, <1>4, <2>1, <2>2 DEF ToolTypeOK, ToolInv
<1> QED
  BY <1>1, <1>5, <1>6, <1>7, <1>8 DEF ToolInv

---------------------------------------------------------------------------
LEMMA ContainerWritesInv ==
  ASSUME ToolInv, NEW k \in containers, ContainerWrites(k)
  PROVE  ToolInv'
<1> DEFINE after == [k EXCEPT !.wrote = TRUE]
<1>1. /\ k \in Container /\ k.turn \in Turns
      /\ containers' = (containers \ {k}) \cup {after}
      /\ UNCHANGED <<tasks, requests, daemon, healthy, work, receipts>>
  BY DEF ToolInv, ToolTypeOK, Container, ContainerWrites
<1>2. after \in Container /\ after.turn = k.turn /\ after.attached = k.attached
      /\ after.network = k.network
  BY <1>1 DEF Container
<1> HIDE DEF after
<1>3. /\ files' \in [Files -> Writer]
      /\ \A f \in Files : files'[f] = files[f] \/ files'[f].turn = k.turn
      /\ repository' \in [made : Turns \cup {Nobody}, git : BOOLEAN]
      /\ repository'.made = repository.made
  <2>1. files \in [Files -> Writer] /\ repository \in [made : Turns \cup {Nobody}, git : BOOLEAN]
    BY DEF ToolInv, ToolTypeOK
  <2>2. CASE k.kind # "init" /\ UNCHANGED repository
    <3>1. PICK f : files' = [files EXCEPT ![f] = [turn |-> k.turn, kind |-> k.kind]]
      BY <2>2 DEF ContainerWrites
    <3>2. [turn |-> k.turn, kind |-> k.kind] \in Writer
      BY <1>1, <2>2 DEF Container, Kinds, Writer
    <3> QED
      BY <2>1, <2>2, <3>1, <3>2
  <2>3. CASE repository' = [repository EXCEPT !.git = TRUE] /\ UNCHANGED files
    BY <2>1, <2>3
  <2> QED
    BY <2>2, <2>3 DEF ContainerWrites
<1>4. \A u \in Turns : (Affected(u)' => Affected(u)) /\ (Ongoing(u)' => Ongoing(u))
  BY <1>1, <1>2, <1>3 DEF Affected, Ongoing
<1>5. \A u \in Turns : TurnSound(u)'
  BY <1>1, <1>2, <1>4, CalmerSound DEF Calmer
<1>6. ContainersSound'
  BY <1>1, <1>2 DEF ToolInv, ContainersSound
<1>7. ToolTypeOK'
  <2>1. \A u \in Turns :
          work'[u].step = "running" <=> \E l \in containers' : l.turn = u /\ l.attached
    <3>1. ASSUME NEW u \in Turns
          PROVE  (\E l \in containers' : l.turn = u /\ l.attached)
                 <=> \E l \in containers : l.turn = u /\ l.attached
      BY <1>1, <1>2
    <3> QED
      BY <1>1, <3>1 DEF ToolInv, ToolTypeOK
  <2> QED
    BY <1>1, <1>2, <1>3, <2>1 DEF ToolTypeOK, ToolInv
<1> QED
  BY <1>1, <1>5, <1>6, <1>7 DEF ToolInv

\* A command that ends leaves the rest of its turn as it was.
LEMMA ExitedFacts ==
  ASSUME ToolInv, NEW ended, NEW exit \in {0, 1}, Exited(ended, exit)
  PROVE  /\ work' \in [Turns -> Work]
         /\ \A u \in Turns : work'[u].action = work[u].action
         /\ \A u \in Turns : u \notin ended => work'[u] = work[u]
         /\ \A u \in Turns : u \in ended => work'[u].step = "exited"
<1>1. \A u \in Turns : work[u] \in Work
  BY DEF ToolInv, ToolTypeOK
<1>2. \A u \in Turns :
        work'[u] = IF u \notin ended THEN work[u]
          ELSE IF work[u].kind = "test" THEN [work[u] EXCEPT !.step = "exited", !.tested = exit]
          ELSE [work[u] EXCEPT !.step = "exited", !.exit = exit]
  BY DEF Exited
<1>3. ASSUME NEW u \in Turns
      PROVE  /\ work'[u] \in Work /\ work'[u].action = work[u].action
             /\ u \notin ended => work'[u] = work[u]
             /\ u \in ended => work'[u].step = "exited"
  <2>1. work[u] \in Work
    BY <1>1
  <2>2. CASE u \notin ended
    BY <1>2, <2>1, <2>2
  <2>3. CASE u \in ended /\ work[u].kind = "test"
    <3>1. work'[u] = [work[u] EXCEPT !.step = "exited", !.tested = exit]
      BY <1>2, <2>3
    <3> QED
      BY <2>1, <2>3, <3>1 DEF Work
  <2>4. CASE u \in ended /\ work[u].kind # "test"
    <3>1. work'[u] = [work[u] EXCEPT !.step = "exited", !.exit = exit]
      BY <1>2, <2>4
    <3> QED
      BY <2>1, <2>4, <3>1 DEF Work
  <2> QED
    BY <2>2, <2>3, <2>4
<1>4. work' = [u \in Turns |-> work'[u]]
  BY DEF Exited
<1> QED
  BY <1>3, <1>4

LEMMA ContainerEndsInv ==
  ASSUME ToolInv, NEW k \in containers, ContainerEnds(k)
  PROVE  ToolInv'
<1> DEFINE ended == IF k.attached THEN {k.turn} ELSE {}
<1>1. /\ k.turn \in Turns /\ containers' = containers \ {k}
      /\ UNCHANGED <<files, repository, tasks, requests, daemon, healthy, receipts>>
  BY DEF ToolInv, ToolTypeOK, Container, ContainerEnds, world
<1>2. PICK exit \in {0, 1} : Exited(ended, exit)
  BY DEF ContainerEnds
<1> HIDE DEF ended
<1>3. /\ work' \in [Turns -> Work]
      /\ \A u \in Turns : work'[u].action = work[u].action
      /\ \A u \in Turns : u \notin ended => work'[u] = work[u]
      /\ \A u \in Turns : u \in ended => work'[u].step = "exited"
  BY <1>2, ExitedFacts
<1>4. \A u \in Turns : (Affected(u)' => Affected(u)) /\ (Ongoing(u)' => Ongoing(u))
  BY <1>1 DEF Affected, Ongoing
<1>5. \A u \in Turns \ ended : TurnSound(u)'
  BY <1>1, <1>3, <1>4, CalmerSound DEF Calmer
<1>6. \A l \in containers : l.turn = k.turn => l = k
  BY DEF ToolInv, ContainersSound
<1>7. \A u \in ended : u = k.turn /\ k.attached
  BY DEF ended
<1>8. ASSUME NEW u \in ended PROVE TurnSound(u)'
  <2>1. u \in Turns /\ work[u].step = "running" /\ \A l \in containers' : l.turn # u
    BY <1>1, <1>6, <1>7 DEF ToolInv, ToolTypeOK
  <2>2. /\ Writes(work[u].action) /\ u \notin requests \cup tasks
        /\ receipts[u].outcome = "none"
    BY <2>1 DEF ToolInv, TurnSound, At, Busy, ToolTypeOK, Receipt
  <2>3. work'[u].step = "exited" /\ work'[u].action = work[u].action
    BY <1>3, <2>1
  <2>4. ~Ongoing(u)' /\ u \notin tasks' /\ receipts'[u].outcome = "none"
    BY <1>1, <2>1, <2>2 DEF Ongoing
  <2> QED
    BY <2>2, <2>3, <2>4 DEF TurnSound, At
<1>9. ContainersSound'
  BY <1>1, <1>3 DEF ToolInv, ContainersSound, ToolTypeOK, Container
<1>10. ToolTypeOK'
  <2>1. ASSUME NEW u \in Turns
        PROVE  work'[u].step = "running" <=> \E l \in containers' : l.turn = u /\ l.attached
    <3>1. work[u].step = "running" <=> \E l \in containers : l.turn = u /\ l.attached
      BY DEF ToolInv, ToolTypeOK
    <3>2. CASE u \in ended
      BY <1>1, <1>3, <1>6, <1>7, <3>2
    <3>3. CASE u \notin ended
      <4>1. k.turn = u => ~k.attached
        BY <3>3 DEF ended
      <4> QED
        BY <1>1, <1>3, <3>1, <3>3, <4>1
    <3> QED
      BY <3>2, <3>3
  <2> QED
    BY <1>1, <1>3, <2>1 DEF ToolTypeOK, ToolInv
<1> QED
  BY <1>1, <1>5, <1>8, <1>9, <1>10 DEF ToolInv

LEMMA ChangeAppliedInv ==
  ASSUME ToolInv, NEW t \in Turns, ChangeApplied(t)
  PROVE  ToolInv'
<1>1. /\ t \in requests /\ requests' = requests \ {t} /\ tasks' = tasks \cup {t}
      /\ UNCHANGED <<files, repository, daemon, healthy, containers, work, receipts>>
  BY DEF ChangeApplied, docker
<1>2. \A u \in Turns : (Affected(u)' => Affected(u)) /\ (Ongoing(u)' => Ongoing(u))
  BY <1>1 DEF Affected, Ongoing
<1>3. \A u \in Turns \ {t} : TurnSound(u)'
  BY <1>1, <1>2, CalmerSound DEF Calmer
<1>4. TurnSound(t)'
  <2>1. TurnSound(t) /\ Ongoing(t) /\ Affected(t)
    BY <1>1 DEF ToolInv, Ongoing, Affected
  <2>2. At(t, "waiting") \/ At(t, "done") \/ At(t, "cancelled")
    BY <1>1, <2>1 DEF TurnSound, At
  <2>3. ~(At(t, "idle") \/ At(t, "worker") \/ At(t, "running"))
    BY <2>2 DEF At
  <2>4. At(t, "waiting") => \A l \in containers : l.turn # t
    BY <2>1 DEF TurnSound
  <2> QED
    BY <1>1, <1>2, <2>1, <2>2, <2>3, <2>4 DEF TurnSound, At
<1> QED
  BY <1>1, <1>3, <1>4 DEF ToolInv, ToolTypeOK, ContainersSound

LEMMA DaemonStopsInv ==
  ASSUME ToolInv, DaemonStops
  PROVE  ToolInv'
<1> DEFINE ended == {t \in Turns : At(t, "running")}
<1>1. /\ containers' = {} /\ daemon' = FALSE
      /\ UNCHANGED <<files, repository, tasks, requests, healthy, receipts>>
      /\ Exited(ended, 1)
  BY DEF DaemonStops, world
<1>2. \A t \in Turns : t \in ended <=> work[t].step = "running"
  BY DEF At
<1> HIDE DEF ended
<1>3. /\ work' \in [Turns -> Work]
      /\ \A u \in Turns : work'[u].action = work[u].action
      /\ \A u \in Turns : u \notin ended => work'[u] = work[u]
      /\ \A u \in Turns : u \in ended => work'[u].step = "exited"
  BY <1>1, ExitedFacts
<1>4. \A u \in Turns : (Affected(u)' => Affected(u)) /\ (Ongoing(u)' => Ongoing(u))
  BY <1>1 DEF Affected, Ongoing
<1>5. ASSUME NEW u \in Turns, u \notin ended PROVE TurnSound(u)'
  BY <1>1, <1>3, <1>4, <1>5, CalmerSound DEF Calmer
<1>6. ASSUME NEW u \in Turns, u \in ended PROVE TurnSound(u)'
  <2>1. /\ Writes(work[u].action) /\ u \notin requests \cup tasks
        /\ receipts[u].outcome = "none"
    BY <1>2, <1>6 DEF ToolInv, TurnSound, At, Busy, ToolTypeOK, Receipt
  <2>2. work'[u].step = "exited" /\ work'[u].action = work[u].action
    BY <1>3, <1>6
  <2>3. ~Ongoing(u)' /\ u \notin tasks' /\ receipts'[u].outcome = "none"
    BY <1>1, <2>1 DEF Ongoing
  <2> QED
    BY <2>1, <2>2, <2>3 DEF TurnSound, At
<1>7. ToolTypeOK'
  <2>1. \A u \in Turns : work'[u].step # "running"
    BY <1>2, <1>3
  <2> QED
    BY <1>1, <1>3, <2>1 DEF ToolTypeOK, ToolInv
<1> QED
  BY <1>1, <1>5, <1>6, <1>7 DEF ToolInv, ContainersSound

LEMMA DaemonStartsInv ==
  ASSUME ToolInv, DaemonStarts
  PROVE  ToolInv'
<1>1. daemon' = TRUE /\ UNCHANGED <<files, repository, tasks, requests, healthy, containers, work,
        receipts>>
  BY DEF DaemonStarts, world
<1>2. \A u \in Turns : Calmer(u)
  BY <1>1 DEF Calmer, Affected, Ongoing
<1>3. \A u \in Turns : TurnSound(u)'
  BY <1>2, CalmerSound
<1> QED
  BY <1>1, <1>3 DEF ToolInv, ToolTypeOK, ContainersSound

---------------------------------------------------------------------------
\* A start of a container takes its tool into it, lets it go on, or ends it.
LEMMA LaunchInv ==
  ASSUME ToolInv, NEW t \in Turns, NEW kind \in Kinds, NEW network \in BOOLEAN,
         NEW Undone \in {repository, NoDirectory}, Launch(t, kind, network, Undone),
         work[t].step \in {"execute", "worker", "made", "tests"}, Writes(work[t].action),
         network => work[t].action.risk = "risky"
  PROVE  ToolInv'
<1>1. CASE Starts(t, kind, network)
  BY <1>1, StartsInv
<1>2. CASE /\ work' = [work EXCEPT ![t].step = "exited", ![t].kind = kind,
                   ![t].exit = IF kind = "test" THEN @ ELSE 1,
                   ![t].tested = IF kind = "test" THEN 1 ELSE @]
           /\ UNCHANGED <<world, docker, receipts>>
  <2>1. work \in [Turns -> Work] /\ work[t] \in Work /\ healthy \subseteq Turns
    BY DEF ToolInv, ToolTypeOK
  <2>2. /\ work' \in [Turns -> Work] /\ work'[t].step = "exited"
        /\ work'[t].action = work[t].action
        /\ \A u \in Turns \ {t} : work'[u] = work[u]
    BY <1>2, <2>1 DEF Work
  <2>3. Proceeding(t)
    BY <1>2, <2>1, <2>2 DEF Proceeding, world, docker
  <2> QED
    BY <2>3, ProceedingInv
<1>3. CASE /\ File(t, "failed", {}) /\ repository' = Undone
           /\ UNCHANGED <<files, tasks, requests, docker>>
  <2>1. Ending(t, "done")
    BY <1>3 DEF Ending, File, docker, ToolInv, ToolTypeOK, At
  <2> QED
    BY <2>1, EndingInv
<1> QED
  BY <1>1, <1>2, <1>3 DEF Launch, Starts

\* A result that is filed ends its tool, once the client is gone.
LEMMA FiledEnding ==
  ASSUME ToolInv, NEW t \in Turns, NEW outcome \in {"succeeded", "partial", "failed"},
         NEW ids \in SUBSET (Files \cup Sources \cup {"path", "task"}), File(t, outcome, ids),
         work[t].step \notin {"idle", "done", "cancelled"},
         containers' = Detached(t) \/ (containers' = containers /\ work[t].step # "running"),
         UNCHANGED <<files, tasks, requests, daemon>>,
         repository' \in {repository, NoDirectory}, healthy' \subseteq Turns,
         outcome = "failed" \/ ~Ongoing(t)
  PROVE  Ending(t, "done")
BY DEF File, Ending, At

\* Every step of a tool, taken apart by what it does to its turn.
LEMMA AdapterInv ==
  ASSUME ToolInv, NEW t \in Turns, Adapter(t)
  PROVE  ToolInv'
<1>1. /\ work \in [Turns -> Work] /\ work[t] \in Work /\ files \in [Files -> Writer]
      /\ healthy \subseteq Turns /\ TurnSound(t)
  BY DEF ToolInv, ToolTypeOK
<1>2. CASE Reject(t)
  <2>1. Ending(t, "done")
    BY <1>2 DEF Reject, Ending, File, world, docker, ToolInv, ToolTypeOK, At
  <2> QED
    BY <2>1, EndingInv
<1>3. CASE Inspect(t)
  <2>1. At(t, "execute") /\ ~Ongoing(t)
    BY <1>1, <1>3 DEF Inspect, Executes, TurnSound, At
  <2>2. Ending(t, "done")
    <3>1. PICK outcome \in {"succeeded", "failed"} : File(t, outcome, {})
      BY <1>3 DEF Inspect
    <3> QED
      BY <1>1, <1>3, <2>1, <3>1, FiledEnding DEF Inspect, world, At
  <2> QED
    BY <2>2, EndingInv
<1>4. CASE Baseline(t)
  <2>1. work[t].step = "execute" /\ Writes(work[t].action) /\ work[t].action.risk = "risky"
    BY <1>4 DEF Baseline, Executes, Permitted, At, Does, Writes, Reads
  <2>2. /\ work' \in [Turns -> Work] /\ work'[t].step = "worker"
        /\ work'[t].action = work[t].action
        /\ \A u \in Turns \ {t} : work'[u] = work[u]
    BY <1>1, <1>4 DEF Baseline, Work
  <2>3. Proceeding(t)
    BY <1>1, <1>4, <2>1, <2>2 DEF Baseline, Proceeding, world
  <2> QED
    BY <2>3, ProceedingInv
<1>5. CASE LaunchWorker(t)
  <2>1. work[t].step = "worker" /\ Writes(work[t].action) /\ work[t].action.risk = "risky"
    BY <1>1, <1>5 DEF LaunchWorker, TurnSound, At, Busy
  <2> QED
    BY <1>5, <2>1, LaunchInv DEF LaunchWorker, Kinds
<1>6. CASE Evidence(t)
  <2>1. work[t].step = "exited" /\ Writes(work[t].action)
    BY <1>1, <1>6 DEF Evidence, TurnSound, At, Busy
  <2>2. CASE File(t, "failed", {})
    <3>1. Ending(t, "done")
      BY <1>6, <2>1, <2>2 DEF Evidence, Ending, File, world, docker, ToolInv, ToolTypeOK, At
    <3> QED
      BY <3>1, EndingInv
  <2>3. CASE ~File(t, "failed", {})
    <3> DEFINE found == {f \in Files : files[f] # work[t].before[f]}
               next == IF work[t].exit = 0 /\ work[t].action.tests THEN "tests" ELSE "report"
    <3>1. /\ work' = [work EXCEPT ![t].listed = found, ![t].before = NoWork.before,
                        ![t].step = next]
          /\ UNCHANGED <<world, docker, receipts>>
      BY <1>6, <2>3 DEF Evidence
    <3>2. found \subseteq Files /\ next \in {"tests", "report"}
      OBVIOUS
    <3>3. NoWork.before \in [Files -> Writer]
      BY DEF NoWork, Untouched, Writer
    <3> HIDE DEF found, next
    <3>4. /\ work' \in [Turns -> Work] /\ work'[t].step = next
          /\ work'[t].action = work[t].action
          /\ \A u \in Turns \ {t} : work'[u] = work[u]
      BY <1>1, <3>1, <3>2, <3>3 DEF Work
    <3>5. Proceeding(t)
      BY <1>1, <2>1, <3>1, <3>2, <3>4 DEF Proceeding, world, docker
    <3> QED
      BY <3>5, ProceedingInv
  <2> QED
    BY <2>2, <2>3
<1>7. CASE LaunchTests(t)
  <2>1. work[t].step = "tests" /\ Writes(work[t].action)
    BY <1>1, <1>7 DEF LaunchTests, TurnSound, At, Busy
  <2> QED
    BY <1>7, <2>1, LaunchInv DEF LaunchTests, Kinds
<1>8. CASE TestsEnd(t)
  <2>1. work[t].step = "exited" /\ Writes(work[t].action)
    BY <1>1, <1>8 DEF TestsEnd, TurnSound, At, Busy
  <2>2. /\ work' \in [Turns -> Work] /\ work'[t].step = "report"
        /\ work'[t].action = work[t].action
        /\ \A u \in Turns \ {t} : work'[u] = work[u]
    BY <1>1, <1>8 DEF TestsEnd, Goes, Work
  <2>3. Proceeding(t)
    BY <1>1, <1>8, <2>1, <2>2 DEF TestsEnd, Goes, Proceeding, world, docker
  <2> QED
    BY <2>3, ProceedingInv
<1>9. CASE Report(t)
  <2>1. At(t, "report") /\ ~Ongoing(t) /\ work[t].listed \subseteq Files
    BY <1>1, <1>9 DEF Report, TurnSound, At, Work
  <2>2. Ending(t, "done")
    BY <1>1, <1>9, <2>1 DEF Report, Ending, File, world, docker, At
  <2> QED
    BY <2>2, EndingInv
<1>10. CASE LaunchCommand(t)
  <2>1. work[t].step = "execute" /\ Writes(work[t].action)
    BY <1>10 DEF LaunchCommand, Executes, Permitted, At, Does, Writes, Reads
  <2>2. CASE Executes(t, "write_file") /\ Launch(t, "write", FALSE, repository)
    BY <2>1, <2>2, LaunchInv DEF Kinds
  <2>3. CASE /\ Executes(t, "run_command")
             /\ Launch(t, "command", work[t].action.network, repository)
    <3>1. work[t].action.risk = "risky"
      BY <2>3 DEF Executes, Permitted, Does, Reads
    <3>2. work[t].action.network \in BOOLEAN
      <4>1. NoAction.network \in BOOLEAN /\ \A a \in Actions : a.network \in BOOLEAN
        BY ToolAssumption DEF Action, NoAction
      <4>2. work[t].action \in Actions \cup {NoAction}
        BY <1>1 DEF Work
      <4> QED
        BY <4>1, <4>2
    <3> QED
      BY <2>1, <2>3, <3>1, <3>2, LaunchInv DEF Kinds
  <2> QED
    BY <1>10, <2>2, <2>3 DEF LaunchCommand
<1>11. CASE CommandEnds(t)
  <2>1. At(t, "exited") /\ ~Ongoing(t)
    BY <1>1, <1>11 DEF CommandEnds, TurnSound, At
  <2>2. Ending(t, "done")
    <3>1. PICK outcome \in {"succeeded", "failed"} : File(t, outcome, {})
      BY <1>11 DEF CommandEnds
    <3> QED
      BY <1>1, <1>11, <2>1, <3>1, FiledEnding DEF CommandEnds, world, docker, At
  <2> QED
    BY <2>2, EndingInv
<1>12. CASE MakeDirectory(t)
  <2>1. work[t].step = "execute" /\ Writes(work[t].action)
    BY <1>12 DEF MakeDirectory, Executes, Permitted, At, Does, Writes, Reads
  <2>2. /\ work' \in [Turns -> Work] /\ work'[t].step = "made"
        /\ work'[t].action = work[t].action
        /\ \A u \in Turns \ {t} : work'[u] = work[u]
    BY <1>1, <1>12 DEF MakeDirectory, Goes, Work
  <2>3. Proceeding(t)
    BY <1>1, <1>12, <2>1, <2>2 DEF MakeDirectory, Goes, Proceeding, docker
  <2> QED
    BY <2>3, ProceedingInv
<1>13. CASE LaunchInit(t)
  <2>1. work[t].step = "made" /\ Writes(work[t].action)
    BY <1>1, <1>13 DEF LaunchInit, TurnSound, At, Busy
  <2>2. WithoutDirectory(t) \in {repository, NoDirectory}
    BY DEF WithoutDirectory, NoDirectory
  <2> QED
    BY <1>13, <2>1, <2>2, LaunchInv DEF LaunchInit, Kinds
<1>14. CASE InitEnds(t)
  <2>1. At(t, "exited") /\ ~Ongoing(t)
    BY <1>1, <1>14 DEF InitEnds, TurnSound, At
  <2>2. WithoutDirectory(t) \in {repository, NoDirectory}
    BY DEF WithoutDirectory, NoDirectory
  <2>3. Ending(t, "done")
    BY <1>1, <1>14, <2>1, <2>2 DEF InitEnds, Ending, File, docker, At
  <2> QED
    BY <2>3, EndingInv
<1>15. CASE SendChange(t)
  BY <1>15, SendChangeInv
<1>16. CASE ChangeEnds(t)
  <2>1. At(t, "waiting") /\ (t \in tasks => ~Ongoing(t))
    BY <1>1, <1>16 DEF ChangeEnds, TurnSound, At, ToolInv, Ongoing
  <2>2. Ending(t, "done")
    BY <1>1, <1>16, <2>1 DEF ChangeEnds, Ending, File, world, docker, At
  <2> QED
    BY <2>2, EndingInv
<1>17. CASE ListTasks(t)
  <2>1. At(t, "execute") /\ ~Ongoing(t)
    BY <1>1, <1>17 DEF ListTasks, Executes, TurnSound, At
  <2>2. Ending(t, "done")
    <3>1. PICK outcome \in {"succeeded", "failed"} : File(t, outcome, {})
      BY <1>17 DEF ListTasks
    <3> QED
      BY <1>1, <1>17, <2>1, <3>1, FiledEnding DEF ListTasks, world, docker, At
  <2> QED
    BY <2>2, EndingInv
<1>18. CASE Search(t)
  <2>1. At(t, "execute") /\ ~Ongoing(t)
    BY <1>1, <1>18 DEF Search, Executes, TurnSound, At
  <2>2. Ending(t, "done")
    BY <1>1, <1>18, <2>1 DEF Search, Ending, File, world, docker, At
  <2> QED
    BY <2>2, EndingInv
<1>19. CASE TimeOut(t)
  <2>1. Ending(t, "done")
    <3>1. /\ Stops(t, "done") /\ work[t].step = "running"
          /\ receipts' = [receipts EXCEPT ![t] = [outcome |-> "failed", ids |-> {}]]
          /\ UNCHANGED <<files, tasks, requests, daemon, healthy>>
      BY <1>19 DEF TimeOut, File, At
    <3>2. containers' = Detached(t)
      BY <1>19 DEF TimeOut, Detach, Detached
    <3>3. repository' \in {repository, NoDirectory}
      BY <1>19 DEF TimeOut, WithoutDirectory, NoDirectory
    <3> QED
      BY <1>1, <1>19, <3>1, <3>2, <3>3, FiledEnding DEF TimeOut
  <2> QED
    BY <2>1, EndingInv
<1> QED
  BY <1>2, <1>3, <1>4, <1>5, <1>6, <1>7, <1>8, <1>9, <1>10, <1>11, <1>12, <1>13, <1>14, <1>15,
     <1>16, <1>17, <1>18, <1>19 DEF Adapter

LEMMA CancelToolInv ==
  ASSUME ToolInv, NEW t \in Turns, CancelTool(t)
  PROVE  ToolInv'
<1>1. work[t].step \notin {"idle", "done", "cancelled"} /\ Stops(t, "cancelled")
      /\ UNCHANGED <<files, tasks, requests, daemon, healthy, receipts>>
  BY DEF CancelTool
<1>2. containers' = Detached(t)
  BY DEF CancelTool, Detach, Detached
<1>3. repository' \in {repository, NoDirectory}
  BY DEF CancelTool, WithoutDirectory, NoDirectory
<1>4. healthy \subseteq Turns
  BY DEF ToolInv, ToolTypeOK
<1>5. Ending(t, "cancelled")
  BY <1>1, <1>2, <1>3, <1>4 DEF Ending
<1> QED
  BY <1>5, EndingInv

LEMMA ToolInitInv ==
  ASSUME ToolInit
  PROVE  ToolInv
<1>1. files \in [Files -> Writer] /\ repository \in [made : Turns \cup {Nobody}, git : BOOLEAN]
  BY DEF ToolInit, Untouched, Writer
<1>2. NoWork \in Work /\ NoWork.step = "idle" /\ NoReceipt \in Receipt /\ NoReceipt.outcome = "none"
  <2>1. [f \in Files |-> Untouched] \in [Files -> Writer]
    BY DEF Untouched, Writer
  <2> QED
    BY <2>1 DEF NoWork, Work, NoReceipt, Receipt
<1>3. \A t \in Turns : work[t] = NoWork /\ receipts[t] = NoReceipt
  BY DEF ToolInit
<1>4. \A t \in Turns : ~Affected(t) /\ ~Ongoing(t)
  <2>1. \A f \in Files : files[f].turn = Nobody
    BY DEF ToolInit, Untouched
  <2> QED
    BY <2>1, ToolAssumption DEF ToolInit, Affected, Ongoing
<1>5. \A t \in Turns : TurnSound(t)
  BY <1>2, <1>3, <1>4 DEF TurnSound, ToolInit, At, Busy
<1>6. ToolTypeOK
  BY <1>1, <1>2, <1>3 DEF ToolTypeOK, ToolInit
<1> QED
  BY <1>5, <1>6 DEF ToolInv, ToolInit, ContainersSound

LEMMA ToolNextInv ==
  ASSUME ToolInv, [ToolNext]_toolVars
  PROVE  ToolInv'
<1>1. CASE UNCHANGED toolVars
  BY <1>1 DEF toolVars, world, docker, ToolInv, ToolTypeOK, ContainersSound, TurnSound, Affected,
       Ongoing, At
<1>2. ASSUME NEW t \in Turns,
             (\E action \in Actions : Take(t, action)) \/ Adapter(t) \/ CancelTool(t)
      PROVE  ToolInv'
  BY <1>2, TakeInv, AdapterInv, CancelToolInv
<1>3. CASE Environment
  BY <1>3, ContainerWritesInv, ContainerEndsInv, ChangeAppliedInv, DaemonStopsInv, DaemonStartsInv
     DEF Environment
<1> QED
  BY <1>1, <1>2, <1>3 DEF ToolNext

---------------------------------------------------------------------------
\* The invariant holds in every state of the adapters and their environment.
THEOREM ToolInvariant == ToolSpec => []ToolInv
<1>1. ToolInit => ToolInv
  BY ToolInitInv
<1>2. ToolInv /\ [ToolNext]_toolVars => ToolInv'
  BY ToolNextInv
<1> QED
  BY <1>1, <1>2, PTL DEF ToolSpec

LEMMA InvGivesEffects == ToolInv => EffectsMatchRisk
BY DEF ToolInv, TurnSound, ContainersSound, EffectsMatchRisk, Writes

LEMMA InvGivesLate == ToolInv => LateEffectsAreOfFailures
<1> SUFFICES ASSUME ToolInv, NEW t \in Turns, Ongoing(t)
             PROVE  receipts[t].outcome \in {"none", "failed"}
  BY DEF LateEffectsAreOfFailures, Ongoing
<1> QED
  BY DEF ToolInv, ToolTypeOK, TurnSound, Receipt

\* Whatever a turn changes, starts or sends, in containers and requests that outlive it
\* too, belongs to an action declared at a risk level its adapter requires.
THEOREM EffectsAreAuthorised == ToolSpec => []EffectsMatchRisk
BY ToolInvariant, InvGivesEffects, PTL

\* No receipt but a failed one stands while something of its turn goes on outside: an
\* action whose client was killed or cancelled is never reported as done.
THEOREM LateEffects == ToolSpec => []LateEffectsAreOfFailures
BY ToolInvariant, InvGivesLate, PTL

---------------------------------------------------------------------------
(***************************************************************************)
(* What a receipt says is true.  A receipt is written when everything that *)
(* it speaks of is over, so the invariant has to carry each fact from the  *)
(* step that establishes it to the receipt, while other turns write to the *)
(* same files and try to make the same directory: that a worker's first    *)
(* manifest was taken before it wrote anything, that the list was complete *)
(* when it was made, and that a container which exits with 0 has done its  *)
(* work.                                                                   *)
(***************************************************************************)
\* How the worker of turn t leaves a file.
Mine(t) == [turn |-> t, kind |-> "worker"]

\* The steps of a tool belong to its operation.
Matches(w) ==
  /\ w.step \in {"worker", "tests", "report"} => w.action.op = "code_task"
  /\ w.step = "made" => w.action.op = "create_workspace"
  /\ w.step = "waiting" => w.action.op = "change_task"
  /\ w.step \in {"running", "exited"} =>
       \/ w.kind \in {"worker", "test"} /\ w.action.op = "code_task"
       \/ w.kind = "write" /\ w.action.op = "write_file"
       \/ w.kind = "command" /\ w.action.op = "run_command"
       \/ w.kind = "init" /\ w.action.op = "create_workspace"

Phase(w, step, kind) == w.step = step \/ (w.step \in {"running", "exited"} /\ w.kind = kind)

\* What a container that has written has achieved.
Achieved(t) ==
  /\ work[t].kind = "write" => \A f \in work[t].action.files : files[f] # Untouched
  /\ work[t].kind = "init" => repository.git

ReceiptTrue(t) ==
  /\ receipts[t].outcome \in {"succeeded", "partial"} /\ Does(t, "code_task") =>
       \A f \in Files : files[f] = Mine(t) => f \in receipts[t].ids
  /\ receipts[t].outcome = "succeeded" =>
       /\ Does(t, "code_task") =>
            receipts[t].ids # {} /\ work[t].action.files \subseteq receipts[t].ids
       /\ Does(t, "write_file") => \A f \in work[t].action.files : files[f] # Untouched
       /\ Does(t, "create_workspace") => repository = [made |-> t, git |-> TRUE]
       /\ Does(t, "change_task") => t \in tasks

Honest(t) ==
  /\ Matches(work[t])
  /\ work[t].step \in {"idle", "execute"} => \A f \in Files : files[f] # Mine(t)
  /\ Phase(work[t], "worker", "worker") => \A f \in Files : work[t].before[f] # Mine(t)
  /\ work[t].step = "tests" \/ Phase(work[t], "report", "test") =>
       \A f \in Files : files[f] = Mine(t) => f \in work[t].listed
  /\ Does(t, "create_workspace") /\ work[t].step \in {"made", "running", "exited"} =>
       repository.made = t
  /\ \A k \in containers : k.turn = t /\ At(t, "running") =>
       k.kind = work[t].kind /\ (k.wrote => Achieved(t))
  /\ At(t, "exited") /\ work[t].exit = 0 => Achieved(t)
  /\ ReceiptTrue(t)

HonestInv == ToolInv /\ \A t \in Turns : Honest(t)

---------------------------------------------------------------------------
\* What a step of another turn, or of the environment on its behalf, may do to turn u.
Undisturbed(u) ==
  /\ work'[u] = work[u] /\ receipts'[u] = receipts[u]
  /\ \A f \in Files : files'[f] = files[f] \/ files'[f] \notin {Mine(u), Untouched}
  /\ \/ repository' = repository
     \/ repository.made # u
     \/ repository' = [repository EXCEPT !.git = TRUE]
  /\ u \in tasks => u \in tasks'
  /\ \A k \in containers' : k.turn = u => k \in containers

LEMMA UndisturbedHonest ==
  ASSUME HonestInv, NEW u \in Turns, Undisturbed(u)
  PROVE  Honest(u)'
<1>1. Honest(u) /\ repository \in [made : Turns \cup {Nobody}, git : BOOLEAN]
  BY DEF HonestInv, ToolInv, ToolTypeOK
<1>2. work'[u] = work[u] /\ receipts'[u] = receipts[u]
  BY DEF Undisturbed
<1>3. \A f \in Files : files'[f] = Mine(u) => files[f] = Mine(u)
  BY DEF Undisturbed
<1>4. \A f \in Files : files[f] # Untouched => files'[f] # Untouched
  BY DEF Undisturbed
<1>5. repository.made = u => repository'.made = u /\ (repository.git => repository'.git)
  BY <1>1 DEF Undisturbed
<1>6. repository = [made |-> u, git |-> TRUE] => repository' = repository
  BY <1>1 DEF Undisturbed
<1>7. work[u].kind = "init" /\ work[u].step \in {"running", "exited"} => repository.made = u
  BY <1>1 DEF Honest, Matches, Does
<1>8. work[u].action.op = "write_file" =>
        \E f \in Files : work[u].action.files = {f}
  <2>1. work[u].action \in Actions \cup {NoAction}
    BY DEF HonestInv, ToolInv, ToolTypeOK, Work
  <2> QED
    BY <2>1, ToolAssumption DEF NoAction
<1>9. Achieved(u) /\ work[u].step \in {"running", "exited"} => Achieved(u)'
  <2>1. work[u].kind = "write" /\ work[u].step \in {"running", "exited"} =>
          work[u].action.files \subseteq Files
    BY <1>1, <1>8 DEF Honest, Matches
  <2> QED
    BY <1>2, <1>4, <1>5, <1>7, <2>1 DEF Achieved
<1>10. ReceiptTrue(u)'
  <2>1. ReceiptTrue(u)
    BY <1>1 DEF Honest
  <2>2. u \in tasks => u \in tasks'
    BY DEF Undisturbed
  <2>3. work[u].action.op = "write_file" => work[u].action.files \subseteq Files
    BY <1>8
  <2> QED
    BY <1>2, <1>3, <1>4, <1>6, <2>1, <2>2, <2>3 DEF ReceiptTrue, Does
<1>11. \A k \in containers' : k.turn = u /\ At(u, "running")' =>
         k.kind = work'[u].kind /\ (k.wrote => Achieved(u)')
  BY <1>1, <1>2, <1>9 DEF Honest, At, Undisturbed
<1>12. (At(u, "exited") /\ work[u].exit = 0 => Achieved(u))'
  BY <1>1, <1>2, <1>9 DEF Honest, At
<1>13. (Does(u, "create_workspace") /\ work[u].step \in {"made", "running", "exited"} =>
          repository.made = u)'
  BY <1>1, <1>2, <1>5 DEF Honest, Does
<1>14. /\ Matches(work'[u])
       /\ work'[u].step \in {"idle", "execute"} => \A f \in Files : files'[f] # Mine(u)
       /\ Phase(work'[u], "worker", "worker") => \A f \in Files : work'[u].before[f] # Mine(u)
       /\ work'[u].step = "tests" \/ Phase(work'[u], "report", "test") =>
            \A f \in Files : files'[f] = Mine(u) => f \in work'[u].listed
  BY <1>1, <1>2, <1>3 DEF Honest
<1> QED
  BY <1>10, <1>11, <1>12, <1>13, <1>14 DEF Honest, Mine

\* A step of turn t that writes no file.
Own(t) ==
  /\ UNCHANGED <<files, tasks>>
  /\ \A u \in Turns \ {t} : work'[u] = work[u] /\ receipts'[u] = receipts[u]
  /\ \A k \in containers' : k.turn # t => k \in containers
  /\ repository' = repository \/ repository.made \in {t, Nobody}

LEMMA OwnHonest ==
  ASSUME HonestInv, NEW t \in Turns, Own(t), Honest(t)'
  PROVE  \A u \in Turns : Honest(u)'
<1> SUFFICES ASSUME NEW u \in Turns \ {t} PROVE Honest(u)'
  OBVIOUS
<1>1. Undisturbed(u)
  BY ToolAssumption DEF Own, Undisturbed
<1> QED
  BY <1>1, UndisturbedHonest

\* A turn that has stopped has only its receipt to answer for.
LEMMA StoppedHonest ==
  ASSUME NEW t \in Turns, work'[t].step \in {"done", "cancelled"}, ReceiptTrue(t)'
  PROVE  Honest(t)'
BY DEF Honest, Matches, Phase, At

\* What filing a result leaves of a tool.
LEMMA FileFacts ==
  ASSUME ToolInv, NEW t \in Turns, NEW outcome, NEW ids, File(t, outcome, ids)
  PROVE  /\ work'[t].step = "done" /\ work'[t].action = work[t].action
         /\ receipts'[t] = [outcome |-> outcome, ids |-> ids]
         /\ \A u \in Turns \ {t} : work'[u] = work[u] /\ receipts'[u] = receipts[u]
<1>1. work \in [Turns -> Work] /\ receipts \in [Turns -> Receipt]
  BY DEF ToolInv, ToolTypeOK
<1> QED
  BY <1>1 DEF File, Stops, NoWork

\* A failure claims nothing.
LEMMA FailureHonest ==
  ASSUME ToolInv, NEW t \in Turns, File(t, "failed", {})
  PROVE  Honest(t)'
<1>1. work'[t].step = "done" /\ receipts'[t] = [outcome |-> "failed", ids |-> {}]
  BY FileFacts
<1>2. receipts'[t].outcome = "failed"
  BY <1>1
<1> QED
  BY <1>1, <1>2, StoppedHonest DEF ReceiptTrue

\* Only its maker removes a directory.
LEMMA RemovedByMaker ==
  ASSUME HonestInv, NEW t \in Turns, work[t].step \notin {"idle", "done", "cancelled"}
  PROVE  WithoutDirectory(t) = repository \/ repository.made = t
<1>1. Honest(t) /\ work[t].step \in {"execute", "worker", "made", "running", "exited", "tests",
                                     "report", "waiting"}
  BY DEF HonestInv, ToolInv, ToolTypeOK, Work
<1>2. CASE Does(t, "create_workspace") /\ work[t].step # "execute"
  BY <1>1, <1>2 DEF Honest, Matches, Does
<1>3. CASE ~(Does(t, "create_workspace") /\ work[t].step # "execute")
  BY <1>3 DEF WithoutDirectory
<1> QED
  BY <1>2, <1>3

---------------------------------------------------------------------------
\* The conditions under which a container of a kind is started.
Prepared(t, kind) ==
  \/ kind = "worker" /\ At(t, "worker")
  \/ kind = "test" /\ At(t, "tests")
  \/ kind = "init" /\ At(t, "made")
  \/ kind = "write" /\ At(t, "execute") /\ Does(t, "write_file")
  \/ kind = "command" /\ At(t, "execute") /\ Does(t, "run_command")

LEMMA LaunchHonest ==
  ASSUME HonestInv, NEW t \in Turns, NEW kind \in Kinds, NEW network \in BOOLEAN,
         NEW Undone, Launch(t, kind, network, Undone), Prepared(t, kind),
         Undone = repository \/ repository.made = t
  PROVE  Own(t) /\ Honest(t)'
<1>1. /\ Honest(t) /\ work \in [Turns -> Work] /\ work[t] \in Work /\ ToolInv
      /\ receipts[t].outcome = "none" /\ \A k \in containers : k.turn # t
  BY DEF HonestInv, ToolInv, ToolTypeOK, TurnSound, Prepared, At, Ongoing, Receipt
<1>2. /\ work[t].step \in {"execute", "worker", "made", "tests"}
      /\ Matches([step |-> "running", kind |-> kind, action |-> work[t].action])
  BY <1>1 DEF Prepared, Honest, Matches, At, Does
<1>3. ASSUME /\ work'[t].step \in {"running", "exited"} /\ work'[t].kind = kind
             /\ work'[t].action = work[t].action /\ work'[t].before = work[t].before
             /\ work'[t].listed = work[t].listed
             /\ UNCHANGED <<world, receipts>>,
             \A k \in containers' : k.turn = t /\ work'[t].step = "running" =>
               k.kind = kind /\ ~k.wrote,
             work'[t].step = "exited" => work'[t].exit = 1 \/ kind = "test"
      PROVE  Honest(t)'
  <2>1. Matches(work'[t])
    BY <1>2, <1>3 DEF Matches
  <2>2. Phase(work'[t], "worker", "worker") => \A f \in Files : work'[t].before[f] # Mine(t)
    BY <1>1, <1>3 DEF Prepared, Honest, Phase, At
  <2>3. work'[t].step = "tests" \/ Phase(work'[t], "report", "test") =>
          \A f \in Files : files'[f] = Mine(t) => f \in work'[t].listed
    BY <1>1, <1>3 DEF Prepared, Honest, Phase, At, world
  <2>4. Does(t, "create_workspace") => work[t].step = "made"
    BY <1>1, <1>2 DEF Prepared, Honest, Matches, At, Does
  <2>5. Does(t, "create_workspace") => repository'.made = t
    BY <1>1, <1>3, <2>4 DEF Honest, world
  <2>6. Does(t, "create_workspace")' <=> Does(t, "create_workspace")
    BY <1>3 DEF Does
  <2>7. (At(t, "exited") /\ work[t].exit = 0 => Achieved(t))'
    BY <1>3 DEF Achieved, At
  <2>8. ReceiptTrue(t)'
    BY <1>1, <1>3 DEF ReceiptTrue
  <2> QED
    BY <1>3, <2>1, <2>2, <2>3, <2>5, <2>6, <2>7, <2>8 DEF Honest, At, Mine
<1>4. CASE Starts(t, kind, network)
  <2> DEFINE new == [turn |-> t, kind |-> kind, network |-> network, attached |-> TRUE,
                     wrote |-> FALSE]
  <2>1. /\ work' = [work EXCEPT ![t].step = "running", ![t].kind = kind]
        /\ containers' = containers \cup {new} /\ UNCHANGED <<world, receipts>>
    BY <1>4 DEF Starts
  <2>2. /\ work'[t].step = "running" /\ work'[t].kind = kind
        /\ work'[t].action = work[t].action /\ work'[t].before = work[t].before
        /\ work'[t].listed = work[t].listed
        /\ \A u \in Turns \ {t} : work'[u] = work[u]
    BY <1>1, <2>1 DEF Work
  <2>3. new.turn = t /\ new.kind = kind /\ ~new.wrote
    OBVIOUS
  <2> HIDE DEF new
  <2>4. Honest(t)'
    BY <1>1, <1>3, <2>1, <2>2, <2>3
  <2>5. Own(t)
    BY <2>1, <2>2, <2>3 DEF Own, world
  <2> QED
    BY <2>4, <2>5
<1>5. CASE /\ work' = [work EXCEPT ![t].step = "exited", ![t].kind = kind,
                   ![t].exit = IF kind = "test" THEN @ ELSE 1,
                   ![t].tested = IF kind = "test" THEN 1 ELSE @]
           /\ UNCHANGED <<world, docker, receipts>>
  <2>1. /\ work'[t].step = "exited" /\ work'[t].kind = kind
        /\ work'[t].action = work[t].action /\ work'[t].before = work[t].before
        /\ work'[t].listed = work[t].listed
        /\ work'[t].exit = 1 \/ kind = "test"
        /\ \A u \in Turns \ {t} : work'[u] = work[u]
    BY <1>1, <1>5 DEF Work
  <2>2. Honest(t)'
    BY <1>1, <1>3, <1>5, <2>1 DEF docker
  <2>3. Own(t)
    BY <1>5, <2>1 DEF Own, world, docker
  <2> QED
    BY <2>2, <2>3
<1>6. CASE /\ File(t, "failed", {}) /\ repository' = Undone
           /\ UNCHANGED <<files, tasks, requests, docker>>
  <2>1. Honest(t)'
    BY <1>1, <1>6, FailureHonest
  <2>2. \A u \in Turns \ {t} : work'[u] = work[u] /\ receipts'[u] = receipts[u]
    BY <1>1, <1>6, FileFacts
  <2>3. Own(t)
    BY <1>6, <2>2 DEF Own, docker
  <2> QED
    BY <2>1, <2>3
<1> QED
  BY <1>4, <1>5, <1>6 DEF Launch, Starts

---------------------------------------------------------------------------
\* A result that is filed with its client gone and the directory left alone, or removed by
\* its maker.
LEMMA FiledHonest ==
  ASSUME HonestInv, NEW t \in Turns, NEW outcome, NEW ids, File(t, outcome, ids),
         UNCHANGED <<files, tasks>>, repository' = repository \/ repository.made = t,
         \A k \in containers' : k.turn # t => k \in containers, ReceiptTrue(t)'
  PROVE  Own(t) /\ Honest(t)'
<1>1. /\ work'[t].step = "done"
      /\ \A u \in Turns \ {t} : work'[u] = work[u] /\ receipts'[u] = receipts[u]
  BY FileFacts DEF HonestInv
<1> QED
  BY <1>1, StoppedHonest DEF Own

\* What ReceiptTrue asks of a result that succeeds, in terms of the action.
LEMMA FiledTrue ==
  ASSUME HonestInv, NEW t \in Turns, NEW outcome, NEW ids, File(t, outcome, ids),
         UNCHANGED <<files, tasks>>,
         outcome \in {"succeeded", "partial"} /\ Does(t, "code_task") =>
           \A f \in Files : files[f] = Mine(t) => f \in ids,
         outcome = "succeeded" =>
           /\ Does(t, "code_task") => ids # {} /\ work[t].action.files \subseteq ids
           /\ Does(t, "write_file") => \A f \in work[t].action.files : files[f] # Untouched
           /\ Does(t, "create_workspace") => repository' = [made |-> t, git |-> TRUE]
           /\ Does(t, "change_task") => t \in tasks
  PROVE  ReceiptTrue(t)'
<1>1. /\ work'[t].action = work[t].action
      /\ receipts'[t] = [outcome |-> outcome, ids |-> ids]
  BY FileFacts DEF HonestInv
<1>2. receipts'[t].outcome = outcome /\ receipts'[t].ids = ids
  BY <1>1
<1>3. \A op : Does(t, op)' <=> Does(t, op)
  BY <1>1 DEF Does
<1> QED
  BY <1>1, <1>2, <1>3 DEF ReceiptTrue, Mine

\* A tool that goes on by itself, without a container.
LEMMA GoesHonest ==
  ASSUME HonestInv, NEW t \in Turns, work[t].step \notin {"running", "done", "cancelled"},
         receipts' = receipts, work'[t].action = work[t].action,
         work'[t].step \in {"worker", "made", "tests", "report", "waiting"},
         Matches(work'[t]),
         work'[t].step = "worker" => \A f \in Files : work'[t].before[f] # Mine(t),
         work'[t].step \in {"tests", "report"} =>
           \A f \in Files : files'[f] = Mine(t) => f \in work'[t].listed,
         work'[t].step = "made" => repository'.made = t
  PROVE  Honest(t)'
<1>1. receipts[t].outcome = "none"
  BY DEF HonestInv, ToolInv, ToolTypeOK, TurnSound, At, Receipt
<1>2. ReceiptTrue(t)'
  BY <1>1 DEF ReceiptTrue
<1> QED
  BY <1>2 DEF Honest, Phase, At, Mine

LEMMA CodeTaskHonest ==
  ASSUME HonestInv, NEW t \in Turns,
         \/ Baseline(t) \/ LaunchWorker(t) \/ Evidence(t) \/ LaunchTests(t) \/ TestsEnd(t)
         \/ Report(t)
  PROVE  Own(t) /\ Honest(t)'
<1>1. /\ ToolInv /\ Honest(t) /\ work \in [Turns -> Work] /\ work[t] \in Work
      /\ files \in [Files -> Writer]
  BY DEF HonestInv, ToolInv, ToolTypeOK
<1>2. CASE Baseline(t)
  <2>1. /\ work[t].step = "execute" /\ work[t].action.op = "code_task"
        /\ work' = [work EXCEPT ![t].step = "worker", ![t].before = files]
        /\ UNCHANGED <<world, daemon, containers, receipts>>
    BY <1>2 DEF Baseline, Executes, At, Does
  <2>2. /\ work'[t].step = "worker" /\ work'[t].before = files
        /\ work'[t].action = work[t].action
        /\ \A u \in Turns \ {t} : work'[u] = work[u]
    BY <1>1, <2>1 DEF Work
  <2>3. Matches(work'[t])
    BY <2>1, <2>2 DEF Matches
  <2>4. \A f \in Files : files[f] # Mine(t)
    BY <1>1, <2>1 DEF Honest
  <2>5. Honest(t)'
    BY <2>1, <2>2, <2>3, <2>4, GoesHonest
  <2>6. Own(t)
    BY <2>1, <2>2 DEF Own, world
  <2> QED
    BY <2>5, <2>6
<1>3. CASE LaunchWorker(t)
  BY <1>3, LaunchHonest DEF LaunchWorker, Prepared, Kinds
<1>4. CASE Evidence(t)
  <2>1. /\ work[t].step = "exited" /\ work[t].kind = "worker" /\ UNCHANGED <<world, docker>>
        /\ work[t].action.op = "code_task"
    BY <1>1, <1>4 DEF Evidence, At, Honest, Matches
  <2>2. CASE File(t, "failed", {})
    <3>1. Honest(t)'
      BY <1>1, <2>2, FailureHonest
    <3>2. \A u \in Turns \ {t} : work'[u] = work[u] /\ receipts'[u] = receipts[u]
      BY <1>1, <2>2, FileFacts
    <3> QED
      BY <2>1, <3>1, <3>2 DEF Own, world, docker
  <2>3. CASE ~File(t, "failed", {})
    <3> DEFINE found == {f \in Files : files[f] # work[t].before[f]}
               next == IF work[t].exit = 0 /\ work[t].action.tests THEN "tests" ELSE "report"
    <3>1. /\ work' = [work EXCEPT ![t].listed = found, ![t].before = NoWork.before,
                        ![t].step = next]
          /\ UNCHANGED receipts
      BY <1>4, <2>3 DEF Evidence
    <3>2. next \in {"tests", "report"}
      OBVIOUS
    <3>3. \A f \in Files : files[f] = Mine(t) => f \in found
      BY <1>1, <2>1 DEF Honest, Phase
    <3> HIDE DEF found, next
    <3>4. /\ work'[t].step = next /\ work'[t].listed = found
          /\ work'[t].action = work[t].action
          /\ \A u \in Turns \ {t} : work'[u] = work[u]
      BY <1>1, <3>1 DEF Work
    <3>5. Matches(work'[t])
      BY <2>1, <3>2, <3>4 DEF Matches
    <3>6. Honest(t)'
      BY <2>1, <3>1, <3>2, <3>3, <3>4, <3>5, GoesHonest DEF world
    <3>7. Own(t)
      BY <2>1, <3>1, <3>4 DEF Own, world, docker
    <3> QED
      BY <3>6, <3>7
  <2> QED
    BY <2>2, <2>3
<1>5. CASE LaunchTests(t)
  BY <1>5, LaunchHonest DEF LaunchTests, Prepared, Kinds
<1>6. CASE TestsEnd(t)
  <2>1. /\ work[t].step = "exited" /\ work[t].kind = "test" /\ UNCHANGED <<world, docker>>
        /\ work' = [work EXCEPT ![t].step = "report"] /\ UNCHANGED receipts
        /\ work[t].action.op = "code_task"
    BY <1>1, <1>6 DEF TestsEnd, Goes, At, Honest, Matches
  <2>2. /\ work'[t].step = "report" /\ work'[t].listed = work[t].listed
        /\ work'[t].action = work[t].action
        /\ \A u \in Turns \ {t} : work'[u] = work[u]
    BY <1>1, <2>1 DEF Work
  <2>3. \A f \in Files : files[f] = Mine(t) => f \in work[t].listed
    BY <1>1, <2>1 DEF Honest, Phase
  <2>4. Matches(work'[t])
    BY <2>1, <2>2 DEF Matches
  <2>5. Honest(t)'
    BY <2>1, <2>2, <2>3, <2>4, GoesHonest DEF world
  <2>6. Own(t)
    BY <2>1, <2>2 DEF Own, world, docker
  <2> QED
    BY <2>5, <2>6
<1>7. CASE Report(t)
  <2> DEFINE listed == work[t].listed
             verified == listed # {} /\ work[t].action.files \subseteq listed
             outcome == IF work[t].exit = 0 /\ verified /\ work[t].tested = 0 THEN "succeeded"
                        ELSE IF listed # {} THEN "partial" ELSE "failed"
  <2>1. /\ work[t].step = "report" /\ File(t, outcome, listed) /\ UNCHANGED <<world, docker>>
        /\ work[t].action.op = "code_task"
    BY <1>1, <1>7 DEF Report, At, Honest, Matches
  <2>2. outcome = "succeeded" => verified
    OBVIOUS
  <2>3. \A f \in Files : files[f] = Mine(t) => f \in listed
    BY <1>1, <2>1 DEF Honest, Phase
  <2>4. UNCHANGED <<files, tasks, repository, containers>>
    BY <2>1 DEF world, docker
  <2> HIDE DEF outcome
  <2>5. ReceiptTrue(t)'
    BY <2>1, <2>2, <2>3, <2>4, FiledTrue DEF Does
  <2> QED
    BY <2>1, <2>4, <2>5, FiledHonest
<1> QED
  BY <1>2, <1>3, <1>4, <1>5, <1>6, <1>7

LEMMA WorkspaceHonest ==
  ASSUME HonestInv, NEW t \in Turns,
         LaunchCommand(t) \/ CommandEnds(t) \/ MakeDirectory(t) \/ LaunchInit(t) \/ InitEnds(t)
  PROVE  Own(t) /\ Honest(t)'
<1>1. /\ ToolInv /\ Honest(t) /\ work \in [Turns -> Work] /\ work[t] \in Work
      /\ repository \in [made : Turns \cup {Nobody}, git : BOOLEAN]
  BY DEF HonestInv, ToolInv, ToolTypeOK
<1>2. CASE LaunchCommand(t)
  <2>1. CASE Executes(t, "write_file") /\ Launch(t, "write", FALSE, repository)
    BY <2>1, LaunchHonest DEF Executes, Prepared, Kinds
  <2>2. CASE /\ Executes(t, "run_command")
             /\ Launch(t, "command", work[t].action.network, repository)
    <3>1. work[t].action.network \in BOOLEAN
      <4>1. NoAction.network \in BOOLEAN /\ \A a \in Actions : a.network \in BOOLEAN
        BY ToolAssumption DEF Action, NoAction
      <4>2. work[t].action \in Actions \cup {NoAction}
        BY <1>1 DEF Work
      <4> QED
        BY <4>1, <4>2
    <3> QED
      BY <2>2, <3>1, LaunchHonest DEF Executes, Prepared, Kinds
  <2> QED
    BY <1>2, <2>1, <2>2 DEF LaunchCommand
<1>3. CASE CommandEnds(t)
  <2> DEFINE outcome == IF work[t].exit = 0 THEN "succeeded" ELSE "failed"
  <2>1. /\ work[t].step = "exited" /\ work[t].kind \in {"write", "command"}
        /\ File(t, outcome, {}) /\ UNCHANGED <<world, docker>>
    BY <1>3 DEF CommandEnds, At
  <2>2. \/ work[t].kind = "write" /\ work[t].action.op = "write_file"
        \/ work[t].kind = "command" /\ work[t].action.op = "run_command"
    BY <1>1, <2>1 DEF Honest, Matches
  <2>3. outcome = "succeeded" /\ work[t].kind = "write" =>
          \A f \in work[t].action.files : files[f] # Untouched
    BY <1>1, <2>1 DEF Honest, Achieved, At
  <2>4. UNCHANGED <<files, tasks, repository, containers>>
    BY <2>1 DEF world, docker
  <2> HIDE DEF outcome
  <2>5. ReceiptTrue(t)'
    BY <2>1, <2>2, <2>3, <2>4, FiledTrue DEF Does
  <2> QED
    BY <2>1, <2>4, <2>5, FiledHonest
<1>4. CASE MakeDirectory(t)
  <2>1. /\ work[t].step = "execute" /\ work[t].action.op = "create_workspace"
        /\ repository.made = Nobody /\ repository' = [made |-> t, git |-> FALSE]
        /\ work' = [work EXCEPT ![t].step = "made"]
        /\ UNCHANGED <<files, tasks, requests, docker, receipts>>
    BY <1>4 DEF MakeDirectory, Executes, Goes, At, Does
  <2>2. /\ work'[t].step = "made" /\ work'[t].action = work[t].action
        /\ \A u \in Turns \ {t} : work'[u] = work[u]
    BY <1>1, <2>1 DEF Work
  <2>3. Matches(work'[t]) /\ repository'.made = t
    BY <2>1, <2>2 DEF Matches
  <2>4. Honest(t)'
    BY <2>1, <2>2, <2>3, GoesHonest
  <2>5. Own(t)
    BY <2>1, <2>2 DEF Own, docker
  <2> QED
    BY <2>4, <2>5
<1>5. CASE LaunchInit(t)
  <2>1. WithoutDirectory(t) = repository \/ repository.made = t
    BY <1>5, RemovedByMaker DEF LaunchInit, At
  <2> QED
    BY <1>5, <2>1, LaunchHonest DEF LaunchInit, Prepared, Kinds
<1>6. CASE InitEnds(t)
  <2>1. /\ work[t].step = "exited" /\ work[t].kind = "init"
        /\ UNCHANGED <<files, tasks, requests, docker>>
    BY <1>6 DEF InitEnds, At
  <2>2. work[t].action.op = "create_workspace" /\ repository.made = t
    BY <1>1, <2>1 DEF Honest, Matches, Does
  <2>3. CASE work[t].exit = 0
    <3>1. File(t, "succeeded", {"path"}) /\ repository' = repository
      BY <1>6, <2>3 DEF InitEnds
    <3>2. repository = [made |-> t, git |-> TRUE]
      BY <1>1, <2>1, <2>2, <2>3 DEF Honest, Achieved, At
    <3>3. ReceiptTrue(t)'
      BY <2>1, <2>2, <3>1, <3>2, FiledTrue DEF Does
    <3> QED
      BY <2>1, <3>1, <3>3, FiledHonest DEF docker
  <2>4. CASE work[t].exit # 0
    <3>1. File(t, "failed", {})
      BY <1>6, <2>4 DEF InitEnds
    <3>2. ReceiptTrue(t)'
      BY <2>1, <3>1, FiledTrue
    <3> QED
      BY <2>1, <2>2, <3>1, <3>2, FiledHonest DEF docker
  <2> QED
    BY <2>3, <2>4
<1> QED
  BY <1>2, <1>3, <1>4, <1>5, <1>6

\* Inspections, changes of tasks, searches, refusals and timeouts.
LEMMA ServiceHonest ==
  ASSUME HonestInv, NEW t \in Turns,
         \/ Reject(t) \/ Inspect(t) \/ SendChange(t) \/ ChangeEnds(t) \/ ListTasks(t)
         \/ Search(t) \/ TimeOut(t)
  PROVE  Own(t) /\ Honest(t)'
<1>1. /\ ToolInv /\ Honest(t) /\ work \in [Turns -> Work] /\ work[t] \in Work
  BY DEF HonestInv, ToolInv, ToolTypeOK
<1>2. CASE Reject(t)
  <2>1. File(t, "failed", {}) /\ UNCHANGED <<files, tasks, repository, containers>>
    BY <1>2 DEF Reject, world, docker
  <2>2. ReceiptTrue(t)'
    BY <2>1, FiledTrue
  <2> QED
    BY <2>1, <2>2, FiledHonest
<1>3. CASE Inspect(t) \/ ListTasks(t) \/ Search(t)
  <2>1. /\ work[t].action.op \in Reads /\ UNCHANGED <<files, tasks, repository, containers>>
        /\ \E outcome \in {"succeeded", "failed"}, ids \in SUBSET Sources : File(t, outcome, ids)
    BY <1>3 DEF Inspect, ListTasks, Search, Executes, Does, Reads, world, docker
  <2>2. PICK outcome \in {"succeeded", "failed"}, ids \in SUBSET Sources : File(t, outcome, ids)
    BY <2>1
  <2>3. ReceiptTrue(t)'
    BY <2>1, <2>2, FiledTrue DEF Does, Reads
  <2> QED
    BY <2>1, <2>2, <2>3, FiledHonest
<1>4. CASE SendChange(t)
  <2>1. /\ work[t].step = "execute" /\ work[t].action.op = "change_task"
        /\ work' = [work EXCEPT ![t].step = "waiting"]
        /\ UNCHANGED <<files, repository, tasks, docker, receipts>>
    BY <1>4 DEF SendChange, Executes, Goes, At, Does
  <2>2. /\ work'[t].step = "waiting" /\ work'[t].action = work[t].action
        /\ \A u \in Turns \ {t} : work'[u] = work[u]
    BY <1>1, <2>1 DEF Work
  <2>3. Matches(work'[t])
    BY <2>1, <2>2 DEF Matches
  <2>4. Honest(t)'
    BY <2>1, <2>2, <2>3, GoesHonest
  <2>5. Own(t)
    BY <2>1, <2>2 DEF Own, docker
  <2> QED
    BY <2>4, <2>5
<1>5. CASE ChangeEnds(t)
  <2>1. /\ work[t].action.op = "change_task" /\ UNCHANGED <<files, tasks, repository, containers>>
        /\ (t \in tasks /\ File(t, "succeeded", {"task"})) \/ File(t, "failed", {})
    BY <1>1, <1>5 DEF ChangeEnds, At, Honest, Matches, world, docker
  <2>2. CASE t \in tasks /\ File(t, "succeeded", {"task"})
    <3>1. ReceiptTrue(t)'
      BY <2>1, <2>2, FiledTrue DEF Does
    <3> QED
      BY <2>1, <2>2, <3>1, FiledHonest
  <2>3. CASE File(t, "failed", {})
    <3>1. ReceiptTrue(t)'
      BY <2>1, <2>3, FiledTrue
    <3> QED
      BY <2>1, <2>3, <3>1, FiledHonest
  <2> QED
    BY <2>1, <2>2, <2>3
<1>6. CASE TimeOut(t)
  <2>1. /\ work[t].step = "running" /\ File(t, "failed", {}) /\ UNCHANGED <<files, tasks>>
        /\ repository' \in {repository, WithoutDirectory(t)} /\ containers' = Detached(t)
    BY <1>6 DEF TimeOut, At, Detach, Detached
  <2>2. repository' = repository \/ repository.made = t
    BY <2>1, RemovedByMaker
  <2>3. \A k \in containers' : k.turn # t => k \in containers
    BY <1>1, <2>1, DetachedFacts
  <2>4. ReceiptTrue(t)'
    BY <2>1, FiledTrue
  <2> QED
    BY <2>1, <2>2, <2>3, <2>4, FiledHonest
<1> QED
  BY <1>2, <1>3, <1>4, <1>5, <1>6

LEMMA TakeHonest ==
  ASSUME HonestInv, NEW t \in Turns, NEW action \in Actions, Take(t, action)
  PROVE  Own(t) /\ Honest(t)'
<1>1. /\ Honest(t) /\ work \in [Turns -> Work] /\ work[t] \in Work
      /\ work[t].step = "idle" /\ receipts[t].outcome = "none"
      /\ work' = [work EXCEPT ![t].step = "execute", ![t].action = action]
      /\ UNCHANGED <<world, docker, receipts>>
  BY DEF HonestInv, ToolInv, ToolTypeOK, TurnSound, Take, At, Receipt
<1>2. /\ work'[t].step = "execute"
      /\ \A u \in Turns \ {t} : work'[u] = work[u]
  BY <1>1 DEF Work
<1>3. \A f \in Files : files'[f] # Mine(t)
  BY <1>1 DEF Honest, world
<1>4. ReceiptTrue(t)'
  BY <1>1 DEF ReceiptTrue
<1>5. Honest(t)'
  BY <1>2, <1>3, <1>4 DEF Honest, Matches, Phase, At, Mine
<1>6. Own(t)
  BY <1>1, <1>2 DEF Own, world, docker
<1> QED
  BY <1>5, <1>6

LEMMA CancelToolHonest ==
  ASSUME HonestInv, NEW t \in Turns, CancelTool(t)
  PROVE  Own(t) /\ Honest(t)'
<1>1. /\ ToolInv /\ work \in [Turns -> Work] /\ work[t] \in Work
      /\ work[t].step \notin {"idle", "done", "cancelled"} /\ receipts[t].outcome = "none"
      /\ Stops(t, "cancelled") /\ UNCHANGED <<files, tasks, receipts>>
      /\ repository' \in {repository, WithoutDirectory(t)} /\ containers' = Detached(t)
  BY DEF HonestInv, ToolInv, ToolTypeOK, TurnSound, CancelTool, At, Receipt, Detach, Detached
<1>2. /\ work'[t].step = "cancelled"
      /\ \A u \in Turns \ {t} : work'[u] = work[u]
  BY <1>1 DEF Stops, NoWork
<1>3. repository' = repository \/ repository.made = t
  BY <1>1, RemovedByMaker
<1>4. \A k \in containers' : k.turn # t => k \in containers
  BY <1>1, DetachedFacts
<1>5. ReceiptTrue(t)'
  BY <1>1 DEF ReceiptTrue
<1> QED
  BY <1>1, <1>2, <1>3, <1>4, <1>5, StoppedHonest DEF Own

---------------------------------------------------------------------------
\* A command that ends with 0 has achieved what it was started for.
LEMMA ExitHonest ==
  ASSUME HonestInv, NEW u \in Turns, work[u].step = "running",
         work'[u].step = "exited", work'[u].kind = work[u].kind,
         work'[u].action = work[u].action, work'[u].before = work[u].before,
         work'[u].listed = work[u].listed, UNCHANGED <<files, repository, tasks, receipts>>,
         work'[u].exit = 0 => Achieved(u)
  PROVE  Honest(u)'
<1>1. Honest(u) /\ receipts[u].outcome = "none"
  BY DEF HonestInv, ToolInv, ToolTypeOK, TurnSound, At, Receipt
<1>2. ReceiptTrue(u)'
  BY <1>1 DEF ReceiptTrue
<1>3. Matches(work'[u])
  BY <1>1 DEF Honest, Matches
<1>4. /\ Phase(work'[u], "worker", "worker") => Phase(work[u], "worker", "worker")
      /\ work'[u].step = "tests" \/ Phase(work'[u], "report", "test") =>
           Phase(work[u], "report", "test")
  BY DEF Phase
<1>5. (At(u, "exited") /\ work[u].exit = 0 => Achieved(u))'
  BY DEF Achieved, At
<1>6. (Does(u, "create_workspace") => repository.made = u)'
  BY <1>1 DEF Honest, Does
<1> QED
  BY <1>1, <1>2, <1>3, <1>4, <1>5, <1>6 DEF Honest, At, Mine

LEMMA ContainerEndsHonest ==
  ASSUME HonestInv, NEW k \in containers, ContainerEnds(k)
  PROVE  \A u \in Turns : Honest(u)'
<1> DEFINE ended == IF k.attached THEN {k.turn} ELSE {}
<1>1. /\ ToolInv /\ k \in Container /\ k.turn \in Turns /\ containers' = containers \ {k}
      /\ UNCHANGED <<files, repository, tasks, receipts>>
  BY DEF HonestInv, ToolInv, ToolTypeOK, Container, ContainerEnds, world
<1>2. PICK exit \in {0, 1} :
        /\ (exit = 0 /\ k.kind \in {"write", "init"}) => k.wrote
        /\ Exited(ended, exit)
  BY DEF ContainerEnds
<1>3. \A u \in ended : u = k.turn /\ k.attached
  BY DEF ended
<1> HIDE DEF ended
<1>4. \A u \in Turns : u \notin ended => work'[u] = work[u]
  BY <1>1, <1>2, ExitedFacts
<1>5. ASSUME NEW u \in Turns, u \notin ended PROVE Honest(u)'
  <2>1. Undisturbed(u)
    BY <1>1, <1>4, <1>5 DEF Undisturbed
  <2> QED
    BY <2>1, UndisturbedHonest
<1>6. ASSUME NEW u \in Turns, u \in ended PROVE Honest(u)'
  <2>1. u = k.turn /\ work[u].step = "running" /\ work[u] \in Work
    BY <1>1, <1>3, <1>6 DEF ToolInv, ToolTypeOK
  <2>2. k.kind = work[u].kind /\ (k.wrote => Achieved(u))
    BY <2>1 DEF HonestInv, Honest, At
  <2>3. work'[u] = IF work[u].kind = "test"
                   THEN [work[u] EXCEPT !.step = "exited", !.tested = exit]
                   ELSE [work[u] EXCEPT !.step = "exited", !.exit = exit]
    BY <1>2, <1>6 DEF Exited
  <2>4. /\ work'[u].step = "exited" /\ work'[u].kind = work[u].kind
        /\ work'[u].action = work[u].action /\ work'[u].before = work[u].before
        /\ work'[u].listed = work[u].listed
        /\ work[u].kind # "test" => work'[u].exit = exit
    BY <2>1, <2>3 DEF Work
  <2>5. work[u].kind \notin {"write", "init"} => Achieved(u)
    BY DEF Achieved
  <2>6. work'[u].exit = 0 => Achieved(u)
    BY <1>2, <2>2, <2>4, <2>5
  <2> QED
    BY <1>1, <2>1, <2>4, <2>6, ExitHonest
<1> QED
  BY <1>5, <1>6

LEMMA DaemonStopsHonest ==
  ASSUME HonestInv, DaemonStops
  PROVE  \A u \in Turns : Honest(u)'
<1>1. /\ ToolInv /\ containers' = {} /\ UNCHANGED <<files, repository, tasks, receipts>>
      /\ Exited({t \in Turns : At(t, "running")}, 1)
  BY DEF HonestInv, DaemonStops, world
<1>2. ASSUME NEW u \in Turns, work[u].step # "running" PROVE Honest(u)'
  <2>1. work'[u] = work[u]
    BY <1>1, <1>2 DEF Exited, At
  <2>2. Undisturbed(u)
    BY <1>1, <2>1 DEF Undisturbed
  <2> QED
    BY <2>2, UndisturbedHonest
<1>3. ASSUME NEW u \in Turns, work[u].step = "running" PROVE Honest(u)'
  <2>1. work[u] \in Work
    BY <1>1 DEF ToolInv, ToolTypeOK
  <2>2. work'[u] = IF work[u].kind = "test"
                   THEN [work[u] EXCEPT !.step = "exited", !.tested = 1]
                   ELSE [work[u] EXCEPT !.step = "exited", !.exit = 1]
    BY <1>1, <1>3 DEF Exited, At
  <2>3. /\ work'[u].step = "exited" /\ work'[u].kind = work[u].kind
        /\ work'[u].action = work[u].action /\ work'[u].before = work[u].before
        /\ work'[u].listed = work[u].listed
        /\ work[u].kind # "test" => work'[u].exit = 1
    BY <2>1, <2>2 DEF Work
  <2>4. work'[u].exit = 0 => Achieved(u)
    BY <2>3 DEF Achieved
  <2> QED
    BY <1>1, <1>3, <2>3, <2>4, ExitHonest
<1> QED
  BY <1>2, <1>3

\* A container writes only for a turn that waits for it or has given it up.
LEMMA ContainerWritesHonest ==
  ASSUME HonestInv, NEW k \in containers, ContainerWrites(k)
  PROVE  \A u \in Turns : Honest(u)'
<1> DEFINE t == k.turn
           after == [k EXCEPT !.wrote = TRUE]
           mark == [turn |-> t, kind |-> k.kind]
<1>1. /\ ToolInv /\ k \in Container /\ t \in Turns /\ work[t] \in Work
      /\ containers' = (containers \ {k}) \cup {after}
      /\ UNCHANGED <<tasks, work, receipts>>
      /\ \A l \in containers : l.turn = t => l = k
  BY DEF HonestInv, ToolInv, ToolTypeOK, ContainersSound, Container, ContainerWrites
<1>2. after.turn = t /\ after.kind = k.kind /\ after.wrote
  BY <1>1 DEF Container
<1>3. /\ work[t].step \in {"running", "done", "cancelled"}
      /\ receipts[t].outcome \in {"none", "failed"}
  BY <1>1 DEF ToolInv, ToolTypeOK, TurnSound, Ongoing, At, Receipt
<1>4. files \in [Files -> Writer] /\ repository \in [made : Turns \cup {Nobody}, git : BOOLEAN]
  BY <1>1 DEF ToolInv, ToolTypeOK
<1>5. \/ /\ k.kind # "init" /\ UNCHANGED repository
         /\ \E f \in IF k.kind = "write" THEN work[t].action.files ELSE Files :
              files' = [files EXCEPT ![f] = mark]
      \/ /\ k.kind = "init" /\ repository.made = t
         /\ repository' = [repository EXCEPT !.git = TRUE] /\ UNCHANGED files
  BY DEF ContainerWrites
<1>6. \A f \in Files : files'[f] = files[f] \/ files'[f] = mark
  BY <1>4, <1>5
<1>7. ASSUME NEW u \in Turns \ {t} PROVE Honest(u)'
  <2>1. mark # Mine(u) /\ mark # Untouched
    BY <1>1, ToolAssumption DEF Mine, Untouched
  <2>2. repository' = repository \/ repository' = [repository EXCEPT !.git = TRUE]
    BY <1>5
  <2> HIDE DEF mark, after, t
  <2>3. Undisturbed(u)
    BY <1>1, <1>2, <1>6, <2>1, <2>2 DEF Undisturbed
  <2> QED
    BY <2>3, UndisturbedHonest
<1>8. ReceiptTrue(t)'
  BY <1>1, <1>3 DEF ReceiptTrue
<1>9. ASSUME work[t].step \in {"done", "cancelled"} PROVE Honest(t)'
  BY <1>1, <1>8, <1>9, StoppedHonest
<1>10. ASSUME work[t].step = "running" PROVE Honest(t)'
  <2>1. Honest(t) /\ k.kind = work[t].kind
    BY <1>1, <1>10 DEF HonestInv, Honest, At
  <2>2. mark = Mine(t) => work[t].kind = "worker"
    BY <2>1 DEF Mine
  <2>3. /\ Phase(work[t], "worker", "worker") => \A f \in Files : work[t].before[f] # Mine(t)
        /\ Phase(work[t], "report", "test") =>
             \A f \in Files : files'[f] = Mine(t) => f \in work[t].listed
    BY <1>6, <1>10, <2>1, <2>2 DEF Honest, Phase
  <2>4. ASSUME k.kind = "write"
        PROVE  \A f \in work[t].action.files : files'[f] # Untouched
    <3>1. work[t].action.op = "write_file" /\ work[t].action \in Actions \cup {NoAction}
      BY <1>1, <1>10, <2>1, <2>4 DEF Honest, Matches, Work
    <3>2. PICK g \in Files : work[t].action.files = {g}
      BY <3>1, ToolAssumption DEF NoAction
    <3>3. files' = [files EXCEPT ![g] = mark]
      BY <1>5, <2>4, <3>2
    <3>4. mark # Untouched
      BY <1>1, ToolAssumption DEF Untouched
    <3> QED
      BY <1>4, <3>2, <3>3, <3>4
  <2>5. k.kind = "init" => repository'.git
    BY <1>4, <1>5
  <2>6. Achieved(t)'
    BY <1>1, <2>1, <2>4, <2>5 DEF Achieved
  <2>7. \A l \in containers' : l.turn = t => l = after
    BY <1>1
  <2>8. Does(t, "create_workspace") => repository'.made = t
    BY <1>4, <1>5, <1>10, <2>1 DEF Honest
  <2> HIDE DEF mark, after
  <2>9. \A l \in containers' : l.turn = t /\ At(t, "running")' =>
          l.kind = work'[t].kind /\ (l.wrote => Achieved(t)')
    BY <1>1, <1>2, <2>1, <2>6, <2>7
  <2> HIDE DEF t
  <2>10. Does(t, "create_workspace")' <=> Does(t, "create_workspace")
    BY <1>1 DEF Does
  <2>11. Matches(work'[t])
    BY <1>1, <2>1 DEF Honest
  <2>12. ~At(t, "exited")' /\ work'[t].step = "running"
    BY <1>1, <1>10 DEF At
  <2> QED
    BY <1>1, <1>8, <1>10, <2>3, <2>8, <2>9, <2>10, <2>11, <2>12 DEF Honest, Mine
<1> QED
  BY <1>3, <1>7, <1>9, <1>10

LEMMA HonestInitInv ==
  ASSUME ToolInit
  PROVE  HonestInv
<1>1. ToolInv
  BY ToolInitInv
<1>2. ASSUME NEW t \in Turns PROVE Honest(t)
  <2>1. work[t] = NoWork /\ receipts[t] = NoReceipt /\ \A f \in Files : files[f] = Untouched
    BY DEF ToolInit
  <2>2. work[t].step = "idle" /\ receipts[t].outcome = "none"
    BY <2>1 DEF NoWork, NoReceipt
  <2>3. Untouched # Mine(t)
    BY DEF Untouched, Mine
  <2> QED
    BY <2>1, <2>2, <2>3 DEF Honest, Matches, Phase, ReceiptTrue, At
<1> QED
  BY <1>1, <1>2 DEF HonestInv

LEMMA HonestNextInv ==
  ASSUME HonestInv, [ToolNext]_toolVars
  PROVE  HonestInv'
<1>1. ToolInv'
  BY ToolNextInv DEF HonestInv
<1>2. CASE UNCHANGED toolVars
  <2>1. \A u \in Turns : Undisturbed(u)
    BY <1>2 DEF Undisturbed, toolVars, world, docker
  <2> QED
    BY <1>1, <2>1, UndisturbedHonest DEF HonestInv
<1>3. ASSUME NEW t \in Turns,
             (\E action \in Actions : Take(t, action)) \/ Adapter(t) \/ CancelTool(t)
      PROVE  HonestInv'
  <2>1. Own(t) /\ Honest(t)'
    BY <1>3, TakeHonest, CodeTaskHonest, WorkspaceHonest, ServiceHonest, CancelToolHonest
       DEF Adapter
  <2> QED
    BY <1>1, <2>1, OwnHonest DEF HonestInv
<1>4. ASSUME (\E t \in Turns : ChangeApplied(t)) \/ DaemonStarts PROVE HonestInv'
  <2>1. \A u \in Turns : Undisturbed(u)
    BY <1>4 DEF Undisturbed, ChangeApplied, DaemonStarts, world, docker
  <2> QED
    BY <1>1, <2>1, UndisturbedHonest DEF HonestInv
<1>5. ASSUME NEW k \in containers, ContainerWrites(k) \/ ContainerEnds(k) PROVE HonestInv'
  BY <1>1, <1>5, ContainerWritesHonest, ContainerEndsHonest DEF HonestInv
<1>6. CASE DaemonStops
  BY <1>1, <1>6, DaemonStopsHonest DEF HonestInv
<1> QED
  BY <1>2, <1>3, <1>4, <1>5, <1>6 DEF ToolNext, Environment

---------------------------------------------------------------------------
\* What receipts claim stays true, with other turns at work in the same workspace, clients
\* that are killed, containers that outlive them and a daemon that stops.
THEOREM HonestInvariant == ToolSpec => []HonestInv
BY HonestInitInv, HonestNextInv, PTL DEF ToolSpec

LEMMA HonestGivesListed == HonestInv => WorkerChangesAreListed
BY DEF HonestInv, Honest, ReceiptTrue, WorkerChangesAreListed, Mine

LEMMA HonestGivesSuccess == HonestInv => SuccessIsBacked
BY DEF HonestInv, Honest, ReceiptTrue, SuccessIsBacked

\* A coding task's receipt lists every file that stands as its worker left it.
THEOREM WorkerChangesListed == ToolSpec => []WorkerChangesAreListed
BY HonestInvariant, HonestGivesListed, PTL

\* A receipt of success is backed by the files, the directory or the task it speaks of.
THEOREM SuccessBacked == ToolSpec => []SuccessIsBacked
BY HonestInvariant, HonestGivesSuccess, PTL
=============================================================================
